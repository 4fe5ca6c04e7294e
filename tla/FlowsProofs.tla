------------------------------ MODULE FlowsProofs ------------------------------
(***************************************************************************)
(* Proofs about the parts of Flows, for any repositories, tasks, commits,  *)
(* figures and bounds. A step of Flows is a step of the part looked at, so *)
(* each part has an inductive invariant of its own:                        *)
(*   Vetting      what a check of commits says is that of the selection on *)
(*                the screen, unless that was changed meanwhile;           *)
(*   FigureFacts  the figures saved last are in the database and in every  *)
(*                answer on its way, unless a newer fetch has replaced it; *)
(*   PageFacts    unless a request was reported failed the page shows the  *)
(*                project, or is about to (PageTrue); what was saved is in *)
(*                every list still to be written back (SavedKept); the row *)
(*                and the index a form still holds are those of the        *)
(*                database, of a user who waits (Waits);                   *)
(*   ListFacts    what the rows promise after a creation or a deletion     *)
(*                holds of the answer on its way to the screen already     *)
(*                (Promise), for an id is never given twice, so that what  *)
(*                was deleted stays away (Ids);                            *)
(*   FetchFacts   as long as the table holds still, the rows of the pages  *)
(*                before the one asked for are there, and the answer is    *)
(*                counted right (Still).                                   *)
(* That every part is well typed comes last, for most parts need it of     *)
(* these.                                                                  *)
(***************************************************************************)
EXTENDS Flows, SequenceTheorems, FiniteSetTheorems, TLAPS

-----------------------------------------------------------------------------
(* Each part has its own state and its own steps.                          *)

LEMMA PartsAtStart ==
  ASSUME Init
  PROVE  /\ flow = "tasks" => TaskPage!Init
         /\ flow = "projects" => List!Init
         /\ flow \in AnyUser => Waiting!Init
         /\ flow = "repository" => Adding!Init
         /\ flow \in OfFigures => OfTask!Init
         /\ flow = "fetch" => Fetch!Init
BY DEF Init, AnyUser, OfFigures

LEMMA PartsStep ==
  ASSUME [Next]_vars
  PROVE  /\ flow' = flow
         /\ UNCHANGED vars \/ /\ flow = "tasks" => TaskPage!Next
                              /\ flow = "projects" => List!Next
                              /\ flow = "project" => Waiting!Next
                              /\ flow = "project, hurried" => Hurried!Next
                              /\ flow = "repository" => Adding!Next
                              /\ flow = "figures of a task" => OfTask!Next
                              /\ flow = "figures of a project" => OfProject!Next
                              /\ flow = "fetch" => Fetch!Next
BY DEF Next, vars, InTasks, InList, InProject, InRepo, InFigures, InFetch

-----------------------------------------------------------------------------
(* Adding a repository to a project.                                       *)

\* The result of a check is that of the selection on the screen, unless that was
\* changed while the check was under way.
Vetting ==
  /\ whitelist \subseteq Listed /\ conflictsChecked \in BOOLEAN
  /\ conflictsChecked => conflicts = shown /\ (overtaken = TRUE \/ Adding!IncludeOnly \subseteq vetted)
  /\ addJob.step \in {"checking", "checked"} =>
       /\ addJob.only \subseteq addJob.ids
       /\ overtaken = TRUE \/ addJob.only = Adding!IncludeOnly

\* What an addition begins with: the list was checked, and the conflicts are shown.
Begun ==
  /\ Adding!AddsChecked /\ Adding!ConflictsConfirmed

\* Whatever changes the form takes back the check, or overtakes it.
LEMMA VettingForm ==
  ASSUME Vetting,
         \/ Adding!Open \/ Adding!OnClose \/ Adding!SetWhitelistMode
         \/ \E p \in Existing \cup {NewProject, NoProject} : Adding!SelectProject(p)
         \/ \E c \in Commits : Adding!ToggleWhitelist(c)
  PROVE  Vetting' /\ addJob' = addJob
<1>. USE DEF Vetting, Adding!form, Adding!check, Adding!history, Adding!ResetConflictCheck,
         Adding!Checking, Adding!IncludeOnly, Adding!GetTargetCommitIds
<1>1. CASE Adding!Open
  BY <1>1 DEF Adding!Open
<1>2. CASE Adding!OnClose
  BY <1>2 DEF Adding!OnClose
<1>3. CASE Adding!SetWhitelistMode
  BY <1>3 DEF Adding!SetWhitelistMode
<1>4. ASSUME NEW p \in Existing \cup {NewProject, NoProject}, Adding!SelectProject(p)
      PROVE  Vetting' /\ addJob' = addJob
  BY <1>4 DEF Adding!SelectProject
<1>5. ASSUME NEW c \in Commits, Adding!ToggleWhitelist(c)
      PROVE  Vetting' /\ addJob' = addJob
  BY <1>5 DEF Adding!ToggleWhitelist
<1>. QED
  BY <1>1, <1>2, <1>3, <1>4, <1>5

\* What an addition does with its list is what the list says.
LEMMA ListIsPicked == \A only : only # {} => Adding!Picked(only) = only
BY DEF Adding!Picked

\* Pressing a button captures the selection.
LEMMA VettingPress ==
  ASSUME Vetting, Adding!HandleConfirm \/ Adding!DoAddAnyway
  PROVE  Vetting' /\ Begun
<1>1. /\ UNCHANGED <<whitelistMode, whitelist, conflicts, conflictsChecked, vetted, shown>>
      /\ \/ /\ conflictsChecked = TRUE /\ overtaken' = overtaken
            /\ addJob' = Adding!Adding(selectedProject, Adding!IncludeOnly)
         \/ /\ conflictsChecked = FALSE
            /\ addJob' = [step |-> "checking", ids |-> Adding!GetTargetCommitIds,
                          project |-> selectedProject, only |-> Adding!IncludeOnly]
  BY DEF Vetting, Adding!HandleConfirm, Adding!DoAddAnyway, Adding!Press, Adding!HasConflict,
         Adding!form, Adding!check, Adding!history
<1>2. /\ Adding!IncludeOnly' = Adding!IncludeOnly
      /\ Adding!IncludeOnly \subseteq Adding!GetTargetCommitIds
  BY <1>1 DEF Adding!IncludeOnly, Adding!GetTargetCommitIds
<1>3. CASE /\ conflictsChecked = TRUE /\ overtaken' = overtaken
           /\ addJob' = Adding!Adding(selectedProject, Adding!IncludeOnly)
  <2>1. addJob'.step \in {"creating", "adding"} /\ addJob'.only = Adding!IncludeOnly
    BY <1>3 DEF Adding!Adding
  <2>2. Vetting'
    BY <1>1, <1>2, <1>3, <2>1 DEF Vetting
  <2>3. conflicts = shown' /\ (overtaken = TRUE \/ addJob'.only \subseteq vetted')
    BY <1>1, <1>3, <2>1 DEF Vetting
  <2>. QED
    BY <2>2, <2>3, ListIsPicked DEF Begun, Adding!AddsChecked, Adding!ListChecked, Adding!ConflictsConfirmed
<1>4. CASE conflictsChecked = FALSE
  <2>1. addJob'.step = "checking"
    BY <1>1, <1>4
  <2>2. Vetting'
    BY <1>1, <1>2, <1>4 DEF Vetting
  <2>. QED
    BY <2>1, <2>2 DEF Begun, Adding!AddsChecked, Adding!ListChecked, Adding!ConflictsConfirmed, Adding!Begins
<1>. QED
  BY <1>1, <1>3, <1>4

\* The requests and their answers.
LEMMA VettingJob ==
  ASSUME Vetting, Adding!Backend \/ Adding!Answers
  PROVE  Vetting' /\ Begun
<1>. USE DEF Vetting, Begun, Adding!AddsChecked, Adding!ListChecked, Adding!ConflictsConfirmed,
         Adding!Begins, Adding!NoJob, Adding!form, Adding!check, Adding!history,
         Adding!IncludeOnly, Adding!GetTargetCommitIds
<1>1. CASE Adding!CheckProjectConflicts
  BY <1>1 DEF Adding!CheckProjectConflicts
<1>2. CASE Adding!CreateProject
  BY <1>2 DEF Adding!CreateProject
<1>3. CASE Adding!AddRepoToProject
  BY <1>3 DEF Adding!AddRepoToProject
<1>4. CASE Adding!CheckAnswered
  <2>1. /\ UNCHANGED <<whitelistMode, whitelist, overtaken>> /\ addJob.step = "checked"
        /\ conflicts' = addJob.found /\ conflictsChecked' = TRUE
        /\ shown' = addJob.found /\ vetted' = addJob.ids
        /\ addJob' = IF addJob.found # {} THEN Adding!NoJob ELSE Adding!Adding(addJob.project, addJob.only)
    BY <1>4 DEF Adding!CheckAnswered
  <2>2. addJob.only \subseteq addJob.ids
    BY <2>1
  <2>3. CASE addJob.found # {}
    <3>1. addJob'.step = "none"
      BY <2>1, <2>3
    <3>. QED
      BY <2>1, <2>2, <3>1
  <2>4. CASE addJob.found = {}
    <3>1. addJob'.step \in {"creating", "adding"} /\ addJob'.only = addJob.only
      BY <2>1, <2>4 DEF Adding!Adding
    <3>2. Vetting'
      BY <2>1, <2>2, <3>1
    <3>3. addJob'.only # {} => Adding!Picked(addJob'.only) \subseteq vetted'
      BY <2>1, <2>2, <3>1, ListIsPicked
    <3>. QED
      BY <2>1, <2>4, <3>2, <3>3
  <2>. QED
    BY <2>3, <2>4
<1>5. CASE Adding!ProjectCreated
  BY <1>5 DEF Adding!ProjectCreated
<1>6. CASE Adding!AddAnswered \/ Adding!Fails
  BY <1>6 DEF Adding!AddAnswered, Adding!Fails
<1>. QED
  BY <1>1, <1>2, <1>3, <1>4, <1>5, <1>6 DEF Adding!Backend, Adding!Answers

Repository == flow = "repository" => Vetting

LEMMA RepositoryAlways == Spec => []Repository
<1>1. Init => Repository
  BY PartsAtStart DEF Repository, Vetting, Adding!Init, Adding!NoJob
<1>2. Repository /\ [Next]_vars => Repository'
  <2>. SUFFICES ASSUME Vetting, flow = "repository", [Next]_vars PROVE Vetting'
    BY PartsStep DEF Repository
  <2>1. CASE Adding!Next
    BY <2>1, VettingForm, VettingPress, VettingJob DEF Adding!Next, Adding!UserEvents
  <2>2. CASE UNCHANGED vars
    BY <2>2 DEF vars, ofRepo, Vetting, Adding!IncludeOnly, Adding!GetTargetCommitIds
  <2>. QED
    BY <2>1, <2>2, PartsStep
<1>. QED
  BY <1>1, <1>2, PTL DEF Spec

\* An addition begins with what was checked and shown.
LEMMA RepositoryStep ==
  ASSUME Repository, flow = "repository", [Next]_vars, ~UNCHANGED vars
  PROVE  Begun
<1>1. Vetting /\ Adding!Next
  BY PartsStep DEF Repository
<1>2. CASE Adding!HandleConfirm \/ Adding!DoAddAnyway
  BY <1>1, <1>2, VettingPress
<1>3. CASE Adding!Backend \/ Adding!Answers
  BY <1>1, <1>3, VettingJob
<1>4. CASE addJob' = addJob
  BY <1>4 DEF Begun, Adding!AddsChecked, Adding!ListChecked, Adding!ConflictsConfirmed, Adding!Begins
<1>. QED
  BY <1>1, <1>2, <1>3, <1>4, VettingForm DEF Adding!Next, Adding!UserEvents

\* A commit found in a project is only added again after the user has seen it on
\* the list of conflicts, and pressed once more.
THEOREM ConflictsConfirmed == Spec => ConflictsAreConfirmed
<1>. DEFINE A == flow = "repository" => Adding!ConflictsConfirmed
<1>1. Repository /\ [Next]_vars => [A]_vars
  BY RepositoryStep DEF Begun
<1>2. Spec => [][A]_vars
  BY <1>1, RepositoryAlways, PTL DEF Spec
<1>. QED
  BY <1>2 DEF ConflictsAreConfirmed

-----------------------------------------------------------------------------
(* Ticking tasks.                                                          *)

\* Only the button of the dialog sends tasks off.
LEMMA OnlyTheButtonAdds ==
  ASSUME TaskPage!Next, adding' # adding, adding' # <<>>
  PROVE  adding' = <<TaskPage!SelectedTasks>>
<1>. USE DEF TaskPage!page, TaskPage!dialog, TaskPage!estimating
<1>1. CASE TaskPage!AddEnds \/ TaskPage!Generated \/ TaskPage!Refreshed \/ TaskPage!EstimateFails
  BY <1>1 DEF TaskPage!AddEnds, TaskPage!Generated, TaskPage!Refreshed, TaskPage!EstimateFails
<1>2. ASSUME NEW c \in calls, TaskPage!LoadEnds(c) PROVE FALSE
  BY <1>2 DEF TaskPage!LoadEnds
<1>3. CASE TaskPage!OpenFromMenu \/ TaskPage!Reload
  BY <1>3 DEF TaskPage!OpenFromMenu, TaskPage!Reload
<1>4. CASE TaskPage!ToggleSelectAll \/ TaskPage!OpenAddDialog \/ TaskPage!CloseAddDialog \/ TaskPage!StartEstimate
  BY <1>4 DEF TaskPage!ToggleSelectAll, TaskPage!OpenAddDialog, TaskPage!CloseAddDialog, TaskPage!StartEstimate
<1>5. CASE TaskPage!HandleAddToProject
  BY <1>5 DEF TaskPage!HandleAddToProject
<1>6. ASSUME NEW s, NEW d, NEW e, TaskPage!Commit(s, d, e) PROVE FALSE
  BY <1>6 DEF TaskPage!Commit
<1>7. ASSUME NEW t, TaskPage!ToggleSelect(t) \/ TaskPage!TypeName(t) PROVE FALSE
  BY <1>7 DEF TaskPage!ToggleSelect, TaskPage!TypeName
<1>. QED
  BY <1>1, <1>2, <1>3, <1>4, <1>5, <1>6, <1>7 DEF TaskPage!Next, TaskPage!UserEvents,
     TaskPage!ApplyFilters, TaskPage!ResetFilters, TaskPage!OnDateChange, TaskPage!HandleSizeChange,
     TaskPage!HandlePageChange, TaskPage!OnSortChange

\* What is added to a project is what the user had before him: of tasks the ticked
\* ones on the screen; of commits, when they are listed, those that were checked,
\* unless the selection was changed while its check was under way.
THEOREM OnlyVettedIsAdded == Spec => AddsOnlyVetted
<1>. DEFINE A == /\ flow = "tasks" => TaskPage!AddsVisible
                 /\ flow = "repository" => Adding!AddsChecked
<1>1. Repository /\ [Next]_vars => [A]_vars
  <2>. SUFFICES ASSUME Repository, [Next]_vars, ~UNCHANGED vars PROVE A
    OBVIOUS
  <2>1. ASSUME flow = "tasks" PROVE TaskPage!AddsVisible
    <3>1. TaskPage!Next
      BY <2>1, PartsStep
    <3>. QED
      BY <3>1, OnlyTheButtonAdds DEF TaskPage!AddsVisible, TaskPage!SelectedTasks
  <2>2. flow = "repository" => Adding!AddsChecked
    BY RepositoryStep DEF Begun
  <2>. QED
    BY <2>1, <2>2
<1>2. Spec => [][A]_vars
  BY <1>1, RepositoryAlways, PTL DEF Spec
<1>. QED
  BY <1>2 DEF AddsOnlyVetted

-----------------------------------------------------------------------------
(* Manual figures. The parts of a task and of a project differ in whether  *)
(* an empty figure clears the manual one, and in the user's patience.      *)

Idle == <<>>
Sent == <<"sent">>

Cells == [Figures -> Values \cup {None}]
Answers == [auto : Cells, manual : Cells]
Agrees(m, asked, emptied) == \A f \in Figures : asked[f] # None \/ f \in emptied => m[f] = asked[f]

\* The request under way, as HandleSubmit makes it and its answers change it.
FigureJob ==
  \/ manualJob = [step |-> "none"]
  \/ \E s \in {"sent", "refused", "done", "reloading"}, x \in Cells :
       manualJob = [step |-> s, figures |-> x]

\* The one key of the page is on its way until there is an answer.
FigureTypes ==
  /\ OfTask!TypeOK /\ FigureJob
  /\ manualOpen \in BOOLEAN
  /\ DOMAIN data = {"detail"} /\ DOMAIN flight = {"detail"}
  /\ flight["detail"] \in {Idle, Sent} \/ \E x \in Answers : flight["detail"] = <<"read", x>>
  /\ data["detail"] = NoData => flight["detail"] # Idle /\ manualJob.step = "none"

\* What was saved last is in the database, and so is what is on its way to the page.
FiguresKept(emptied) ==
  /\ manualJob.step = "done" => Agrees(manual, manualJob.figures, emptied)
  /\ last # NoData =>
       /\ manualJob.step \in {"none", "reloading"}
       /\ Agrees(manual, last, emptied)
       /\ flight["detail"] = Idle => Agrees(data["detail"].manual, last, emptied)
       /\ flight["detail"] \notin {Idle, Sent} => Agrees(flight["detail"][2].manual, last, emptied)

LEMMA FigureShapes ==
  /\ Idle # Sent /\ NoData \notin Answers
  /\ \A x : <<"read", x>> \notin {Idle, Sent} /\ <<"read", x>>[2] = x
BY FlowsAssumption DEF Answers, Cells, Idle, Sent

\* The dialog.
LEMMA FigureDialog ==
  ASSUME FigureTypes, NEW emptied \in SUBSET Figures, FiguresKept(emptied),
         \/ OfTask!OpenDialog \/ OfProject!OpenDialog \/ OfTask!OnClose \/ OfProject!OnClose
         \/ \E f \in Figures, v \in Values \cup {None} : OfTask!Enter(f, v) \/ OfProject!Enter(f, v)
         \/ OfTask!HandleSubmit \/ OfProject!HandleSubmit
  PROVE  FigureTypes' /\ FiguresKept(emptied)'
<1>. USE DEF FigureTypes, FigureJob, FiguresKept, Agrees, OfTask!TypeOK, OfTask!cache, OfProject!cache,
         OfTask!Cells, Cells, Answers, OfTask!Shown, OfTask!detail
<1>1. CASE OfTask!OpenDialog \/ OfProject!OpenDialog
  <2>1. data["detail"] \in Answers /\ figures' = OfTask!Effective(data["detail"])
    BY <1>1 DEF OfTask!OpenDialog, OfProject!OpenDialog, OfTask!Prefill, OfProject!Prefill,
       OfTask!Effective, OfProject!Effective, OfProject!Shown, OfProject!detail
  <2>2. figures' \in Cells
    BY <2>1 DEF OfTask!Effective
  <2>3. manualOpen' = TRUE /\ UNCHANGED <<auto, manual, data, flight, manualJob, saves, runs, last>>
    BY <1>1 DEF OfTask!OpenDialog, OfProject!OpenDialog
  <2>4. data["detail"] # NoData
    BY <2>1, FigureShapes
  <2>. QED
    BY <2>2, <2>3, <2>4
<1>2. CASE OfTask!OnClose \/ OfProject!OnClose
  BY <1>2 DEF OfTask!OnClose, OfProject!OnClose
<1>3. ASSUME NEW f \in Figures, NEW v \in Values \cup {None}, OfTask!Enter(f, v) \/ OfProject!Enter(f, v)
      PROVE  FigureTypes' /\ FiguresKept(emptied)'
  <2>1. figures' = [figures EXCEPT ![f] = v]
    BY <1>3 DEF OfTask!Enter, OfProject!Enter
  <2>2. figures' \in Cells
    BY <2>1
  <2>. QED
    BY <1>3, <2>2 DEF OfTask!Enter, OfProject!Enter
<1>4. CASE OfTask!HandleSubmit \/ OfProject!HandleSubmit
  BY <1>4 DEF OfTask!HandleSubmit, OfProject!HandleSubmit, OfTask!NoJob, OfProject!NoJob
<1>. QED
  BY <1>1, <1>2, <1>3, <1>4

\* The request and its answers, and a run of kbcli.
LEMMA FigureRequest ==
  ASSUME FigureTypes, NEW emptied \in SUBSET Figures, FiguresKept(emptied),
         \/ emptied = {} /\ OfProject!JobStep
         \/ emptied = Figures /\ OfTask!JobStep
         \/ OfTask!Recalculate \/ OfProject!Recalculate
  PROVE  FigureTypes' /\ FiguresKept(emptied)'
<1>. USE DEF FigureTypes, FigureJob, FiguresKept, Agrees, OfTask!TypeOK, OfTask!cache, OfProject!cache,
         OfTask!Cells, Cells, OfTask!Shown, OfTask!detail, OfProject!detail, OfTask!NoJob, OfProject!NoJob
<1>1. CASE (emptied = Figures /\ OfTask!UpdateManual) \/ (emptied = {} /\ OfProject!UpdateManual)
  <2>1. PICK x \in Cells : manualJob = [step |-> "sent", figures |-> x]
    BY <1>1 DEF OfTask!UpdateManual, OfProject!UpdateManual
  <2>2. manual' = [f \in Figures |-> IF x[f] # None \/ f \in emptied THEN x[f] ELSE manual[f]]
        /\ manualJob' = [step |-> "done", figures |-> x]
    BY <1>1, <2>1 DEF OfTask!UpdateManual, OfProject!UpdateManual
  <2>3. manual' \in Cells /\ Agrees(manual', x, emptied)
    BY <2>1, <2>2
  <2>4. last = NoData
    BY <2>1
  <2>. QED
    BY <1>1, <2>1, <2>2, <2>3, <2>4 DEF OfTask!UpdateManual, OfProject!UpdateManual
<1>2. CASE OfTask!Refuse \/ OfProject!Refuse
  <2>1. PICK x \in Cells : manualJob = [step |-> "sent", figures |-> x]
    BY <1>2 DEF OfTask!Refuse, OfProject!Refuse
  <2>2. manualJob' = [step |-> "refused", figures |-> x]
    BY <1>2, <2>1 DEF OfTask!Refuse, OfProject!Refuse
  <2>. QED
    BY <1>2, <2>1, <2>2 DEF OfTask!Refuse, OfProject!Refuse
<1>3. CASE OfTask!Answered \/ OfProject!Answered
  <2>1. PICK x \in Cells : manualJob = [step |-> "done", figures |-> x]
    BY <1>3 DEF OfTask!Answered, OfProject!Answered
  <2>2. /\ manualJob' = [step |-> "reloading", figures |-> x] /\ last' = x
        /\ UNCHANGED <<auto, manual, figures, saves, runs, data>> /\ manualOpen' = FALSE
        /\ flight' = [flight EXCEPT !["detail"] = Sent]
    BY <1>3, <2>1 DEF OfTask!Answered, OfProject!Answered, OfTask!Cache!InvalidateAll,
       OfProject!Cache!InvalidateAll, OfTask!Cache!Again, OfProject!Cache!Again,
       OfTask!Cache!Loading, OfProject!Cache!Loading, OfTask!Cache!Sent, OfProject!Cache!Sent, Sent
  <2>3. Agrees(manual, x, emptied) /\ data["detail"] # NoData /\ flight'["detail"] = Sent
    BY <2>1, <2>2
  <2>. QED
    BY <2>1, <2>2, <2>3, FigureShapes
<1>4. CASE OfTask!Failed \/ OfProject!Failed \/ OfTask!Reloaded \/ OfProject!Reloaded
  BY <1>4 DEF OfTask!Failed, OfProject!Failed, OfTask!Reloaded, OfProject!Reloaded
<1>5. CASE OfTask!Recalculate \/ OfProject!Recalculate
  <2>1. auto' \in Cells /\ UNCHANGED <<manual, data, flight, manualOpen, figures, manualJob, saves, last>>
    BY <1>5 DEF OfTask!Recalculate, OfProject!Recalculate
  <2>. QED
    BY <2>1
<1>. QED
  BY <1>1, <1>2, <1>3, <1>4, <1>5 DEF OfTask!JobStep, OfProject!JobStep

\* The fetch of the page.
LEMMA FigureFetch ==
  ASSUME FigureTypes, NEW emptied \in SUBSET Figures, FiguresKept(emptied),
         OfTask!FetchStep \/ OfProject!FetchStep
  PROVE  FigureTypes' /\ FiguresKept(emptied)'
<1>. USE DEF FigureTypes, FigureJob, FiguresKept, Agrees, OfTask!TypeOK, OfTask!Cells, Cells, Answers,
         OfTask!Shown, OfProject!Shown, OfTask!detail, OfProject!detail
<1>1. UNCHANGED <<auto, manual, manualOpen, manualJob, saves, runs, last>>
  BY DEF OfTask!FetchStep, OfProject!FetchStep
<1>2. CASE OfTask!Cache!Read("detail") \/ OfProject!Cache!Read("detail")
  <2>1. /\ flight["detail"] = Sent /\ UNCHANGED data
        /\ flight' = [flight EXCEPT !["detail"] = <<"read", [auto |-> auto, manual |-> manual]>>]
    BY <1>2 DEF OfTask!Cache!Read, OfProject!Cache!Read, OfTask!Cache!Sent, OfProject!Cache!Sent, Sent
  <2>2. figures' = figures
    BY <2>1 DEF OfTask!FetchStep, OfProject!FetchStep
  <2>3. PICK x : x = [auto |-> auto, manual |-> manual]
    OBVIOUS
  <2>4. x \in Answers /\ flight'["detail"] = <<"read", x>> /\ x.manual = manual
    BY <2>1, <2>3
  <2>5. flight'["detail"][2] = x /\ flight'["detail"] \notin {Idle, Sent}
    BY <2>4, FigureShapes
  <2>. QED
    BY <1>1, <2>1, <2>2, <2>4, <2>5
<1>3. CASE OfTask!Cache!Settle("detail") \/ OfProject!Cache!Settle("detail")
  <2>1. /\ flight["detail"] \notin {Idle, Sent}
        /\ data' = [data EXCEPT !["detail"] = flight["detail"][2]]
        /\ flight' = [flight EXCEPT !["detail"] = Idle]
    BY <1>3 DEF OfTask!Cache!Settle, OfProject!Cache!Settle, OfTask!Cache!Sent, OfProject!Cache!Sent,
       OfTask!Cache!Idle, OfProject!Cache!Idle, Sent, Idle
  <2>2. PICK x \in Answers : flight["detail"] = <<"read", x>>
    BY <2>1
  <2>3. data'["detail"] = x /\ flight'["detail"] = Idle /\ x # NoData
        /\ DOMAIN data' = {"detail"} /\ DOMAIN flight' = {"detail"}
    BY <2>1, <2>2, FigureShapes
  <2>4. figures' \in Cells
    <3>1. figures' \in {figures, OfTask!Effective(x)}
      BY <2>3 DEF OfTask!FetchStep, OfProject!FetchStep, OfTask!Prefill, OfProject!Prefill,
         OfTask!Effective, OfProject!Effective
    <3>. QED
      BY <3>1 DEF OfTask!Effective
  <2>5. data["detail"] = NoData => manualJob.step = "none"
    OBVIOUS
  <2>. QED
    BY <1>1, <2>2, <2>3, <2>4, <2>5, FigureShapes
<1>. QED
  BY <1>2, <1>3 DEF OfTask!FetchStep, OfProject!FetchStep

FigureFacts ==
  /\ flow = "figures of a task" => FigureTypes /\ FiguresKept(Figures)
  /\ flow = "figures of a project" => FigureTypes /\ FiguresKept({})

\* Time, and a connection that comes back.
LEMMA FigureTime ==
  ASSUME FigureTypes, NEW emptied \in SUBSET Figures, FiguresKept(emptied),
         OfTask!TimePasses \/ OfProject!TimePasses
  PROVE  FigureTypes' /\ FiguresKept(emptied)'
<1>1. UNCHANGED <<auto, manual, manualOpen, figures, manualJob, saves, runs, last>>
  BY DEF OfTask!TimePasses, OfProject!TimePasses
<1>2. UNCHANGED data /\ (flight' = flight \/ flight' = [flight EXCEPT !["detail"] = Sent])
  BY DEF OfTask!TimePasses, OfProject!TimePasses, OfTask!Cache!Time, OfProject!Cache!Time,
     OfTask!Cache!Age, OfProject!Cache!Age, OfTask!Cache!Drop, OfProject!Cache!Drop,
     OfTask!Cache!Reconnect, OfProject!Cache!Reconnect, OfTask!Cache!Sent, OfProject!Cache!Sent, Sent,
     OfTask!detail, OfProject!detail
<1>3. DOMAIN flight' = {"detail"} /\ flight'["detail"] \in {flight["detail"], Sent}
  BY <1>2 DEF FigureTypes
<1>. QED
  BY <1>1, <1>2, <1>3, FigureShapes DEF FigureTypes, FigureJob, FiguresKept, Agrees, OfTask!TypeOK,
     OfTask!Cells, Cells, Answers, OfTask!Shown, OfTask!detail

LEMMA TaskFiguresStep ==
  ASSUME FigureTypes, FiguresKept(Figures), OfTask!Next
  PROVE  FigureTypes' /\ FiguresKept(Figures)'
BY FigureDialog, FigureRequest, FigureFetch, FigureTime DEF OfTask!Next, OfTask!UserEvents

LEMMA ProjectFiguresStep ==
  ASSUME FigureTypes, FiguresKept({}), OfProject!Next
  PROVE  FigureTypes' /\ FiguresKept({})'
BY FigureDialog, FigureRequest, FigureFetch, FigureTime DEF OfProject!Next, OfProject!UserEvents

LEMMA FiguresAlways == Spec => []FigureFacts
<1>1. Init => FigureFacts
  <2>. SUFFICES ASSUME OfTask!Init PROVE FigureTypes /\ FiguresKept(Figures) /\ FiguresKept({})
    BY PartsAtStart DEF FigureFacts, OfFigures
  <2>1. /\ auto \in Cells /\ manual = [f \in Figures |-> None] /\ figures = [f \in Figures |-> None]
        /\ last = [f \in Figures |-> None] /\ manualJob = [step |-> "none"] /\ manualOpen = FALSE
        /\ data = [k \in {"detail"} |-> NoData] /\ flight = [k \in {"detail"} |-> Sent]
    BY DEF OfTask!Init, OfTask!Cells, Cells, OfTask!NoJob, OfTask!detail, OfTask!Cache!Sent, Sent
  <2>. QED
    BY <2>1, FigureShapes DEF FigureTypes, FiguresKept, FigureJob, Agrees, OfTask!TypeOK,
       OfTask!Cells, Cells, OfTask!detail, OfTask!Shown
<1>2. FigureFacts /\ [Next]_vars => FigureFacts'
  <2>. SUFFICES ASSUME FigureFacts, [Next]_vars PROVE FigureFacts'
    OBVIOUS
  <2>1. CASE UNCHANGED vars
    BY <2>1 DEF vars, cache, ofFigures, FigureFacts, Agrees, FigureTypes, FiguresKept, FigureJob, OfTask!TypeOK,
       OfTask!Cells, OfTask!detail, OfTask!Shown
  <2>2. CASE flow = "figures of a task" /\ OfTask!Next
    BY <2>2, PartsStep, TaskFiguresStep DEF FigureFacts
  <2>3. CASE flow = "figures of a project" /\ OfProject!Next
    BY <2>3, PartsStep, ProjectFiguresStep DEF FigureFacts
  <2>. QED
    BY <2>1, <2>2, <2>3, PartsStep DEF FigureFacts
<1>. QED
  BY <1>1, <1>2, PTL DEF Spec

\* At rest the page shows the figures that were saved last.
LEMMA FiguresShown ==
  ASSUME FigureFacts
  PROVE  /\ flow = "figures of a task" => OfTask!SavedIsShown
         /\ flow = "figures of a project" => OfProject!SavedIsShown
BY DEF FigureFacts, FiguresKept, Agrees, OfTask!SavedIsShown, OfProject!SavedIsShown, OfTask!Resting,
   OfProject!Resting, OfTask!Shown, OfProject!Shown, OfTask!detail, OfProject!detail,
   OfTask!Cache!Idle, OfProject!Cache!Idle, Idle

-----------------------------------------------------------------------------
(* The page of a project.                                                  *)

Removals == [op : {"removeAt"}, index : Nat \ {0}, names : Repos]
Additions == [op : {"addRepo"}, repo : Repos]
Pages == [repos : Seq(Repos), tasks : SUBSET Tasks]

\* What the backend is asked for.
Ask(o) ==
  \/ o \in [op : {"update"}, repos : Seq(Repos), tasks : {{}}]
  \/ o \in Additions
  \/ o \in Removals
  \/ o \in [op : {"addTasks"}, tasks : SUBSET Tasks]
  \/ o \in [op : {"removeTasks"}, tasks : SUBSET Tasks]

\* An entry that is edited is removed and added again.
Todo(todo) ==
  \/ Ask(todo[1]) /\ todo = <<todo[1]>>
  \/ todo = <<todo[1], todo[2]>> /\ todo[1] \in Removals /\ todo[2] \in Additions

JobOf(j) ==
  /\ j.step \in {"none", "sent", "read", "updated", "done", "reloading"}
  /\ j.step = "none" => j = [step |-> "none"]
  /\ j.step \in {"sent", "updated", "done"} => j = [step |-> j.step, todo |-> j.todo]
  /\ j.step \in {"sent", "read", "updated", "done"} => Todo(j.todo)
  /\ j.step = "read" =>
       /\ j = [step |-> "read", todo |-> j.todo, row |-> j.row]
       /\ j.row \in Seq(Repos) /\ j.todo[1].op \in {"addRepo", "removeAt"}
       /\ j.todo[1].op = "removeAt" => j.todo[1].index \in DOMAIN j.row
  /\ j.step = "updated" => j.todo[1].op = "update"
  /\ j.step = "reloading" => j.saves \subseteq Repos

DialogOf(d) ==
  \/ d \in [form : {"none", "edit", "repo", "task"}]
  \/ d \in [form : {"repo", "removeRepo"}, index : Nat \ {0}, repo : Repos]
  \/ d \in [form : {"removeTask"}, task : Tasks]

Forms == Waiting!Forms
Slots == Waiting!Slots

PageTypes ==
  /\ repos \in Seq(Repos) /\ added \subseteq Tasks /\ saved \subseteq Repos
  /\ doubt \in BOOLEAN /\ guess \in BOOLEAN
  /\ DOMAIN data = {"detail"} /\ data["detail"] \in {NoData} \cup Pages
  /\ DOMAIN flight = {"detail"}
  /\ \/ flight["detail"] \in {Idle, Sent}
     \/ flight["detail"][2] \in Pages /\ flight["detail"] = <<"read", flight["detail"][2]>>
  /\ data["detail"] = NoData =>
       flight["detail"] # Idle /\ dialog.form = "none" /\ \A f \in Slots : forms[f].step = "none"
  /\ DialogOf(dialog)
  /\ DOMAIN forms = Slots /\ \A f \in Slots : JobOf(forms[f])

\* The database has changed, or may have, and the page will be fetched for it.
Unfetched(j) ==
  \/ j.step \in {"updated", "done"}
  \/ j.step \in {"sent", "read"} /\ j.todo[1].op = "addRepo"

\* Otherwise, and unless a request was reported failed, what the page shows or has
\* on its way is the project as it is.
PageTrue ==
  doubt = FALSE /\ (\A f \in Slots : ~Unfetched(forms[f])) =>
     /\ flight["detail"] = Idle => data["detail"] = Waiting!Project
     /\ flight["detail"] \notin {Idle, Sent} => flight["detail"][2] = Waiting!Project

\* A repository that was saved is in every list that can still be written back.
Has(list, r) == \E i \in DOMAIN list : list[i] = r

JobHas(j, r) ==
  /\ j.step = "read" => Has(j.row, r)
  /\ j.step = "sent" /\ j.todo[1].op = "update" => Has(j.todo[1].repos, r)

SavedKept ==
  \A r \in saved :
    /\ Has(repos, r)
    /\ \A f \in Slots : JobHas(forms[f], r)
    /\ data["detail"] # NoData => Has(data["detail"].repos, r)
    /\ flight["detail"] \notin {Idle, Sent} => Has(flight["detail"][2].repos, r)

PageInv == PageTrue /\ SavedKept

\* A user who waits has one job at a time, for the dialog that is open if one is.
OneByOne ==
  /\ \A f, g \in Forms : forms[f].step # "none" /\ forms[g].step # "none" => f = g
  /\ dialog.form # "none" =>
       \A f \in Forms : forms[f].step # "none" => f = dialog.form /\ forms[f].step # "reloading"

\* What a dialog was filled with and a job was begun with still holds.
Named(j) ==
  /\ j.step = "read" => j.row = repos
  /\ j.step \in {"sent", "read"} /\ j.todo[1].op = "removeAt" =>
       j.todo[1].index \in DOMAIN repos /\ repos[j.todo[1].index] = j.todo[1].names

AllNamed ==
  /\ \A l \in Late : forms[l].step = "none"
  /\ \A f \in Forms : Named(forms[f])
  /\ dialog.form # "none" /\ forms[dialog.form].step = "none" /\ "index" \in DOMAIN dialog =>
       dialog.index \in DOMAIN repos /\ dialog.repo = repos[dialog.index]

Waits == OneByOne /\ (guess = FALSE => AllNamed)

LEMMA FormsAndSlots ==
  /\ Forms = {"edit", "repo", "task", "removeTask", "removeRepo"}
  /\ Slots = Forms \cup Late /\ Late \cap Forms = {}
BY FlowsAssumption DEF Forms, Slots, Waiting!Forms, Waiting!Slots

LEMMA TodoShape ==
  ASSUME NEW todo, Todo(todo)
  PROVE  /\ Head(todo) = todo[1]
         /\ \/ Ask(todo[1]) /\ Len(todo) = 1
            \/ /\ todo[1] \in Removals /\ todo[2] \in Additions
               /\ Len(todo) = 2 /\ Tail(todo) = <<todo[2]>>
<1>1. CASE Ask(todo[1]) /\ todo = <<todo[1]>>
  <2>. PICK o : o = todo[1]
    OBVIOUS
  <2>1. todo = <<o>>
    BY <1>1
  <2>2. Head(todo) = o /\ Len(todo) = 1
    BY <2>1
  <2>. QED
    BY <1>1, <2>2
<1>2. CASE todo = <<todo[1], todo[2]>> /\ todo[1] \in Removals /\ todo[2] \in Additions
  <2>. PICK o, p : o = todo[1] /\ p = todo[2]
    OBVIOUS
  <2>1. todo = <<o, p>>
    BY <1>2
  <2>. QED
    BY <1>2, <2>1
<1>. QED
  BY <1>1, <1>2 DEF Todo

LEMMA OpShape ==
  ASSUME NEW todo, Todo(todo)
  PROVE  /\ todo[1].op = "addRepo" => todo[1].repo \in Repos /\ Len(todo) = 1
         /\ todo[1].op = "removeAt" => todo[1].index \in Nat \ {0} /\ todo[1].names \in Repos
         /\ todo[1].op = "update" => todo[1].repos \in Seq(Repos) /\ todo[1].tasks = {} /\ Len(todo) = 1
         /\ todo[1].op \in {"addTasks", "removeTasks"} => todo[1].tasks \subseteq Tasks /\ Len(todo) = 1
         /\ Len(todo) # 1 => Todo(Tail(todo)) /\ Tail(todo)[1].op = "addRepo" /\ todo[1].op = "removeAt"
         /\ Ask(todo[1])
<1>1. CASE Ask(todo[1]) /\ Len(todo) = 1
  BY <1>1 DEF Ask, Additions, Removals
<1>2. CASE /\ todo[1] \in Removals /\ todo[2] \in Additions
           /\ Len(todo) = 2 /\ Tail(todo) = <<todo[2]>>
  <2>. PICK p : p = todo[2]
    OBVIOUS
  <2>1. Tail(todo) = <<p>> /\ p \in Additions
    BY <1>2
  <2>2. Tail(todo)[1] = p
    BY <2>1
  <2>. QED
    BY <1>2, <2>1, <2>2 DEF Todo, Ask, Removals, Additions
<1>. QED
  BY <1>1, <1>2, TodoShape

\* Only entries equal to the one that is removed can be lost.
LEMMA RemoveOne ==
  ASSUME NEW s \in Seq(Repos), NEW i \in DOMAIN s
  PROVE  /\ Waiting!RemoveAt(s, i) \in Seq(Repos)
         /\ \A j \in DOMAIN s : s[j] # s[i] =>
              \E k \in DOMAIN Waiting!RemoveAt(s, i) : Waiting!RemoveAt(s, i)[k] = s[j]
<1>. DEFINE a == SubSeq(s, 1, i - 1)
            b == SubSeq(s, i + 1, Len(s))
<1>1. i \in 1..Len(s) /\ Len(s) \in Nat
  OBVIOUS
<1>2. a \in Seq(Repos) /\ Len(a) = i - 1 /\ \A j \in 1..i-1 : a[j] = s[j]
  BY <1>1
<1>3. b \in Seq(Repos) /\ Len(b) = Len(s) - i /\ \A j \in 1..Len(s)-i : b[j] = s[j + i]
  BY <1>1
<1>4. Waiting!RemoveAt(s, i) = a \o b
  BY DEF Waiting!RemoveAt
<1>. HIDE DEF a, b
<1>5. /\ a \o b \in Seq(Repos) /\ Len(a \o b) = Len(s) - 1
      /\ \A j \in 1..i-1 : (a \o b)[j] = s[j]
      /\ \A j \in i+1..Len(s) : (a \o b)[j - 1] = s[j]
  BY <1>1, <1>2, <1>3
<1>7. DOMAIN (a \o b) = 1..(Len(s) - 1)
  BY <1>1, <1>5
<1>6. ASSUME NEW j \in DOMAIN s, s[j] # s[i]
      PROVE  \E k \in DOMAIN (a \o b) : (a \o b)[k] = s[j]
  <2>. j \in 1..Len(s)
    OBVIOUS
  <2>1. CASE j < i
    <3>1. j \in 1..i-1 /\ j \in 1..(Len(s) - 1)
      BY <1>1, <2>1
    <3>. QED
      BY <1>5, <1>7, <3>1
  <2>2. CASE j > i
    <3>1. j \in i+1..Len(s) /\ j - 1 \in 1..(Len(s) - 1)
      BY <1>1, <2>2
    <3>2. (a \o b)[j - 1] = s[j]
      BY <1>5, <3>1
    <3>. QED
      BY <1>7, <3>1, <3>2
  <2>. QED
    BY <1>6, <1>1, <2>1, <2>2
<1>. QED
  BY <1>4, <1>5, <1>6

LEMMA AppendOne ==
  ASSUME NEW s \in Seq(Repos), NEW r \in Repos
  PROVE  /\ Append(s, r) \in Seq(Repos)
         /\ \A j \in DOMAIN s : j \in DOMAIN Append(s, r) /\ Append(s, r)[j] = s[j]
         /\ \E k \in DOMAIN Append(s, r) : Append(s, r)[k] = r
<1>1. Len(s) + 1 \in DOMAIN Append(s, r) /\ Append(s, r)[Len(s) + 1] = r
  OBVIOUS
<1>. QED
  BY <1>1

LEMMA PageIsProject == PageTypes => Waiting!Project \in Pages
<1>. SUFFICES ASSUME PageTypes PROVE Waiting!Project \in Pages
  OBVIOUS
<1>1. UNION {TasksOf[r] : r \in Waiting!ToSet(repos)} \subseteq Tasks
  <2>1. Waiting!ToSet(repos) \subseteq Repos
    BY DEF PageTypes, Waiting!ToSet
  <2>. QED
    BY <2>1, FlowsAssumption
<1>. QED
  BY <1>1 DEF PageTypes, Waiting!Project, Pages

LEMMA Joined ==
  ASSUME NEW o, NEW a
  PROVE  <<o>> \o <<a>> = <<o, a>>
<1>. DEFINE S == {o, a}
            s == <<o>> \o <<a>>
            t == <<o, a>>
<1>1. <<o>> \in Seq(S) /\ <<a>> \in Seq(S)
  OBVIOUS
<1>2. s \in Seq(S) /\ Len(s) = 2 /\ s[1] = o /\ s[2] = a
  BY <1>1
<1>3. t \in Seq(S) /\ Len(t) = 2 /\ t[1] = o /\ t[2] = a
  OBVIOUS
<1>. HIDE DEF s, t, S
<1>4. \A i \in 1..Len(s) : s[i] = t[i]
  BY <1>2, <1>3
<1>5. s = t
  BY <1>2, <1>3, <1>4, SeqEqual
<1>. QED
  BY <1>5 DEF s, t

\* The two users differ in when they open a dialog, and in a bound.
PageOpens ==
  /\ dialog = Waiting!NoDialog /\ dialog' \in Waiting!Dialogs
  /\ guess' = IF Waiting!NoneLate THEN doubt ELSE TRUE
  /\ UNCHANGED <<repos, added, data, flight, forms, saved, doubt>>

PageSubmits ==
  /\ dialog # Waiting!NoDialog /\ forms[dialog.form] = Waiting!NoJob
  /\ \E todo \in Waiting!Requests(dialog) :
       forms' = [forms EXCEPT ![dialog.form] = [step |-> "sent", todo |-> todo]]
  /\ UNCHANGED <<repos, added, data, flight, dialog, saved, doubt, guess>>

PageWaits ==
  /\ flight'["detail"] \in {flight["detail"], Sent} /\ DOMAIN flight' = DOMAIN flight
  /\ UNCHANGED <<repos, added, data, dialog, forms, saved, doubt, guess>>

LEMMA EitherUser ==
  ASSUME PageTypes, Waiting!Next \/ Hurried!Next
  PROVE  \/ PageOpens \/ Waiting!CloseDialog \/ PageSubmits
         \/ \E f \in Slots : Waiting!BackendStep(f)
         \/ \E f \in Forms : Waiting!JobStep(f)
         \/ Waiting!FetchStep \/ PageWaits
<1>. USE DEF Waiting!cache, Hurried!cache, Waiting!NoDialog, Hurried!NoDialog, Waiting!NoJob, Hurried!NoJob,
         Waiting!Now, Hurried!Now, Waiting!Sent, Hurried!Sent, Waiting!history, Hurried!history,
         Waiting!detail, Hurried!detail, Waiting!Done, Hurried!Done
<1>1. Waiting!Dialogs = Hurried!Dialogs
  BY DEF Waiting!Dialogs, Hurried!Dialogs, Waiting!Shown, Hurried!Shown
<1>2. \A d : Waiting!Requests(d) = Hurried!Requests(d)
  BY DEF Waiting!Requests, Hurried!Requests, Waiting!EditModal, Hurried!EditModal, Waiting!RepoModal,
     Hurried!RepoModal, Waiting!DoRemoveRepo, Hurried!DoRemoveRepo, Waiting!AddTaskModal, Hurried!AddTaskModal,
     Waiting!DoRemoveTask, Hurried!DoRemoveTask, Waiting!Removal, Hurried!Removal, Waiting!Shown, Hurried!Shown
<1>3. Waiting!UserEvents \/ Hurried!UserEvents => PageOpens \/ Waiting!CloseDialog \/ PageSubmits
  BY <1>1, <1>2 DEF Waiting!UserEvents, Hurried!UserEvents, Waiting!OpenDialog, Hurried!OpenDialog,
     Waiting!CloseDialog, Hurried!CloseDialog, Waiting!Submit, Hurried!Submit, PageOpens, PageSubmits,
     Waiting!NoneLate, Hurried!NoneLate
<1>4. ASSUME NEW f PROVE Hurried!BackendStep(f) => Waiting!BackendStep(f)
  <2>1. Hurried!ReadRow(f) => Waiting!ReadRow(f)
    BY DEF Hurried!ReadRow, Waiting!ReadRow
  <2>2. Hurried!AddRepo(f) => Waiting!AddRepo(f)
    BY DEF Hurried!AddRepo, Waiting!AddRepo
  <2>3. Hurried!RemoveRepo(f) => Waiting!RemoveRepo(f)
    BY DEF Hurried!RemoveRepo, Waiting!RemoveRepo, Hurried!RemoveAt, Waiting!RemoveAt
  <2>4. Hurried!Refused(f) => Waiting!Refused(f)
    BY DEF Hurried!Refused, Waiting!Refused
  <2>5. Hurried!UpdateProject(f) => Waiting!UpdateProject(f)
    BY DEF Hurried!UpdateProject, Waiting!UpdateProject
  <2>6. Hurried!ReplaceProjectTasks(f) => Waiting!ReplaceProjectTasks(f)
    BY DEF Hurried!ReplaceProjectTasks, Waiting!ReplaceProjectTasks
  <2>7. Hurried!AddTasks(f) => Waiting!AddTasks(f)
    BY DEF Hurried!AddTasks, Waiting!AddTasks
  <2>8. Hurried!RemoveTasks(f) => Waiting!RemoveTasks(f)
    BY DEF Hurried!RemoveTasks, Waiting!RemoveTasks
  <2>. QED
    BY <2>1, <2>2, <2>3, <2>4, <2>5, <2>6, <2>7, <2>8 DEF Hurried!BackendStep, Waiting!BackendStep
<1>5. ASSUME NEW f PROVE Hurried!JobStep(f) => Waiting!JobStep(f)
  <2>1. Hurried!NextRequest(f) => Waiting!NextRequest(f)
    BY DEF Hurried!NextRequest, Waiting!NextRequest
  <2>2. Hurried!Answered(f) => Waiting!Answered(f)
    BY DEF Hurried!Answered, Waiting!Answered, Hurried!Saves, Waiting!Saves,
       Hurried!Cache!InvalidateAll, Waiting!Cache!InvalidateAll,
       Hurried!Cache!Again, Waiting!Cache!Again, Hurried!Cache!Loading, Waiting!Cache!Loading,
       Hurried!Cache!Idle, Waiting!Cache!Idle, Hurried!Cache!Sent, Waiting!Cache!Sent
  <2>3. Hurried!RequestFails(f) => Waiting!RequestFails(f)
    BY DEF Hurried!RequestFails, Waiting!RequestFails
  <2>4. Hurried!Reloaded(f) => Waiting!Reloaded(f)
    BY DEF Hurried!Reloaded, Waiting!Reloaded, Hurried!Cache!Idle, Waiting!Cache!Idle,
       Hurried!Slots, Waiting!Slots, Hurried!Forms, Waiting!Forms, Hurried!ToSet, Waiting!ToSet
  <2>. QED
    BY <2>1, <2>2, <2>3, <2>4 DEF Hurried!JobStep, Waiting!JobStep
<1>6. Hurried!FetchStep => Waiting!FetchStep
  <2>1. Hurried!Project = Waiting!Project
    BY DEF Hurried!Project, Waiting!Project, Hurried!ToSet, Waiting!ToSet
  <2>. QED
    BY <2>1 DEF Hurried!FetchStep, Waiting!FetchStep, Hurried!Cache!Read, Waiting!Cache!Read,
       Hurried!Cache!Settle, Waiting!Cache!Settle, Hurried!Cache!Idle, Waiting!Cache!Idle,
       Hurried!Cache!Sent, Waiting!Cache!Sent
<1>7. Waiting!TimePasses \/ Hurried!TimePasses => PageWaits
  <2>. SUFFICES ASSUME Waiting!TimePasses \/ Hurried!TimePasses PROVE PageWaits
    OBVIOUS
  <2>1. UNCHANGED data /\ (flight' = flight \/ flight' = [flight EXCEPT !["detail"] = Sent])
    BY DEF Waiting!TimePasses, Hurried!TimePasses, Waiting!Cache!Time, Hurried!Cache!Time,
       Waiting!Cache!Age, Hurried!Cache!Age, Waiting!Cache!Drop, Hurried!Cache!Drop,
       Waiting!Cache!Reconnect, Hurried!Cache!Reconnect, Waiting!Cache!Sent, Hurried!Cache!Sent, Sent
  <2>2. flight'["detail"] \in {flight["detail"], Sent} /\ DOMAIN flight' = DOMAIN flight
    BY <2>1 DEF PageTypes
  <2>. QED
    BY <2>1, <2>2 DEF PageWaits, Waiting!TimePasses, Hurried!TimePasses
<1>8. Hurried!Slots = Slots /\ Waiting!Slots = Slots /\ Hurried!Forms = Forms /\ Waiting!Forms = Forms
  BY DEF Slots, Forms, Hurried!Slots, Hurried!Forms, Waiting!Slots, Waiting!Forms
<1>9. \/ Waiting!UserEvents \/ Hurried!UserEvents
      \/ (\E f \in Slots : Waiting!BackendStep(f)) \/ (\E f \in Forms : Waiting!JobStep(f))
      \/ Waiting!FetchStep \/ Waiting!TimePasses \/ Hurried!TimePasses
  BY <1>4, <1>5, <1>6, <1>8 DEF Waiting!Next, Hurried!Next
<1>. QED
  BY <1>3, <1>7, <1>9

LEMMA OneJob ==
  ASSUME PageTypes, NEW f \in Slots, NEW j, JobOf(j), forms' = [forms EXCEPT ![f] = j]
  PROVE  /\ DOMAIN forms' = Slots /\ \A g \in Slots : JobOf(forms'[g])
         /\ forms'[f] = j /\ \A g \in Slots \ {f} : forms'[g] = forms[g]
BY DEF PageTypes

\* A request that is under way belongs to a page that is there.
LEMMA JobHasData ==
  ASSUME PageTypes, NEW f \in Slots, forms[f].step # "none"
  PROVE  data["detail"] # NoData /\ data["detail"] \in Pages
BY DEF PageTypes

LEMMA JobShape ==
  ASSUME PageTypes, NEW f \in Slots, forms[f].step \in {"sent", "read", "updated", "done"}
  PROVE  Todo(forms[f].todo) /\ Waiting!Now(f) = forms[f].todo[1]
<1>1. Todo(forms[f].todo)
  BY DEF PageTypes, JobOf
<1>. QED
  BY <1>1, TodoShape DEF Waiting!Now

\* The backend reads the row.
LEMMA ReadRowKeeps ==
  ASSUME PageTypes, NEW f \in Slots, Waiting!ReadRow(f)
  PROVE  PageTypes' /\ (PageInv => PageInv') /\ (Waits => Waits')
<1>. DEFINE j == [step |-> "read", todo |-> forms[f].todo, row |-> repos]
<1>1. /\ forms[f].step = "sent" /\ forms[f].todo[1].op \in {"addRepo", "removeAt"}
      /\ forms[f].todo[1].op = "removeAt" => forms[f].todo[1].index \in DOMAIN repos
      /\ forms' = [forms EXCEPT ![f] = j] /\ Todo(forms[f].todo)
      /\ UNCHANGED <<repos, added, data, flight, dialog, saved, doubt, guess>>
  <2>1. forms[f].step = "sent"
    BY DEF Waiting!ReadRow, Waiting!Sent
  <2>. QED
    BY <2>1, JobShape DEF Waiting!ReadRow, Waiting!Sent, Waiting!cache, Waiting!history
<1>2. JobOf(j)
  BY <1>1 DEF PageTypes, JobOf
<1>3. /\ DOMAIN forms' = Slots /\ \A g \in Slots : JobOf(forms'[g])
      /\ forms'[f] = j /\ \A g \in Slots \ {f} : forms'[g] = forms[g]
  BY <1>1, <1>2, OneJob
<1>4. j.step = "read" /\ j.todo = forms[f].todo /\ j.row = repos
  OBVIOUS
<1>. HIDE DEF j
<1>5. PageTypes'
  BY <1>1, <1>3, JobHasData DEF PageTypes
<1>6. ASSUME PageTrue PROVE PageTrue'
  <2>1. Waiting!Project' = Waiting!Project
    BY <1>1 DEF Waiting!Project
  <2>2. Unfetched(j) <=> Unfetched(forms[f])
    BY <1>1, <1>4 DEF Unfetched
  <2>3. (\A g \in Slots : ~Unfetched(forms'[g])) => \A g \in Slots : ~Unfetched(forms[g])
    BY <1>3, <2>2
  <2>. QED
    BY <1>6, <1>1, <2>1, <2>3 DEF PageTrue
<1>7. ASSUME SavedKept PROVE SavedKept'
  <2>1. \A r \in saved : JobHas(j, r)
    BY <1>4, <1>7 DEF SavedKept, JobHas
  <2>2. \A r \in saved, g \in Slots : JobHas(forms'[g], r)
    BY <1>3, <1>7, <2>1 DEF SavedKept
  <2>. QED
    BY <1>1, <1>7, <2>2 DEF SavedKept
<1>8. ASSUME Waits PROVE Waits'
  <2>1. OneByOne'
    BY <1>1, <1>3, <1>4, <1>8, FormsAndSlots DEF Waits, OneByOne
  <2>2. ASSUME guess = FALSE PROVE AllNamed'
    <3>1. f \in Forms /\ AllNamed
      BY <1>1, <1>8, <2>2, FormsAndSlots DEF Waits, AllNamed
    <3>2. Named(forms[f])
      BY <3>1 DEF AllNamed
    <3>3. j.todo[1].op = "removeAt" =>
            j.todo[1].index \in DOMAIN repos /\ repos[j.todo[1].index] = j.todo[1].names
      BY <3>2, <1>1, <1>4 DEF Named
    <3>4. Named(forms[f])'
      BY <3>3, <1>1, <1>3, <1>4 DEF Named
    <3>5. \A g \in Forms \ {f} : Named(forms[g])'
      BY <1>1, <1>3, <3>1, FormsAndSlots DEF AllNamed, Named
    <3>. QED
      BY <1>1, <1>3, <1>4, <3>1, <3>4, <3>5, FormsAndSlots DEF AllNamed
  <2>. QED
    BY <1>1, <2>1, <2>2 DEF Waits
<1>. QED
  BY <1>5, <1>6, <1>7, <1>8 DEF PageInv

\* What the backend has done is fetched again, or was given up.
LEMMA DoneKeeps ==
  ASSUME PageTypes, NEW f \in Slots, forms[f].step \in {"sent", "read", "updated"}, Waiting!Done(f),
         repos' \in Seq(Repos), added' \subseteq Tasks, saved' \subseteq saved,
         SavedKept => \A r \in saved' : Has(repos', r),
         UNCHANGED <<data, flight, dialog, guess>>
  PROVE  PageTypes' /\ (PageInv => PageInv') /\ (Waits => Waits')
<1>. DEFINE j == IF f \in Late THEN [step |-> "none"] ELSE [step |-> "done", todo |-> forms[f].todo]
<1>1. forms' = [forms EXCEPT ![f] = j] /\ doubt' = (IF f \in Late THEN TRUE ELSE doubt)
  BY DEF Waiting!Done, Waiting!NoJob
<1>2. JobOf(j)
  BY JobShape DEF JobOf
<1>3. /\ DOMAIN forms' = Slots /\ \A g \in Slots : JobOf(forms'[g])
      /\ forms'[f] = j /\ \A g \in Slots \ {f} : forms'[g] = forms[g]
  BY <1>1, <1>2, OneJob
<1>4. j.step \in {"none", "done"} /\ (f \notin Late => j.step = "done")
  OBVIOUS
<1>. HIDE DEF j
<1>5. PageTypes'
  <2>1. doubt' \in BOOLEAN
    BY <1>1 DEF PageTypes
  <2>. QED
    BY <1>3, <2>1, JobHasData DEF PageTypes
<1>6. PageTrue'
  <2>1. CASE f \in Late
    BY <1>1, <2>1 DEF PageTrue
  <2>2. CASE f \notin Late
    <3>1. Unfetched(forms'[f])
      BY <1>3, <1>4, <2>2 DEF Unfetched
    <3>. QED
      BY <3>1 DEF PageTrue
  <2>. QED
    BY <2>1, <2>2
<1>7. ASSUME SavedKept PROVE SavedKept'
  <2>1. \A r : JobHas(j, r)
    BY <1>4 DEF JobHas
  <2>2. \A r \in saved, g \in Slots : JobHas(forms'[g], r)
    BY <1>3, <1>7, <2>1 DEF SavedKept
  <2>. QED
    BY <1>7, <2>2 DEF SavedKept
<1>8. ASSUME Waits PROVE Waits'
  <2>1. OneByOne'
    BY <1>3, <1>4, <1>8, FormsAndSlots DEF Waits, OneByOne
  <2>2. ASSUME guess = FALSE PROVE AllNamed'
    <3>1. f \in Forms /\ f \notin Late /\ AllNamed /\ OneByOne
      BY <1>8, <2>2, FormsAndSlots DEF Waits, AllNamed
    <3>2. \A g \in Forms \ {f} : forms'[g].step = "none"
      BY <1>3, <3>1, FormsAndSlots DEF OneByOne
    <3>3. forms'[f].step = "done"
      BY <1>3, <1>4, <3>1
    <3>4. dialog.form # "none" => dialog.form = f
      BY <3>1 DEF OneByOne
    <3>5. \A l \in Late : forms'[l].step = "none"
      BY <1>3, <3>1, FormsAndSlots DEF AllNamed
    <3>6. \A g \in Forms : Named(forms[g])'
      BY <3>2, <3>3 DEF Named
    <3>. QED
      BY <3>3, <3>4, <3>5, <3>6 DEF AllNamed
  <2>. QED
    BY <2>1, <2>2 DEF Waits
<1>. QED
  BY <1>5, <1>6, <1>7, <1>8 DEF PageInv

\* ... the row is written back.
LEMMA RowWrittenKeeps ==
  ASSUME PageTypes, NEW f \in Slots, Waiting!AddRepo(f) \/ Waiting!RemoveRepo(f)
  PROVE  PageTypes' /\ (PageInv => PageInv') /\ (Waits => Waits')
<1>. DEFINE o == forms[f].todo[1]
            row == forms[f].row
<1>1. /\ forms[f].step = "read" /\ row \in Seq(Repos) /\ Waiting!Now(f) = o /\ Todo(forms[f].todo)
      /\ o.op = "removeAt" => o.index \in DOMAIN row
  <2>1. forms[f].step = "read"
    BY DEF Waiting!AddRepo, Waiting!RemoveRepo
  <2>. QED
    BY <2>1, JobShape DEF PageTypes, JobOf
<1>2. SavedKept => \A r \in saved : Has(row, r)
  BY <1>1 DEF SavedKept, JobHas
<1>3. Waiting!Done(f) /\ UNCHANGED <<added, data, flight, dialog, guess>>
  BY DEF Waiting!AddRepo, Waiting!RemoveRepo, Waiting!cache
<1>4. CASE Waiting!AddRepo(f)
  <2>1. repos' = Append(row, o.repo) /\ o.repo \in Repos /\ saved' = saved
    BY <1>1, <1>4, OpShape DEF Waiting!AddRepo
  <2>. PICK r \in Repos : r = o.repo
    BY <2>1
  <2>2. repos' = Append(row, r)
    BY <2>1
  <2>. HIDE DEF o, row
  <2>3. repos' \in Seq(Repos) /\ \A i \in DOMAIN row : i \in DOMAIN repos' /\ repos'[i] = row[i]
    BY <1>1, <2>2, AppendOne
  <2>4. SavedKept => \A s \in saved' : Has(repos', s)
    BY <1>2, <2>1, <2>3 DEF Has
  <2>. QED
    BY <1>1, <1>3, <2>1, <2>3, <2>4, DoneKeeps DEF PageTypes
<1>5. CASE Waiting!RemoveRepo(f)
  <2>1. repos' = Waiting!RemoveAt(row, o.index) /\ o.index \in DOMAIN row /\ saved' = saved \ {row[o.index]}
    BY <1>1, <1>5 DEF Waiting!RemoveRepo
  <2>. HIDE DEF o, row
  <2>2. /\ repos' \in Seq(Repos)
        /\ \A i \in DOMAIN row : row[i] # row[o.index] => \E k \in DOMAIN repos' : repos'[k] = row[i]
    BY <1>1, <2>1, RemoveOne
  <2>3. SavedKept => \A s \in saved' : Has(repos', s)
    BY <1>2, <2>1, <2>2 DEF Has
  <2>. QED
    BY <1>1, <1>3, <2>1, <2>2, <2>3, DoneKeeps DEF PageTypes
<1>. QED
  BY <1>4, <1>5

\* ... the tasks are.
LEMMA TasksWrittenKeeps ==
  ASSUME PageTypes, NEW f \in Slots,
         Waiting!ReplaceProjectTasks(f) \/ Waiting!AddTasks(f) \/ Waiting!RemoveTasks(f)
  PROVE  PageTypes' /\ (PageInv => PageInv') /\ (Waits => Waits')
<1>. DEFINE o == forms[f].todo[1]
<1>1. /\ forms[f].step \in {"sent", "updated"} /\ Waiting!Done(f)
      /\ UNCHANGED <<repos, data, flight, dialog, saved, guess>>
  BY DEF Waiting!ReplaceProjectTasks, Waiting!AddTasks, Waiting!RemoveTasks, Waiting!Sent, Waiting!cache
<1>2. Waiting!Now(f) = o /\ Todo(forms[f].todo) /\ (forms[f].step = "updated" => o.op = "update")
  BY <1>1, JobShape DEF PageTypes, JobOf
<1>3. added' \in {o.tasks, added \cup o.tasks, added \ o.tasks} /\ o.op \in {"update", "addTasks", "removeTasks"}
  BY <1>2 DEF Waiting!ReplaceProjectTasks, Waiting!AddTasks, Waiting!RemoveTasks, Waiting!Sent
<1>4. o.tasks \subseteq Tasks
  BY <1>2, <1>3, OpShape
<1>. HIDE DEF o
<1>5. added' \subseteq Tasks /\ repos' \in Seq(Repos)
  BY <1>1, <1>3, <1>4 DEF PageTypes
<1>6. SavedKept => \A r \in saved' : Has(repos', r)
  BY <1>1 DEF SavedKept
<1>. QED
  BY <1>1, <1>5, <1>6, DoneKeeps

\* An edit has replaced the repositories, and not the tasks yet.
LEMMA UpdateKeeps ==
  ASSUME PageTypes, NEW f \in Slots, Waiting!UpdateProject(f)
  PROVE  PageTypes' /\ (PageInv => PageInv') /\ (Waits => Waits')
<1>. DEFINE j == [step |-> "updated", todo |-> forms[f].todo]
            o == forms[f].todo[1]
<1>1. /\ forms[f].step = "sent" /\ o.op = "update" /\ Todo(forms[f].todo)
      /\ repos' = o.repos /\ o.repos \in Seq(Repos)
      /\ forms' = [forms EXCEPT ![f] = j]
      /\ UNCHANGED <<added, data, flight, dialog, saved, doubt, guess>>
  <2>1. forms[f].step = "sent"
    BY DEF Waiting!UpdateProject, Waiting!Sent
  <2>. QED
    BY <2>1, JobShape, OpShape DEF Waiting!UpdateProject, Waiting!Sent, Waiting!cache, Waiting!history
<1>2. JobOf(j)
  BY <1>1 DEF JobOf
<1>3. /\ DOMAIN forms' = Slots /\ \A g \in Slots : JobOf(forms'[g])
      /\ forms'[f] = j /\ \A g \in Slots \ {f} : forms'[g] = forms[g]
  BY <1>1, <1>2, OneJob
<1>4. j.step = "updated"
  OBVIOUS
<1>5. SavedKept => \A r \in saved : Has(o.repos, r)
  BY <1>1 DEF SavedKept, JobHas
<1>. HIDE DEF j, o
<1>6. PageTypes'
  BY <1>1, <1>3, JobHasData DEF PageTypes
<1>7. PageTrue'
  BY <1>3, <1>4 DEF PageTrue, Unfetched
<1>8. ASSUME SavedKept PROVE SavedKept'
  <2>1. \A r : JobHas(j, r)
    BY <1>4 DEF JobHas
  <2>2. \A r \in saved, g \in Slots : JobHas(forms'[g], r)
    BY <1>3, <1>8, <2>1 DEF SavedKept
  <2>. QED
    BY <1>1, <1>5, <1>8, <2>2 DEF SavedKept
<1>9. ASSUME Waits PROVE Waits'
  <2>1. OneByOne'
    BY <1>1, <1>3, <1>4, <1>9, FormsAndSlots DEF Waits, OneByOne
  <2>2. ASSUME guess = FALSE PROVE AllNamed'
    <3>1. f \in Forms /\ f \notin Late /\ AllNamed /\ OneByOne
      BY <1>1, <1>9, <2>2, FormsAndSlots DEF Waits, AllNamed
    <3>2. \A g \in Forms \ {f} : forms'[g].step = "none"
      BY <1>1, <1>3, <3>1, FormsAndSlots DEF OneByOne
    <3>3. forms'[f].step = "updated"
      BY <1>3, <1>4
    <3>4. dialog.form # "none" => dialog.form = f
      BY <1>1, <3>1 DEF OneByOne
    <3>5. \A l \in Late : forms'[l].step = "none"
      BY <1>3, <3>1, FormsAndSlots DEF AllNamed
    <3>6. \A g \in Forms : Named(forms[g])'
      BY <3>2, <3>3 DEF Named
    <3>. QED
      BY <1>1, <3>3, <3>4, <3>5, <3>6 DEF AllNamed
  <2>. QED
    BY <1>1, <2>1, <2>2 DEF Waits
<1>. QED
  BY <1>6, <1>7, <1>8, <1>9 DEF PageInv

\* A removal that the backend refuses leaves everything as it was.
LEMMA RefusedKeeps ==
  ASSUME PageTypes, NEW f \in Slots, Waiting!Refused(f)
  PROVE  PageTypes' /\ (PageInv => PageInv') /\ (Waits => Waits')
<1>. DEFINE j == [step |-> "none"]
<1>1. /\ forms[f].step = "sent" /\ forms[f].todo[1].op = "removeAt"
      /\ forms[f].todo[1].index \notin DOMAIN repos
      /\ forms' = [forms EXCEPT ![f] = j]
      /\ UNCHANGED <<repos, added, data, flight, dialog, saved, doubt, guess>>
  <2>1. forms[f].step = "sent"
    BY DEF Waiting!Refused, Waiting!Sent
  <2>. QED
    BY <2>1, JobShape DEF Waiting!Refused, Waiting!Sent, Waiting!NoJob, Waiting!cache, Waiting!history
<1>2. JobOf(j)
  BY DEF JobOf
<1>3. /\ DOMAIN forms' = Slots /\ \A g \in Slots : JobOf(forms'[g])
      /\ forms'[f] = j /\ \A g \in Slots \ {f} : forms'[g] = forms[g]
  BY <1>1, <1>2, OneJob
<1>4. j.step = "none"
  OBVIOUS
<1>. HIDE DEF j
<1>5. PageTypes'
  BY <1>1, <1>3, JobHasData DEF PageTypes
<1>6. ASSUME PageTrue PROVE PageTrue'
  <2>1. Waiting!Project' = Waiting!Project
    BY <1>1 DEF Waiting!Project
  <2>2. ~Unfetched(forms[f])
    BY <1>1 DEF Unfetched
  <2>3. (\A g \in Slots : ~Unfetched(forms'[g])) => \A g \in Slots : ~Unfetched(forms[g])
    BY <1>3, <2>2
  <2>. QED
    BY <1>6, <1>1, <2>1, <2>3 DEF PageTrue
<1>7. ASSUME SavedKept PROVE SavedKept'
  <2>1. \A r : JobHas(j, r)
    BY <1>4 DEF JobHas
  <2>2. \A r \in saved, g \in Slots : JobHas(forms'[g], r)
    BY <1>3, <1>7, <2>1 DEF SavedKept
  <2>. QED
    BY <1>1, <1>7, <2>2 DEF SavedKept
<1>8. ASSUME Waits PROVE Waits'
  <2>1. OneByOne'
    BY <1>1, <1>3, <1>4, <1>8, FormsAndSlots DEF Waits, OneByOne
  <2>2. ~(guess = FALSE)
    BY <1>1, <1>8, FormsAndSlots DEF Waits, AllNamed, Named
  <2>. QED
    BY <1>1, <2>1, <2>2 DEF Waits
<1>. QED
  BY <1>5, <1>6, <1>7, <1>8 DEF PageInv


\* A request is reported failed; what the backend makes of it, if it goes on with it,
\* it makes of what it has read.
LEMMA RequestFailsKeeps ==
  ASSUME PageTypes, NEW f \in Forms, Waiting!RequestFails(f)
  PROVE  PageTypes' /\ (PageInv => PageInv') /\ (Waits => Waits')
<1>. DEFINE n == [step |-> "none"]
            j == [forms[f] EXCEPT !.todo = <<Waiting!Now(f)>>]
            o == forms[f].todo[1]
<1>1. /\ forms[f].step \in {"sent", "read", "updated", "done"} /\ f \in Slots
      /\ \/ forms' = [forms EXCEPT ![f] = n]
         \/ /\ forms[f].step # "done"
            /\ \E l \in Late : forms[l].step = "none" /\ forms' = [forms EXCEPT ![f] = n, ![l] = j]
      /\ doubt' = TRUE /\ guess' = TRUE
      /\ UNCHANGED <<repos, added, data, flight, dialog, saved>>
  BY FormsAndSlots DEF Waiting!RequestFails, Waiting!NoJob, Waiting!cache
<1>2. Todo(forms[f].todo) /\ Waiting!Now(f) = o /\ JobOf(forms[f]) /\ Ask(o)
  BY <1>1, JobShape, OpShape DEF PageTypes
<1>3. Todo(<<o>>) /\ <<o>>[1] = o
  BY <1>2 DEF Todo
<1>4. ASSUME forms[f].step # "done"
      PROVE  /\ JobOf(j) /\ j.step = forms[f].step /\ j.todo = <<o>>
             /\ j.step = "read" => j.row = forms[f].row
  <2>. PICK t, u : t = forms[f].todo /\ u = <<o>>
    OBVIOUS
  <2>1. CASE forms[f].step = "read"
    <3>. PICK w : w = forms[f].row
      OBVIOUS
    <3>1. forms[f] = [step |-> "read", todo |-> t, row |-> w]
      BY <1>2, <2>1 DEF JobOf
    <3>2. j = [step |-> "read", todo |-> u, row |-> w]
      BY <1>2, <3>1
    <3>3. w \in Seq(Repos) /\ o.op \in {"addRepo", "removeAt"} /\ (o.op = "removeAt" => o.index \in DOMAIN w)
      BY <1>2, <2>1 DEF JobOf
    <3>. HIDE DEF j, o
    <3>. QED
      BY <1>3, <3>1, <3>2, <3>3 DEF JobOf
  <2>2. CASE forms[f].step \in {"sent", "updated"}
    <3>1. forms[f] = [step |-> forms[f].step, todo |-> t] /\ (forms[f].step = "updated" => o.op = "update")
      BY <1>2, <2>2 DEF JobOf
    <3>. PICK s : s = forms[f].step
      OBVIOUS
    <3>2. j = [step |-> s, todo |-> u]
      BY <1>2, <3>1
    <3>. HIDE DEF j, o
    <3>. QED
      BY <1>3, <2>2, <3>1, <3>2 DEF JobOf
  <2>. QED
    BY <1>1, <1>4, <2>1, <2>2
<1>5. JobOf(n) /\ n.step = "none"
  BY DEF JobOf
<1>. HIDE DEF n, j, o
\* Every job of the new state is none, one there was, or the one that goes on.
<1>6. /\ DOMAIN forms' = Slots /\ forms'[f] = n
      /\ \A g \in Slots :
           \/ forms'[g] = n
           \/ forms'[g] = forms[g]
           \/ g \in Late /\ forms'[g] = j /\ forms[f].step # "done"
  <2>1. f \in DOMAIN forms /\ DOMAIN forms = Slots /\ Late \subseteq Slots /\ f \notin Late
    BY FormsAndSlots DEF PageTypes
  <2>. QED
    BY <1>1, <2>1
<1>7. PageTypes'
  <2>1. \A g \in Slots : JobOf(forms'[g])
    BY <1>4, <1>5, <1>6 DEF PageTypes
  <2>2. data["detail"] # NoData
    BY <1>1, JobHasData
  <2>. QED
    BY <1>1, <1>6, <2>1, <2>2 DEF PageTypes
<1>8. PageTrue'
  BY <1>1 DEF PageTrue
<1>9. ASSUME SavedKept PROVE SavedKept'
  <2>1. ASSUME NEW r \in saved, forms[f].step # "done" PROVE JobHas(j, r)
    <3>1. JobHas(forms[f], r)
      BY <1>1, <1>9 DEF SavedKept
    <3>2. j.todo[1] = forms[f].todo[1]
      BY <1>3, <1>4, <2>1 DEF o
    <3>. QED
      BY <1>4, <2>1, <3>1, <3>2 DEF JobHas
  <2>2. \A r : JobHas(n, r)
    BY <1>5 DEF JobHas
  <2>3. \A r \in saved, g \in Slots : JobHas(forms'[g], r)
    BY <1>6, <1>9, <2>1, <2>2 DEF SavedKept
  <2>. QED
    BY <1>1, <1>9, <2>3 DEF SavedKept
<1>10. ASSUME Waits PROVE Waits'
  <2>1. \A g \in Forms : forms'[g].step = "none" \/ forms'[g] = forms[g]
    BY <1>5, <1>6, FormsAndSlots
  <2>2. OneByOne'
    BY <1>1, <1>10, <2>1 DEF Waits, OneByOne
  <2>. QED
    BY <1>1, <2>2 DEF Waits
<1>. QED
  BY <1>7, <1>8, <1>9, <1>10 DEF PageInv

\* The page has been fetched.
LEMMA ReloadedKeeps ==
  ASSUME PageTypes, NEW f \in Forms, Waiting!Reloaded(f)
  PROVE  PageTypes' /\ (PageInv => PageInv') /\ (Waits => Waits')
<1>. DEFINE n == [step |-> "none"]
            more == doubt = FALSE /\ \A g \in Slots \ {f} : forms[g].step = "none"
<1>1. /\ forms[f].step = "reloading" /\ f \in Slots /\ flight["detail"] = Idle
      /\ forms' = [forms EXCEPT ![f] = n]
      /\ \/ saved' = saved
         \/ more /\ saved' = saved \cup (forms[f].saves \cap Waiting!ToSet(repos))
      /\ UNCHANGED <<repos, added, data, flight, dialog, doubt, guess>>
  <2>1. doubt \in BOOLEAN
    BY DEF PageTypes
  <2>2. (~doubt /\ \A g \in Slots \ {f} : forms[g] = n) => more
    BY <2>1
  <2>. HIDE DEF more
  <2>. QED
    BY <2>2, FormsAndSlots DEF Waiting!Reloaded, Waiting!NoJob, Waiting!cache, Waiting!detail, Waiting!Cache!Idle, Idle, Slots
<1>2. JobOf(n) /\ n.step = "none"
  BY DEF JobOf
<1>. HIDE DEF n
<1>3. /\ DOMAIN forms' = Slots /\ \A g \in Slots : JobOf(forms'[g])
      /\ forms'[f] = n /\ \A g \in Slots \ {f} : forms'[g] = forms[g]
  BY <1>1, <1>2, OneJob
<1>4. forms[f].saves \subseteq Repos
  BY <1>1 DEF PageTypes, JobOf
<1>5. PageTypes'
  <2>1. saved' \subseteq Repos
    BY <1>1, <1>4 DEF PageTypes
  <2>2. data["detail"] # NoData
    BY <1>1, JobHasData
  <2>. QED
    BY <1>1, <1>3, <2>1, <2>2 DEF PageTypes
<1>6. ASSUME PageTrue PROVE PageTrue'
  <2>1. Waiting!Project' = Waiting!Project
    BY <1>1 DEF Waiting!Project
  <2>2. ~Unfetched(forms[f])
    BY <1>1 DEF Unfetched
  <2>3. (\A g \in Slots : ~Unfetched(forms'[g])) => \A g \in Slots : ~Unfetched(forms[g])
    BY <1>3, <2>2
  <2>. QED
    BY <1>6, <1>1, <2>1, <2>3 DEF PageTrue
<1>7. ASSUME PageInv PROVE SavedKept'
  <2>1. \A r : JobHas(n, r)
    BY <1>2 DEF JobHas
  <2>2. CASE saved' = saved
    <3>1. \A r \in saved, g \in Slots : JobHas(forms'[g], r)
      BY <1>3, <1>7, <2>1 DEF PageInv, SavedKept
    <3>. QED
      BY <1>1, <1>7, <2>2, <3>1 DEF PageInv, SavedKept
  <2>3. CASE more /\ saved' = saved \cup (forms[f].saves \cap Waiting!ToSet(repos))
    <3>1. \A g \in Slots : ~Unfetched(forms[g])
      BY <1>1, <2>3 DEF Unfetched
    <3>2. data["detail"].repos = repos
      BY <1>1, <1>7, <2>3, <3>1 DEF PageInv, PageTrue, Waiting!Project
    <3>3. \A r \in saved' : Has(repos, r)
      BY <1>7, <2>3 DEF PageInv, SavedKept, Has, Waiting!ToSet
    <3>4. \A r : \A g \in Slots : JobHas(forms'[g], r)
      BY <1>3, <2>1, <2>3 DEF JobHas
    <3>. QED
      BY <1>1, <3>2, <3>3, <3>4 DEF SavedKept
  <2>. QED
    BY <1>1, <2>2, <2>3
<1>8. ASSUME Waits PROVE Waits'
  <2>1. dialog.form = "none"
    BY <1>1, <1>8 DEF Waits, OneByOne
  <2>2. OneByOne'
    BY <1>1, <1>2, <1>3, <2>1, <1>8, FormsAndSlots DEF Waits, OneByOne
  <2>3. ASSUME guess = FALSE PROVE AllNamed'
    <3>1. AllNamed
      BY <1>8, <2>3 DEF Waits
    <3>2. \A g \in Forms : Named(forms[g])'
      BY <1>1, <1>2, <1>3, <3>1, FormsAndSlots DEF AllNamed, Named
    <3>. QED
      BY <1>1, <1>3, <2>1, <3>1, <3>2, FormsAndSlots DEF AllNamed
  <2>. QED
    BY <1>1, <2>2, <2>3 DEF Waits
<1>. QED
  BY <1>5, <1>6, <1>7, <1>8 DEF PageInv

\* The next request: an entry that has been removed is added again.
LEMMA NextRequestKeeps ==
  ASSUME PageTypes, NEW f \in Forms, Waiting!NextRequest(f)
  PROVE  PageTypes' /\ (PageInv => PageInv') /\ (Waits => Waits')
<1>. DEFINE j == [step |-> "sent", todo |-> Tail(forms[f].todo)]
<1>1. /\ forms[f].step = "done" /\ f \in Slots /\ Todo(Tail(forms[f].todo))
      /\ Tail(forms[f].todo)[1].op = "addRepo"
      /\ forms' = [forms EXCEPT ![f] = j]
      /\ UNCHANGED <<repos, added, data, flight, dialog, saved, doubt, guess>>
  <2>1. forms[f].step = "done" /\ f \in Slots /\ Len(forms[f].todo) > 1
    BY FormsAndSlots DEF Waiting!NextRequest
  <2>2. Todo(forms[f].todo)
    BY <2>1, JobShape
  <2>3. Len(forms[f].todo) # 1
    <3>. SUFFICES ASSUME Len(forms[f].todo) = 1 PROVE FALSE
      OBVIOUS
    <3>1. 1 > 1
      BY <2>1
    <3>. QED
      BY <3>1
  <2>. QED
    BY <2>1, <2>2, <2>3, OpShape DEF Waiting!NextRequest, Waiting!cache, Waiting!history
<1>2. JobOf(j)
  BY <1>1 DEF JobOf
<1>3. /\ DOMAIN forms' = Slots /\ \A g \in Slots : JobOf(forms'[g])
      /\ forms'[f] = j /\ \A g \in Slots \ {f} : forms'[g] = forms[g]
  BY <1>1, <1>2, OneJob
<1>4. j.step = "sent" /\ j.todo[1].op = "addRepo"
  BY <1>1
<1>. HIDE DEF j
<1>5. PageTypes'
  BY <1>1, <1>3, JobHasData DEF PageTypes
<1>6. PageTrue'
  BY <1>1, <1>3, <1>4 DEF PageTrue, Unfetched
<1>7. ASSUME SavedKept PROVE SavedKept'
  <2>1. \A r : JobHas(j, r)
    BY <1>4 DEF JobHas
  <2>2. \A r \in saved, g \in Slots : JobHas(forms'[g], r)
    BY <1>3, <1>7, <2>1 DEF SavedKept
  <2>. QED
    BY <1>1, <1>7, <2>2 DEF SavedKept
<1>8. ASSUME Waits PROVE Waits'
  <2>1. OneByOne'
    BY <1>1, <1>3, <1>4, <1>8, FormsAndSlots DEF Waits, OneByOne
  <2>2. ASSUME guess = FALSE PROVE AllNamed'
    <3>1. AllNamed /\ OneByOne
      BY <1>8, <2>2 DEF Waits
    <3>2. dialog.form # "none" => dialog.form = f
      BY <1>1, <3>1 DEF OneByOne
    <3>3. Named(forms[f])'
      BY <1>3, <1>4 DEF Named
    <3>4. \A g \in Forms \ {f} : Named(forms[g])'
      BY <1>1, <1>3, <3>1, FormsAndSlots DEF AllNamed, Named
    <3>5. \A l \in Late : forms'[l].step = "none"
      BY <1>3, <3>1, FormsAndSlots DEF AllNamed
    <3>6. forms'[f].step # "none"
      BY <1>3, <1>4
    <3>. QED
      BY <1>1, <3>2, <3>3, <3>4, <3>5, <3>6 DEF AllNamed
  <2>. QED
    BY <1>1, <2>1, <2>2 DEF Waits
<1>. QED
  BY <1>5, <1>6, <1>7, <1>8 DEF PageInv

\* The last answer: the page is fetched again.
LEMMA AnsweredKeeps ==
  ASSUME PageTypes, NEW f \in Forms, Waiting!Answered(f)
  PROVE  PageTypes' /\ (PageInv => PageInv') /\ (Waits => Waits')
<1>. DEFINE j == [step |-> "reloading", saves |-> Waiting!Saves(f)]
<1>1. /\ forms[f].step = "done" /\ f \in Slots /\ Todo(forms[f].todo) /\ Waiting!Now(f) = forms[f].todo[1]
      /\ data["detail"] # NoData /\ flight'["detail"] = Sent /\ DOMAIN flight' = {"detail"}
      /\ forms' = [forms EXCEPT ![f] = j]
      /\ dialog' = (IF dialog.form = f THEN [form |-> "none"] ELSE dialog)
      /\ UNCHANGED <<repos, added, data, saved, doubt, guess>>
  <2>1. forms[f].step = "done" /\ f \in Slots
    BY FormsAndSlots DEF Waiting!Answered
  <2>2. data["detail"] # NoData
    BY <2>1, JobHasData
  <2>3. flight' = [flight EXCEPT !["detail"] = Sent] /\ data' = data
    BY <2>2 DEF Waiting!Answered, Waiting!Cache!InvalidateAll, Waiting!Cache!Again, Waiting!Cache!Loading,
       Waiting!Cache!Sent, Sent, Waiting!detail
  <2>. QED
    BY <2>1, <2>2, <2>3, JobShape DEF Waiting!Answered, Waiting!NoDialog, PageTypes, Waiting!history
<1>2. Waiting!Saves(f) \subseteq Repos
  BY <1>1, OpShape DEF Waiting!Saves
<1>3. JobOf(j) /\ j.step = "reloading"
  BY <1>2 DEF JobOf
<1>. HIDE DEF j
<1>4. /\ DOMAIN forms' = Slots /\ \A g \in Slots : JobOf(forms'[g])
      /\ forms'[f] = j /\ \A g \in Slots \ {f} : forms'[g] = forms[g]
  BY <1>1, <1>3, OneJob
<1>5. PageTypes'
  <2>1. DialogOf(dialog')
    BY <1>1 DEF PageTypes, DialogOf
  <2>. QED
    BY <1>1, <1>4, <2>1 DEF PageTypes
<1>6. PageTrue'
  BY <1>1, FigureShapes DEF PageTrue
<1>7. ASSUME SavedKept PROVE SavedKept'
  <2>1. \A r : JobHas(j, r)
    BY <1>3 DEF JobHas
  <2>2. \A r \in saved, g \in Slots : JobHas(forms'[g], r)
    BY <1>4, <1>7, <2>1 DEF SavedKept
  <2>. QED
    BY <1>1, <1>7, <2>2 DEF SavedKept
<1>8. ASSUME Waits PROVE Waits'
  <2>1. dialog'.form = "none"
    BY <1>1, <1>8 DEF Waits, OneByOne
  <2>2. OneByOne'
    BY <1>1, <1>3, <1>4, <2>1, <1>8, FormsAndSlots DEF Waits, OneByOne
  <2>3. ASSUME guess = FALSE PROVE AllNamed'
    <3>1. AllNamed
      BY <1>8, <2>3 DEF Waits
    <3>2. \A g \in Forms : Named(forms[g])'
      BY <1>1, <1>3, <1>4, <3>1, FormsAndSlots DEF AllNamed, Named
    <3>. QED
      BY <1>4, <2>1, <3>1, <3>2, FormsAndSlots DEF AllNamed
  <2>. QED
    BY <1>1, <2>2, <2>3 DEF Waits
<1>. QED
  BY <1>5, <1>6, <1>7, <1>8 DEF PageInv

\* The fetch of the page.
LEMMA PageFetchKeeps ==
  ASSUME PageTypes, Waiting!FetchStep
  PROVE  PageTypes' /\ (PageInv => PageInv') /\ (Waits => Waits')
<1>1. UNCHANGED <<repos, added, dialog, forms, saved, guess>> /\ Waiting!Project' = Waiting!Project
  BY DEF Waiting!FetchStep, Waiting!Project
<1>2. Waits => Waits'
  <2>1. OneByOne => OneByOne'
    BY <1>1 DEF OneByOne
  <2>2. AllNamed => AllNamed'
    BY <1>1 DEF AllNamed, Named
  <2>. QED
    BY <1>1, <2>1, <2>2 DEF Waits
<1>3. CASE Waiting!Cache!Read("detail") /\ doubt' = FALSE
  <2>1. PICK x : x = Waiting!Project
    OBVIOUS
  <2>2. UNCHANGED data /\ flight' = [flight EXCEPT !["detail"] = <<"read", x>>]
    BY <1>3, <2>1 DEF Waiting!Cache!Read, Waiting!detail
  <2>3. flight'["detail"] = <<"read", x>> /\ DOMAIN flight' = {"detail"} /\ x \in Pages
    BY <2>1, <2>2, PageIsProject DEF PageTypes
  <2>4. flight'["detail"] \notin {Idle, Sent} /\ flight'["detail"][2] = x
    BY <2>3, FigureShapes
  <2>5. PageTypes'
    BY <1>1, <1>3, <2>2, <2>3, <2>4 DEF PageTypes
  <2>6. PageTrue'
    BY <1>1, <2>1, <2>4 DEF PageTrue
  <2>7. x.repos = repos
    BY <2>1 DEF Waiting!Project
  <2>8. SavedKept => SavedKept'
    BY <1>1, <2>2, <2>4, <2>7 DEF SavedKept
  <2>. QED
    BY <1>2, <2>5, <2>6, <2>8 DEF PageInv
<1>4. CASE Waiting!Cache!Settle("detail") /\ UNCHANGED doubt
  <2>1. flight["detail"] \notin {Idle, Sent} /\ data' = [data EXCEPT !["detail"] = flight["detail"][2]]
        /\ flight' = [flight EXCEPT !["detail"] = Idle]
    BY <1>4 DEF Waiting!Cache!Settle, Waiting!Cache!Sent, Waiting!Cache!Idle, Sent, Idle, Waiting!detail
  <2>2. PICK x : x = flight["detail"][2]
    OBVIOUS
  <2>3. x \in Pages /\ data'["detail"] = x /\ flight'["detail"] = Idle
        /\ DOMAIN data' = {"detail"} /\ DOMAIN flight' = {"detail"}
    BY <2>1, <2>2 DEF PageTypes
  <2>4. x # NoData
    BY <2>3, FlowsAssumption DEF Pages
  <2>5. PageTypes'
    BY <1>1, <1>4, <2>3, <2>4 DEF PageTypes
  <2>6. ASSUME PageTrue PROVE PageTrue'
    BY <2>6, <1>1, <1>4, <2>1, <2>2, <2>3 DEF PageTrue
  <2>7. SavedKept => SavedKept'
    BY <1>1, <2>1, <2>2, <2>3 DEF SavedKept
  <2>. QED
    BY <1>2, <2>5, <2>6, <2>7 DEF PageInv
<1>. QED
  BY <1>3, <1>4 DEF Waiting!FetchStep, Waiting!detail

LEMMA PageWaitsKeeps ==
  ASSUME PageTypes, PageWaits
  PROVE  PageTypes' /\ (PageInv => PageInv') /\ (Waits => Waits')
<1>1. UNCHANGED <<repos, added, data, dialog, forms, saved, doubt, guess>> /\ DOMAIN flight' = DOMAIN flight
      /\ flight'["detail"] \in {flight["detail"], Sent} /\ Waiting!Project' = Waiting!Project
  BY DEF PageWaits, Waiting!Project
<1>2. PageTypes'
  BY <1>1, FigureShapes DEF PageTypes
<1>3. ASSUME PageTrue PROVE PageTrue'
  BY <1>3, <1>1, FigureShapes DEF PageTrue
<1>4. SavedKept => SavedKept'
  BY <1>1 DEF SavedKept
<1>5. Waits => Waits'
  <2>1. OneByOne => OneByOne'
    BY <1>1 DEF OneByOne
  <2>2. AllNamed => AllNamed'
    BY <1>1 DEF AllNamed, Named
  <2>. QED
    BY <1>1, <2>1, <2>2 DEF Waits
<1>. QED
  BY <1>2, <1>3, <1>4, <1>5 DEF PageInv

LEMMA CloseDialogKeeps ==
  ASSUME PageTypes, Waiting!CloseDialog
  PROVE  PageTypes' /\ (PageInv => PageInv') /\ (Waits => Waits')
<1>1. UNCHANGED <<repos, added, data, flight, forms, saved, doubt, guess>> /\ dialog' = [form |-> "none"]
      /\ Waiting!Project' = Waiting!Project
  BY DEF Waiting!CloseDialog, Waiting!cache, Waiting!NoDialog, Waiting!Project, Waiting!history
<1>2. DialogOf(dialog') /\ dialog'.form = "none"
  BY <1>1 DEF DialogOf
<1>3. PageTypes'
  BY <1>1, <1>2 DEF PageTypes
<1>4. ASSUME PageTrue PROVE PageTrue'
  BY <1>4, <1>1 DEF PageTrue
<1>5. SavedKept => SavedKept'
  BY <1>1 DEF SavedKept
<1>6. Waits => Waits'
  <2>1. OneByOne => OneByOne'
    BY <1>1, <1>2 DEF OneByOne
  <2>2. AllNamed => AllNamed'
    BY <1>1, <1>2 DEF AllNamed, Named
  <2>. QED
    BY <1>1, <2>1, <2>2 DEF Waits
<1>. QED
  BY <1>3, <1>4, <1>5, <1>6 DEF PageInv

\* A dialog is opened from what is on the screen; by a user who waits, when that
\* is the project as it is, unless a request was reported failed.
LEMMA OpenDialogKeeps ==
  ASSUME PageTypes, PageOpens
  PROVE  PageTypes' /\ (PageInv => PageInv') /\ (PageInv /\ Waits /\ Waiting!Resting => Waits')
<1>1. /\ UNCHANGED <<repos, added, data, flight, forms, saved, doubt>> /\ Waiting!Project' = Waiting!Project
      /\ guess' = IF Waiting!NoneLate THEN doubt ELSE TRUE
      /\ data["detail"] \in Pages
      /\ \/ dialog' \in {[form |-> "edit"], [form |-> "repo"], [form |-> "task"]}
         \/ \E f \in {"repo", "removeRepo"}, i \in DOMAIN data["detail"].repos :
              dialog' = [form |-> f, index |-> i, repo |-> data["detail"].repos[i]]
         \/ \E t \in data["detail"].tasks : dialog' = [form |-> "removeTask", task |-> t]
  BY DEF PageOpens, PageTypes, Waiting!Dialogs, Waiting!Shown, Waiting!detail, Waiting!Project
<1>2. data["detail"].repos \in Seq(Repos) /\ data["detail"].tasks \subseteq Tasks
  BY <1>1 DEF Pages
<1>. DEFINE Opened == /\ DialogOf(dialog') /\ dialog'.form \in Forms
                      /\ "index" \in DOMAIN dialog' =>
                           /\ dialog'.index \in DOMAIN data["detail"].repos
                           /\ dialog'.repo = data["detail"].repos[dialog'.index]
<1>3. Opened
  <2>1. CASE dialog' \in {[form |-> "edit"], [form |-> "repo"], [form |-> "task"]}
    BY <2>1, FormsAndSlots DEF DialogOf
  <2>2. ASSUME NEW f \in {"repo", "removeRepo"}, NEW i \in DOMAIN data["detail"].repos,
               dialog' = [form |-> f, index |-> i, repo |-> data["detail"].repos[i]]
        PROVE  Opened
    <3>. PICK r : r = data["detail"].repos[i]
      OBVIOUS
    <3>1. r \in Repos /\ i \in Nat \ {0} /\ dialog' = [form |-> f, index |-> i, repo |-> r]
      BY <1>2, <2>2
    <3>2. DialogOf(dialog') /\ dialog'.form \in Forms
      BY <3>1, FormsAndSlots DEF DialogOf
    <3>3. dialog'.index = i /\ dialog'.repo = data["detail"].repos[i]
      BY <2>2
    <3>. QED
      BY <3>2, <3>3
  <2>3. ASSUME NEW t \in data["detail"].tasks, dialog' = [form |-> "removeTask", task |-> t]
        PROVE  Opened
    <3>1. t \in Tasks
      BY <1>2
    <3>. QED
      BY <2>3, <3>1, FormsAndSlots DEF DialogOf
  <2>. QED
    BY <1>1, <2>1, <2>2, <2>3
<1>4. PageTypes'
  <2>1. data["detail"] # NoData
    BY <1>1, FlowsAssumption DEF Pages
  <2>2. guess' \in BOOLEAN
    BY <1>1 DEF PageTypes
  <2>. QED
    BY <1>1, <1>3, <2>1, <2>2 DEF PageTypes
<1>5. ASSUME PageTrue PROVE PageTrue'
  BY <1>5, <1>1 DEF PageTrue
<1>6. SavedKept => SavedKept'
  BY <1>1 DEF SavedKept
<1>7. ASSUME PageInv, Waits, Waiting!Resting PROVE Waits'
  <2>1. flight["detail"] = Idle /\ \A f \in Forms : forms[f].step = "none"
    BY <1>7 DEF Waiting!Resting, Waiting!NoJob, Waiting!Cache!Idle, Idle, Waiting!detail, Forms
  <2>2. OneByOne'
    BY <1>1, <2>1 DEF OneByOne
  <2>3. ASSUME guess' = FALSE PROVE AllNamed'
    <3>1. doubt = FALSE /\ \A l \in Late : forms[l].step = "none"
      BY <1>1, <2>3 DEF Waiting!NoneLate, Waiting!NoJob
    <3>2. \A f \in Slots : ~Unfetched(forms[f])
      BY <2>1, <3>1, FormsAndSlots DEF Unfetched
    <3>3. data["detail"].repos = repos
      BY <1>7, <2>1, <3>1, <3>2 DEF PageInv, PageTrue, Waiting!Project
    <3>4. \A f \in Forms : Named(forms[f])'
      BY <1>1, <2>1 DEF Named
    <3>. QED
      BY <1>1, <1>3, <3>1, <3>3, <3>4 DEF AllNamed
  <2>. QED
    BY <2>2, <2>3 DEF Waits
<1>. QED
  BY <1>4, <1>5, <1>6, <1>7 DEF PageInv

\* Submitting a dialog starts the job of its form.
LEMMA SubmitKeeps ==
  ASSUME PageTypes, PageSubmits
  PROVE  PageTypes' /\ (PageInv => PageInv') /\ (Waits => Waits')
<1>1. PICK todo \in Waiting!Requests(dialog) :
        forms' = [forms EXCEPT ![dialog.form] = [step |-> "sent", todo |-> todo]]
  BY DEF PageSubmits
<1>2. /\ UNCHANGED <<repos, added, data, flight, dialog, saved, doubt, guess>>
      /\ Waiting!Project' = Waiting!Project
      /\ forms[dialog.form].step = "none" /\ dialog # [form |-> "none"]
  BY DEF PageSubmits, Waiting!NoJob, Waiting!NoDialog, Waiting!Project
<1>3. dialog.form \in Forms /\ dialog.form # "none" /\ data["detail"] \in Pages
  BY <1>2, FormsAndSlots DEF PageTypes, DialogOf
<1>. PICK f : f = dialog.form
  OBVIOUS
<1>. DEFINE j == [step |-> "sent", todo |-> todo]
            shownRepos == data["detail"].repos
\* What is asked for, of what is on the screen or in the dialog.
<1>4. /\ Todo(todo)
      /\ todo[1].op = "removeAt" => /\ "index" \in DOMAIN dialog
                                   /\ todo[1].index = dialog.index /\ todo[1].names = dialog.repo
      /\ todo[1].op = "update" => todo[1].repos = shownRepos
  <2>. USE DEF Waiting!Requests
  <2>1. shownRepos \in Seq(Repos)
    BY <1>3 DEF Pages
  <2>2. CASE f = "edit"
    <3>1. todo = <<[op |-> "update", repos |-> shownRepos, tasks |-> {}]>>
      BY <2>2 DEF Waiting!EditModal, Waiting!Shown, Waiting!detail
    <3>. QED
      BY <2>1, <2>2, <3>1 DEF Todo, Ask
  <2>3. CASE f = "task"
    <3>1. PICK S \in SUBSET Tasks : todo = <<[op |-> "addTasks", tasks |-> S]>>
      BY <2>3 DEF Waiting!AddTaskModal
    <3>. QED
      BY <2>3, <3>1 DEF Todo, Ask
  <2>4. CASE f = "removeTask"
    <3>1. todo = <<[op |-> "removeTasks", tasks |-> {dialog.task}]>> /\ dialog.task \in Tasks
      BY <2>4 DEF Waiting!DoRemoveTask, PageTypes, DialogOf
    <3>. QED
      BY <2>4, <3>1 DEF Todo, Ask
  <2>5. CASE f = "removeRepo"
    <3>1. /\ todo = <<Waiting!Removal(dialog)>> /\ dialog.index \in Nat \ {0} /\ dialog.repo \in Repos
          /\ "index" \in DOMAIN dialog
      BY <2>5 DEF Waiting!DoRemoveRepo, PageTypes, DialogOf
    <3>. QED
      BY <2>5, <3>1 DEF Todo, Ask, Removals, Waiting!Removal
  <2>6. CASE f = "repo"
    <3>1. PICK r \in Repos : todo = (IF "index" \in DOMAIN dialog THEN <<Waiting!Removal(dialog)>> ELSE <<>>)
                                    \o <<[op |-> "addRepo", repo |-> r]>>
      BY <2>6 DEF Waiting!RepoModal
    <3>2. CASE "index" \in DOMAIN dialog
      <4>1. dialog.index \in Nat \ {0} /\ dialog.repo \in Repos
        BY <2>6, <3>2 DEF PageTypes, DialogOf
      <4>2. PICK o : o = [op |-> "removeAt", index |-> dialog.index, names |-> dialog.repo]
        OBVIOUS
      <4>3. PICK a : a = [op |-> "addRepo", repo |-> r]
        OBVIOUS
      <4>4. todo = <<o>> \o <<a>>
        BY <3>1, <3>2, <4>2, <4>3 DEF Waiting!Removal
      <4>5. todo = <<o, a>>
        BY <4>4, Joined
      <4>6. o \in Removals /\ a \in Additions
        BY <4>1, <4>2, <4>3 DEF Removals, Additions
      <4>7. todo[1] = o /\ todo[2] = a /\ todo = <<todo[1], todo[2]>>
        BY <4>5
      <4>. QED
        BY <2>6, <3>2, <4>2, <4>6, <4>7 DEF Todo
    <3>3. CASE "index" \notin DOMAIN dialog
      <4>1. todo = <<[op |-> "addRepo", repo |-> r]>>
        BY <3>1, <3>3
      <4>. QED
        BY <2>6, <4>1 DEF Todo, Ask, Additions
    <3>. QED
      BY <3>2, <3>3
  <2>. QED
    BY <1>3, <2>2, <2>3, <2>4, <2>5, <2>6 DEF Forms, Waiting!Forms
<1>5. JobOf(j)
  BY <1>4 DEF JobOf
<1>6. /\ DOMAIN forms' = Slots /\ \A g \in Slots : JobOf(forms'[g])
      /\ forms'[f] = j /\ \A g \in Slots \ {f} : forms'[g] = forms[g]
  <2>1. f \in Slots
    BY <1>3, FormsAndSlots
  <2>. QED
    BY <1>1, <1>5, <2>1, OneJob
<1>7. j.step = "sent" /\ j.todo = todo
  OBVIOUS
<1>8. data["detail"] # NoData /\ f \in Forms /\ f \in Slots /\ f \notin Late
  BY <1>3, FormsAndSlots, FlowsAssumption DEF Pages
<1>9. SavedKept => \A r \in saved : JobHas(j, r)
  BY <1>4, <1>8 DEF SavedKept, JobHas
<1>. HIDE DEF j, shownRepos
<1>10. PageTypes'
  BY <1>2, <1>6, <1>8 DEF PageTypes
<1>11. ASSUME PageTrue PROVE PageTrue'
  <2>1. ~Unfetched(forms[f])
    BY <1>2 DEF Unfetched
  <2>2. (\A g \in Slots : ~Unfetched(forms'[g])) => \A g \in Slots : ~Unfetched(forms[g])
    BY <1>6, <2>1
  <2>. QED
    BY <1>2, <1>11, <2>2 DEF PageTrue
<1>12. ASSUME SavedKept PROVE SavedKept'
  <2>1. \A r \in saved, g \in Slots : JobHas(forms'[g], r)
    BY <1>6, <1>9, <1>12 DEF SavedKept
  <2>. QED
    BY <1>2, <1>12, <2>1 DEF SavedKept
<1>13. ASSUME Waits PROVE Waits'
  <2>1. \A g \in Forms : forms[g].step = "none"
    BY <1>2, <1>3, <1>13 DEF Waits, OneByOne
  <2>2. \A g \in Forms \ {f} : forms'[g].step = "none"
    BY <1>6, <2>1, FormsAndSlots
  <2>3. dialog'.form = f
    BY <1>2
  <2>4. OneByOne'
    BY <1>6, <1>7, <2>2, <2>3 DEF OneByOne
  <2>5. ASSUME guess = FALSE PROVE AllNamed'
    <3>1. /\ \A l \in Late : forms[l].step = "none"
          /\ "index" \in DOMAIN dialog => dialog.index \in DOMAIN repos /\ dialog.repo = repos[dialog.index]
      BY <1>2, <1>3, <1>13, <2>5 DEF Waits, AllNamed
    <3>2. todo[1].op = "removeAt" =>
            todo[1].index \in DOMAIN repos /\ repos[todo[1].index] = todo[1].names
      BY <1>4, <3>1
    <3>3. Named(forms[f])'
      BY <1>2, <1>6, <1>7, <3>2 DEF Named
    <3>4. \A g \in Forms \ {f} : Named(forms[g])'
      BY <2>2 DEF Named
    <3>5. \A l \in Late : forms'[l].step = "none"
      BY <1>6, <1>8, <3>1, FormsAndSlots
    <3>6. forms'[f].step # "none"
      BY <1>6, <1>7
    <3>. QED
      BY <2>3, <3>3, <3>4, <3>5, <3>6 DEF AllNamed
  <2>. QED
    BY <1>2, <2>4, <2>5 DEF Waits
<1>. QED
  BY <1>10, <1>11, <1>12, <1>13 DEF PageInv

LEMMA PageStepKeeps ==
  ASSUME PageTypes, Waiting!Next \/ Hurried!Next
  PROVE  /\ PageTypes' /\ (PageInv => PageInv')
         /\ PageInv /\ Waits /\ Waiting!Next => Waits'
<1>1. ASSUME NEW f \in Slots, Waiting!BackendStep(f)
      PROVE  PageTypes' /\ (PageInv => PageInv') /\ (Waits => Waits')
  BY <1>1, ReadRowKeeps, RowWrittenKeeps, RefusedKeeps, UpdateKeeps, TasksWrittenKeeps DEF Waiting!BackendStep
<1>2. ASSUME NEW f \in Forms, Waiting!JobStep(f)
      PROVE  PageTypes' /\ (PageInv => PageInv') /\ (Waits => Waits')
  BY <1>2, NextRequestKeeps, AnsweredKeeps, RequestFailsKeeps, ReloadedKeeps DEF Waiting!JobStep
<1>3. \/ PageOpens
      \/ PageTypes' /\ (PageInv => PageInv') /\ (Waits => Waits')
  BY <1>1, <1>2, EitherUser, CloseDialogKeeps, SubmitKeeps, PageFetchKeeps, PageWaitsKeeps
<1>4. CASE PageOpens
  <2>1. ASSUME Waiting!Next
        PROVE  Waiting!Resting \/ (PageTypes' /\ (PageInv => PageInv') /\ (Waits => Waits'))
    <3>1. \/ Waiting!Resting \/ Waiting!CloseDialog \/ PageSubmits
          \/ \E f \in Slots : Waiting!BackendStep(f)
          \/ \E f \in Forms : Waiting!JobStep(f)
          \/ Waiting!FetchStep \/ Waiting!TimePasses
      BY <2>1 DEF Waiting!Next, Waiting!UserEvents, Waiting!OpenDialog, Waiting!Submit, PageSubmits,
         Waiting!cache, Waiting!history, Slots, Forms
    <3>2. ~Waiting!TimePasses
      BY <1>4 DEF PageOpens, Waiting!TimePasses, Waiting!NoDialog, Waiting!Dialogs
    <3>. QED
      BY <1>1, <1>2, <3>1, <3>2, CloseDialogKeeps, SubmitKeeps, PageFetchKeeps
  <2>. QED
    BY <1>4, <2>1, OpenDialogKeeps
<1>. QED
  BY <1>3, <1>4

\* The bounds of the two users.
LEMMA Bounds == MaxSubmits \in Nat /\ MaxHurried \in Nat /\ MaxPresses \in Nat
BY FlowsAssumption

LEMMA SubmitsCounted ==
  /\ Waiting!Next => submits' = submits \/ (submits < MaxSubmits /\ submits' = submits + 1)
  /\ Hurried!Next => submits' = submits \/ (submits < MaxHurried /\ submits' = submits + 1)
<1>1. Waiting!Next => submits' = submits \/ (submits < MaxSubmits /\ submits' = submits + 1)
  BY DEF Waiting!Next, Waiting!UserEvents, Waiting!OpenDialog, Waiting!CloseDialog, Waiting!Submit,
     Waiting!BackendStep, Waiting!ReadRow, Waiting!AddRepo, Waiting!RemoveRepo, Waiting!Refused,
     Waiting!UpdateProject, Waiting!ReplaceProjectTasks, Waiting!AddTasks, Waiting!RemoveTasks,
     Waiting!JobStep, Waiting!NextRequest, Waiting!Answered, Waiting!RequestFails, Waiting!Reloaded,
     Waiting!FetchStep, Waiting!TimePasses
<1>2. Hurried!Next => submits' = submits \/ (submits < MaxHurried /\ submits' = submits + 1)
  BY DEF Hurried!Next, Hurried!UserEvents, Hurried!OpenDialog, Hurried!CloseDialog, Hurried!Submit,
     Hurried!BackendStep, Hurried!ReadRow, Hurried!AddRepo, Hurried!RemoveRepo, Hurried!Refused,
     Hurried!UpdateProject, Hurried!ReplaceProjectTasks, Hurried!AddTasks, Hurried!RemoveTasks,
     Hurried!JobStep, Hurried!NextRequest, Hurried!Answered, Hurried!RequestFails, Hurried!Reloaded,
     Hurried!FetchStep, Hurried!TimePasses
<1>. QED
  BY <1>1, <1>2

PageFacts ==
  /\ flow \in AnyUser => PageTypes /\ PageInv
  /\ flow = "project" => submits \in 0..MaxSubmits /\ Waits
  /\ flow = "project, hurried" => submits \in 0..MaxHurried

LEMMA PageAlways == Spec => []PageFacts
<1>1. Init => PageFacts
  <2>. SUFFICES ASSUME Waiting!Init
                PROVE  /\ PageTypes /\ PageInv /\ Waits
                       /\ submits \in 0..MaxSubmits /\ submits \in 0..MaxHurried
    BY PartsAtStart DEF PageFacts, AnyUser
  <2>1. /\ repos = FirstRepos /\ added = FirstTasks /\ saved = {} /\ doubt = FALSE /\ guess = FALSE
        /\ data = [k \in {"detail"} |-> NoData] /\ flight = [k \in {"detail"} |-> Sent]
        /\ dialog = [form |-> "none"] /\ forms = [f \in Slots |-> [step |-> "none"]]
    BY DEF Waiting!Init, Waiting!NoDialog, Waiting!NoJob, Waiting!detail, Waiting!Cache!Sent, Sent, Slots
  <2>2. data["detail"] = NoData /\ flight["detail"] = Sent /\ DOMAIN data = {"detail"} /\ DOMAIN flight = {"detail"}
    BY <2>1
  <2>3. DOMAIN forms = Slots /\ \A f \in Slots : forms[f].step = "none" /\ JobOf(forms[f])
    BY <2>1 DEF JobOf
  <2>4. dialog.form = "none" /\ DialogOf(dialog)
    BY <2>1 DEF DialogOf
  <2>5. PageTypes
    BY <2>1, <2>2, <2>3, <2>4, FlowsAssumption, FigureShapes DEF PageTypes
  <2>6. PageInv
    BY <2>1, <2>2, FigureShapes DEF PageInv, PageTrue, SavedKept
  <2>7. Waits
    BY <2>3, <2>4, FormsAndSlots DEF Waits, OneByOne, AllNamed, Named
  <2>8. submits \in 0..MaxSubmits /\ submits \in 0..MaxHurried
    BY Bounds DEF Waiting!Init
  <2>. QED
    BY <2>5, <2>6, <2>7, <2>8
<1>2. PageFacts /\ [Next]_vars => PageFacts'
  <2>. SUFFICES ASSUME PageFacts, [Next]_vars PROVE PageFacts'
    OBVIOUS
  <2>1. CASE UNCHANGED vars
    <3>1. Waiting!Project' = Waiting!Project
      BY <2>1 DEF vars, ofProject, Waiting!Project
    <3>2. UNCHANGED <<flow, repos, added, saved, doubt, guess, data, flight, dialog, forms, submits>>
      BY <2>1 DEF vars, ofProject, cache
    <3>3. (PageTypes => PageTypes') /\ (PageTrue => PageTrue')
      BY <3>1, <3>2 DEF PageTypes, PageTrue
    <3>4. SavedKept => SavedKept'
      BY <3>2 DEF SavedKept
    <3>5. Waits => Waits'
      BY <3>2 DEF Waits, OneByOne, AllNamed, Named
    <3>. QED
      BY <3>2, <3>3, <3>4, <3>5 DEF PageFacts, PageInv
  <2>2. CASE flow = "project" /\ Waiting!Next
    <3>1. PageTypes' /\ PageInv' /\ Waits'
      BY <2>2, PageStepKeeps DEF PageFacts, AnyUser
    <3>2. submits' \in 0..MaxSubmits
      BY <2>2, SubmitsCounted, Bounds DEF PageFacts
    <3>3. flow' = flow
      BY <2>2, PartsStep
    <3>. QED
      BY <2>2, <3>1, <3>2, <3>3 DEF PageFacts, AnyUser
  <2>3. CASE flow = "project, hurried" /\ Hurried!Next
    <3>1. PageTypes' /\ PageInv'
      BY <2>3, PageStepKeeps DEF PageFacts, AnyUser
    <3>2. submits' \in 0..MaxHurried
      <4>1. submits \in 0..MaxHurried
        BY <2>3 DEF PageFacts
      <4>2. submits' = submits \/ (submits < MaxHurried /\ submits' = submits + 1)
        BY <2>3, SubmitsCounted
      <4>. QED
        BY <4>1, <4>2, Bounds
    <3>3. flow' = flow
      BY <2>3, PartsStep
    <3>. QED
      BY <2>3, <3>1, <3>2, <3>3 DEF PageFacts, AnyUser
  <2>. QED
    BY <2>1, <2>2, <2>3, PartsStep DEF PageFacts, AnyUser
<1>. QED
  BY <1>1, <1>2, PTL DEF Spec

\* Once a page is at rest it shows what is in the database: the project, in whatever
\* order the reloads of several forms have overtaken each other, also for a user who
\* does not wait, unless a request was reported failed since the page was fetched;
\* and the figures that were saved last.
THEOREM RestShowsDatabase == Spec => []RestingIsTrue
<1>1. PageFacts => (flow \in AnyUser => Hurried!RestingIsTrue)
  <2>. SUFFICES ASSUME PageTypes, PageTrue, Hurried!Resting, Hurried!NoneLate, ~doubt
                PROVE  data["detail"] = Hurried!Project
    BY DEF PageFacts, PageInv, Hurried!RestingIsTrue, Hurried!Shown, Hurried!detail
  <2>1. flight["detail"] = Idle /\ doubt = FALSE
    BY DEF Hurried!Resting, Hurried!Cache!Idle, Idle, Hurried!detail, PageTypes
  <2>2. \A f \in Slots : forms[f].step = "none"
    BY FormsAndSlots DEF Hurried!Resting, Hurried!NoneLate, Hurried!NoJob, Hurried!Forms
  <2>3. Hurried!Project = Waiting!Project
    BY DEF Hurried!Project, Waiting!Project, Hurried!ToSet, Waiting!ToSet
  <2>. QED
    BY <2>1, <2>2, <2>3 DEF PageTrue, Unfetched
<1>2. PageFacts /\ FigureFacts => RestingIsTrue
  BY <1>1, FiguresShown DEF RestingIsTrue
<1>. QED
  BY <1>2, PageAlways, FiguresAlways, PTL

\* A repository whose saving was confirmed, with nothing else under way, stays until
\* a removal takes its entry, of either user, whatever is reported failed.
THEOREM SavedReposStay == Spec => []SavedStays
<1>1. PageFacts => SavedStays
  BY DEF PageFacts, PageInv, SavedKept, Has, SavedStays, Hurried!SavedStays, Hurried!ToSet
<1>. QED
  BY <1>1, PageAlways, PTL

\* The entry that is removed is the one the dialog names, of a user who waits, unless
\* a request was reported failed since the dialog was filled, or before.
THEOREM NamedIsRemoved == Spec => RemovesWhatItNames
<1>. DEFINE A == flow = "project" => Waiting!RemovesNamed
<1>1. PageFacts /\ [Next]_vars => [A]_vars
  <2>. SUFFICES ASSUME PageTypes, Waits, Waiting!Next, NEW f \in Forms, guess = FALSE,
                       forms[f].step = "read", forms'[f].step = "done", Waiting!Now(f).op = "removeAt"
                PROVE  \E i \in DOMAIN repos :
                         repos[i] = Waiting!Now(f).names /\ repos' = Waiting!RemoveAt(repos, i)
    <3>1. PageFacts /\ flow = "project" => guess \in BOOLEAN
      BY DEF PageFacts, PageTypes, AnyUser
    <3>. QED
      BY <3>1, PartsStep DEF PageFacts, AnyUser, vars, Waiting!RemovesNamed, Forms
  <2>0. f \in Slots /\ f \in DOMAIN forms /\ forms'[f] # forms[f] /\ DOMAIN forms = Slots
    BY FormsAndSlots DEF PageTypes
  <2>. DEFINE o == forms[f].todo[1]
  <2>1. Todo(forms[f].todo) /\ Waiting!Now(f) = o
    BY <2>0, JobShape
  <2>2. /\ AllNamed /\ o.op = "removeAt" /\ forms[f].row = repos
        /\ o.index \in DOMAIN repos /\ repos[o.index] = o.names
    BY <2>1 DEF Waits, AllNamed, Named
  <2>. HIDE DEF o
  <2>3. ASSUME NEW g \in Slots, NEW j, forms' = [forms EXCEPT ![g] = j]
        PROVE  g = f /\ j.step = "done"
    BY <2>0, <2>3
  <2>4. ASSUME NEW g \in Slots, Waiting!Done(g) PROVE g = f
    BY <2>3, <2>4 DEF Waiting!Done
  <2>5. ASSUME NEW g \in Slots, Waiting!BackendStep(g) PROVE Waiting!RemoveRepo(f)
    <3>1. ~Waiting!ReadRow(g) /\ ~Waiting!Refused(g) /\ ~Waiting!UpdateProject(g)
      BY <2>0, <2>3 DEF Waiting!ReadRow, Waiting!Refused, Waiting!UpdateProject, Waiting!NoJob
    <3>2. ~Waiting!AddRepo(g) /\ ~Waiting!ReplaceProjectTasks(g) /\ ~Waiting!AddTasks(g) /\ ~Waiting!RemoveTasks(g)
      BY <2>1, <2>2, <2>4 DEF Waiting!AddRepo, Waiting!ReplaceProjectTasks, Waiting!AddTasks,
         Waiting!RemoveTasks, Waiting!Sent
    <3>3. Waiting!RemoveRepo(g)
      BY <2>5, <3>1, <3>2 DEF Waiting!BackendStep
    <3>. QED
      BY <2>4, <3>3 DEF Waiting!RemoveRepo
  <2>6. ASSUME NEW g \in Forms, Waiting!JobStep(g) PROVE FALSE
    <3>1. g \in Slots
      BY FormsAndSlots
    <3>2. ~Waiting!NextRequest(g) /\ ~Waiting!Answered(g) /\ ~Waiting!Reloaded(g)
      BY <2>3, <3>1 DEF Waiting!NextRequest, Waiting!Answered, Waiting!Reloaded, Waiting!NoJob
    <3>3. ~Waiting!RequestFails(g)
      <4>. SUFFICES ASSUME Waiting!RequestFails(g) PROVE FALSE
        OBVIOUS
      <4>1. forms' # [forms EXCEPT ![g] = [step |-> "none"]]
        BY <2>3, <3>1
      <4>2. PICK l \in Late :
              \E j : forms' = [forms EXCEPT ![g] = [step |-> "none"], ![l] = j]
        BY <4>1 DEF Waiting!RequestFails, Waiting!NoJob
      <4>3. l # f
        BY FormsAndSlots
      <4>4. PICK j : forms' = [forms EXCEPT ![g] = [step |-> "none"], ![l] = j]
        BY <4>2
      <4>5. forms'[f] \in {forms[f], [step |-> "none"]}
        BY <2>0, <4>3, <4>4
      <4>. QED
        BY <2>0, <4>5
    <3>. QED
      BY <2>6, <3>2, <3>3 DEF Waiting!JobStep
  <2>7. ~(PageOpens \/ Waiting!CloseDialog \/ Waiting!FetchStep \/ PageWaits)
    BY <2>0 DEF PageOpens, Waiting!CloseDialog, Waiting!FetchStep, PageWaits
  <2>8. ~PageSubmits
    <3>. SUFFICES ASSUME PageSubmits PROVE FALSE
      OBVIOUS
    <3>1. forms[dialog.form].step = "none"
      BY DEF PageSubmits, Waiting!NoJob
    <3>2. PICK todo : forms' = [forms EXCEPT ![dialog.form] = [step |-> "sent", todo |-> todo]]
      BY DEF PageSubmits
    <3>3. dialog.form # f
      BY <3>1
    <3>. QED
      BY <2>0, <3>2, <3>3
  <2>9. Waiting!RemoveRepo(f)
    BY EitherUser, <2>5, <2>6, <2>7, <2>8
  <2>10. repos' = Waiting!RemoveAt(repos, o.index)
    BY <2>1, <2>2, <2>9 DEF Waiting!RemoveRepo
  <2>. QED
    BY <2>1, <2>2, <2>10
<1>2. Spec => [][A]_vars
  BY <1>1, PageAlways, PTL DEF Spec
<1>. QED
  BY <1>2 DEF RemovesWhatItNames

-----------------------------------------------------------------------------
(* The list of projects.                                                   *)

Keys == List!Keys

\* Ids are never given twice: a project that is deleted stays away.
Ids ==
  /\ known \subseteq Projects /\ projects \subseteq known /\ shows \subseteq projects
  /\ lacks \subseteq known \ projects /\ gone \subseteq known \ projects
  /\ pendingDelete \in known \cup {NoProject}
  /\ deleting # <<"none">> => victim \in known
  /\ deleting \notin {<<"none">>, <<"calling">>} => victim \notin projects

\* Answers hold projects that once were there.
AnswersKnown ==
  /\ order \in List!Orders
  /\ DOMAIN data = Keys /\ DOMAIN flight = Keys
  /\ \A k \in Keys : data[k] = NoData \/ data[k] \subseteq known
  /\ \A k \in Keys :
       \/ flight[k] \in {Idle, Sent}
       \/ flight[k][2] \subseteq known /\ flight[k] = <<"read", flight[k][2]>>

\* What the rows on the screen promise holds of the answer that is on its way.
Promise ==
  LET k == List!key IN
  /\ flight[k] = Idle => shows \subseteq List!Rows /\ List!Rows \cap lacks = {}
  /\ flight[k] \notin {Idle, Sent} => shows \subseteq flight[k][2] /\ flight[k][2] \cap lacks = {}

\* So does what counts as fresh.
NoGhosts ==
  /\ List!NoFreshGhosts
  /\ \A k \in Keys \ crossed : flight[k] \notin {Idle, Sent} => flight[k][2] \cap gone = {}

ListFacts == flow = "projects" => Ids /\ AnswersKnown /\ Promise /\ NoGhosts

ListInv == Ids /\ AnswersKnown /\ Promise /\ NoGhosts

LEMMA KeyInKeys ==
  ASSUME NEW o \in List!Orders
  PROVE  List!KeyOf(o) \in Keys
BY DEF Keys, List!Keys

\* A click on a header leads to an order.
LEMMA OrdersClosed ==
  ASSUME order \in List!Orders, NEW f \in ServerFields \cup ClientFields
  PROVE  List!NextOrder(order, f) \in List!Orders /\ List!NoOrder \in List!Orders
<1>1. List!By(f, FALSE) \in List!Orders /\ List!By(f, TRUE) \in List!Orders /\ List!NoOrder \in List!Orders
  BY DEF List!By, List!Orders, List!OrdersOver
<1>. QED
  BY Zenon, <1>1 DEF List!NextOrder

\* Steps of the dialogs and of requests that change nothing the page is about.
LEMMA DialogsKeepList ==
  ASSUME ListInv,
         \/ List!OpenCreate \/ List!CloseCreate \/ List!HandleCreate \/ List!CreateFails \/ List!CreateEnds
         \/ List!CancelDelete \/ List!ConfirmDelete \/ List!DeleteFails \/ List!DeleteEnds
         \/ \E p \in Projects : List!AskDelete(p)
  PROVE  ListInv'
<1>. USE DEF List!cache, List!create, List!delete, List!bound, List!ids, List!Nothing, List!Calling, List!Done
<1>1. UNCHANGED <<projects, order, data, stale, flight, known, shows, lacks, gone, crossed>>
  BY DEF List!OpenCreate, List!CloseCreate, List!HandleCreate, List!CreateFails, List!CreateEnds,
     List!CancelDelete, List!ConfirmDelete, List!DeleteFails, List!DeleteEnds, List!AskDelete
<1>2. AnswersKnown' /\ Promise' /\ NoGhosts'
  BY <1>1 DEF ListInv, AnswersKnown, Promise, NoGhosts, List!NoFreshGhosts, List!Rows, List!key
<1>3. Ids'
  <2>1. CASE \E p \in Projects : List!AskDelete(p)
    <3>1. PICK p \in Projects : List!AskDelete(p)
      BY <2>1
    <3>2. p \in known
      <4>1. List!key \in Keys
        BY KeyInKeys DEF ListInv, AnswersKnown, List!key
      <4>. QED
        BY <3>1, <4>1 DEF List!AskDelete, List!TableRows, List!Rows, ListInv, AnswersKnown
    <3>. QED
      BY <1>1, <3>1, <3>2 DEF List!AskDelete, ListInv, Ids
  <2>2. CASE List!ConfirmDelete
    BY <1>1, <2>2 DEF List!ConfirmDelete, ListInv, Ids
  <2>3. CASE List!CancelDelete
    BY <1>1, <2>3 DEF List!CancelDelete, ListInv, Ids
  <2>4. CASE List!DeleteFails \/ List!DeleteEnds
    BY <1>1, <2>4 DEF List!DeleteFails, List!DeleteEnds, ListInv, Ids
  <2>5. CASE List!OpenCreate \/ List!CloseCreate \/ List!HandleCreate \/ List!CreateFails \/ List!CreateEnds
    <3>1. UNCHANGED <<pendingDelete, deleting, victim>>
      BY <2>5 DEF List!OpenCreate, List!CloseCreate, List!HandleCreate, List!CreateFails, List!CreateEnds
    <3>. QED
      BY <1>1, <3>1 DEF ListInv, Ids
  <2>. QED
    BY <2>1, <2>2, <2>3, <2>4, <2>5
<1>. QED
  BY <1>2, <1>3 DEF ListInv

\* Another order turns to a key of its own, whose rows promise nothing yet.
LEMMA OrderKeepsList ==
  ASSUME ListInv, NEW o \in List!Orders, List!CommitOrder(o)
  PROVE  ListInv'
<1>1. /\ order' = o /\ UNCHANGED <<projects, known, data, stale, pendingDelete, deleting, victim, gone, crossed>>
      /\ \/ List!KeyOf(o) = List!key /\ UNCHANGED <<flight, shows, lacks>>
         \/ /\ flight' \in {flight, [flight EXCEPT ![List!KeyOf(o)] = Sent]}
            /\ shows' = {} /\ lacks' = {}
  BY DEF List!CommitOrder, List!cache, List!create, List!delete, List!bound, List!ids, List!Unbound,
     List!Cache!Observe, List!Cache!Sent, Sent
<1>2. List!KeyOf(o) \in Keys /\ List!key' = List!KeyOf(o)
  BY <1>1, KeyInKeys DEF List!key, List!KeyOf
<1>3. Ids'
  BY <1>1 DEF ListInv, Ids
<1>4. AnswersKnown'
  BY <1>1, <1>2 DEF ListInv, AnswersKnown
<1>5. Promise'
  BY <1>1, <1>2 DEF ListInv, Promise, List!Rows
<1>6. NoGhosts'
  BY <1>1, <1>2 DEF ListInv, NoGhosts, AnswersKnown, List!NoFreshGhosts
<1>. QED
  BY <1>3, <1>4, <1>5, <1>6 DEF ListInv

\* The backend takes part: a new id, or a project that goes.
LEMMA BackendKeepsList ==
  ASSUME ListInv, List!CreateInBackend \/ List!DeleteInBackend
  PROVE  ListInv'
<1>. USE DEF List!Nothing, List!Calling, List!Done
<1>1. UNCHANGED <<order, data, stale, flight, pendingDelete, victim, lacks, gone, crossed>>
  BY DEF List!CreateInBackend, List!DeleteInBackend, List!cache, List!delete, List!bound
<1>2. List!key' = List!key /\ List!Rows' = List!Rows
  BY <1>1 DEF List!key, List!Rows
<1>3. CASE List!CreateInBackend
  <2>1. PICK p \in Projects \ known : projects' = projects \cup {p} /\ known' = known \cup {p}
    BY <1>3 DEF List!CreateInBackend
  <2>2. UNCHANGED <<deleting, shows>>
    BY <1>3 DEF List!CreateInBackend, List!delete, List!bound
  <2>3. Ids'
    BY <1>1, <2>1, <2>2 DEF ListInv, Ids
  <2>4. AnswersKnown' /\ Promise' /\ NoGhosts'
    BY <1>1, <1>2, <2>1, <2>2 DEF ListInv, AnswersKnown, Promise, NoGhosts, List!NoFreshGhosts
  <2>. QED
    BY <2>3, <2>4 DEF ListInv
<1>4. CASE List!DeleteInBackend
  <2>1. /\ projects' = projects \ {victim} /\ shows' = shows \ {victim} /\ UNCHANGED known
        /\ deleting = <<"calling">> /\ deleting' = <<"done">>
    BY <1>4 DEF List!DeleteInBackend, List!create, List!ids
  <2>2. <<"calling">> # <<"none">> /\ <<"done">> # <<"none">>
    OBVIOUS
  <2>3. Ids'
    BY <1>1, <2>1, <2>2 DEF ListInv, Ids
  <2>4. AnswersKnown' /\ Promise' /\ NoGhosts'
    BY <1>1, <1>2, <2>1 DEF ListInv, AnswersKnown, Promise, NoGhosts, List!NoFreshGhosts
  <2>. QED
    BY <2>3, <2>4 DEF ListInv
<1>. QED
  BY <1>3, <1>4

\* An answer has the key on the screen fetched again: what is promised from now on
\* is what that fetch will find.
LEMMA AnswersKeepList ==
  ASSUME ListInv, List!CreateAnswered \/ List!DeleteAnswered \/ List!RefetchAfterDelete
  PROVE  ListInv'
<1>. DEFINE k == List!key
<1>. USE DEF List!Done
<1>1. k \in Keys /\ DOMAIN flight = Keys
  BY KeyInKeys DEF ListInv, AnswersKnown, List!key
<1>2. UNCHANGED <<order, data, projects, known, victim>> /\ List!key' = k
  BY DEF List!CreateAnswered, List!DeleteAnswered, List!RefetchAfterDelete, List!create, List!delete, List!ids,
     List!bound, List!key, List!Cache!Refetch, List!Cache!InvalidateAll
<1>3. flight' = (IF data[k] = NoData /\ flight[k] # Idle THEN flight ELSE [flight EXCEPT ![k] = Sent])
  BY DEF List!CreateAnswered, List!DeleteAnswered, List!RefetchAfterDelete, List!Cache!Refetch,
     List!Cache!InvalidateAll, List!Cache!Again, List!Cache!Loading, List!Cache!Sent, List!Cache!Idle, Idle, Sent
<1>. HIDE DEF k
<1>4. AnswersKnown'
  BY <1>1, <1>2, <1>3 DEF ListInv, AnswersKnown
<1>5. /\ \A o \in Keys \ {k} : flight'[o] = flight[o]
      /\ flight'[k] = Sent \/ (data[k] = NoData /\ flight[k] # Idle /\ flight'[k] = flight[k])
  BY <1>1, <1>3
<1>6. List!Rows' = List!Rows
  BY <1>2 DEF List!Rows, k
<1>7. CASE List!CreateAnswered
  <2>1. /\ UNCHANGED <<stale, deleting, pendingDelete, gone, crossed, lacks>>
        /\ shows' = shows \/ (shows' \subseteq shows \cup projects /\ flight'[k] = Sent)
    BY <1>1, <1>3, <1>7 DEF List!CreateAnswered, List!delete, List!Cache!Refetch, List!Cache!Loading, List!Cache!Idle, Idle, k
  <2>2. Ids'
    BY <1>2, <1>7, <2>1 DEF ListInv, Ids
  <2>3. Promise'
    BY <1>2, <1>5, <1>6, <2>1, FigureShapes DEF ListInv, Promise, k
  <2>4. NoGhosts'
    BY <1>2, <1>5, <2>1 DEF ListInv, NoGhosts, List!NoFreshGhosts
  <2>. QED
    BY <1>4, <2>2, <2>3, <2>4 DEF ListInv
<1>8. CASE List!DeleteAnswered
  <2>1. /\ UNCHANGED <<shows, lacks>> /\ pendingDelete' = NoProject
        /\ deleting = <<"done">> /\ deleting' = <<"invalidating", k>>
        /\ gone' = gone \cup {victim} /\ stale' = {o \in Keys : data[o] # NoData}
        /\ crossed' = crossed \cup {o \in Keys : flight[o] # Idle /\ (o = k => data[o] = NoData)}
    BY <1>8 DEF List!DeleteAnswered, List!bound, List!Cache!InvalidateAll, List!Cache!Idle, Idle, k, Keys,
       List!Cache!Loading
  <2>2. deleting \notin {<<"none">>, <<"calling">>}
    BY <2>1
  <2>3. Ids'
    BY <1>2, <2>1, <2>2 DEF ListInv, Ids
  <2>4. Promise'
    BY <1>2, <1>5, <1>6, <2>1, FigureShapes DEF ListInv, Promise, k
  <2>5. NoGhosts'
    <3>1. List!NoFreshGhosts'
      BY <1>2, <2>1 DEF List!NoFreshGhosts, Keys
    <3>2. \A o \in Keys \ crossed' : flight'[o] \in {Idle, Sent}
      BY <1>5, <2>1
    <3>. QED
      BY <3>1, <3>2 DEF NoGhosts
  <2>. QED
    BY <1>4, <2>3, <2>4, <2>5 DEF ListInv
<1>9. CASE List!RefetchAfterDelete
  <2>1. /\ UNCHANGED <<stale, shows, pendingDelete, gone, crossed>>
        /\ deleting[1] = "invalidating" /\ deleting' = <<"refetching", k>>
        /\ lacks' = lacks \/ (lacks' = lacks \cup {victim} /\ flight'[k] = Sent)
    BY <1>1, <1>3, <1>9 DEF List!RefetchAfterDelete, List!Cache!Refetch, List!Cache!Loading, List!Cache!Idle, Idle, k
  <2>2. deleting \notin {<<"none">>, <<"calling">>}
    BY <2>1
  <2>3. Ids'
    BY <1>2, <2>1, <2>2 DEF ListInv, Ids
  <2>4. Promise'
    BY <1>2, <1>5, <1>6, <2>1, FigureShapes DEF ListInv, Promise, k
  <2>5. NoGhosts'
    BY <1>2, <1>5, <2>1 DEF ListInv, NoGhosts, List!NoFreshGhosts
  <2>. QED
    BY <1>4, <2>3, <2>4, <2>5 DEF ListInv
<1>. QED
  BY <1>7, <1>8, <1>9

\* A fetch reads what the database holds, which is what the page now promises; and
\* what it has read is what the rows of its key show once it is answered.
LEMMA FetchesKeepList ==
  ASSUME FlowsAssumption, ListInv, NEW k \in Keys, List!FetchStep(k)
  PROVE  ListInv'
<1>. USE DEF List!create, List!delete, List!ids, List!bound
<1>1. /\ UNCHANGED <<projects, order, known, pendingDelete, deleting, victim, gone, crossed>>
      /\ List!key' = List!key
  BY DEF List!FetchStep, List!key
<1>2. /\ UNCHANGED <<shows, lacks>> \/ (shows' = {} /\ lacks' = {})
      /\ k = List!key /\ List!Cache!Fail(k) => shows' = {} /\ lacks' = {}
  BY DEF List!FetchStep, List!Unbound
<1>3. Ids'
  BY <1>1, <1>2 DEF ListInv, Ids
<1>4. Idle # Sent /\ \A S : <<"read", S>> \notin {Idle, Sent} /\ <<"read", S>>[2] = S
  BY FigureShapes
<1>5. CASE List!Cache!Read(k)
  <2>1. UNCHANGED <<data, stale>> /\ flight[k] = Sent /\ flight' = [flight EXCEPT ![k] = <<"read", projects>>]
    BY <1>5 DEF List!Cache!Read, List!Cache!Sent, Sent, Keys, List!Keys
  <2>2. flight'[k] = <<"read", projects>> /\ \A o \in Keys \ {k} : flight'[o] = flight[o]
    BY <2>1 DEF ListInv, AnswersKnown
  <2>3. AnswersKnown'
    BY <1>1, <1>4, <2>1, <2>2, <1>3 DEF ListInv, AnswersKnown, Ids
  <2>4. Promise'
    BY <1>1, <1>2, <1>4, <2>1, <2>2 DEF ListInv, Promise, Ids, AnswersKnown, List!Rows
  <2>5. NoGhosts'
    BY <1>1, <1>4, <2>1, <2>2 DEF ListInv, NoGhosts, Ids, List!NoFreshGhosts
  <2>. QED
    BY <1>3, <2>3, <2>4, <2>5 DEF ListInv
<1>6. CASE List!Cache!Settle(k)
  <2>1. PICK S : S = flight[k][2]
    OBVIOUS
  <2>2. /\ flight[k] \notin {Idle, Sent} /\ stale' = stale \ {k}
        /\ data' = [data EXCEPT ![k] = S] /\ flight' = [flight EXCEPT ![k] = Idle]
    BY <1>6, <2>1 DEF List!Cache!Settle, List!Cache!Idle, List!Cache!Sent, Idle, Sent
  <2>3. S \subseteq known /\ S # NoData
    BY <2>1, <2>2, FlowsAssumption DEF ListInv, AnswersKnown, Ids, FlowsAssumption
  <2>4. /\ flight'[k] = Idle /\ \A o \in Keys \ {k} : flight'[o] = flight[o]
        /\ data'[k] = S /\ \A o \in Keys \ {k} : data'[o] = data[o]
    BY <2>2 DEF ListInv, AnswersKnown
  <2>5. AnswersKnown'
    BY <1>1, <2>2, <2>3, <2>4 DEF ListInv, AnswersKnown
  <2>6. Promise'
    BY <1>1, <1>2, <1>4, <2>1, <2>2, <2>3, <2>4 DEF ListInv, Promise, List!Rows
  <2>7. NoGhosts'
    BY <1>1, <2>1, <2>2, <2>4 DEF ListInv, NoGhosts, List!NoFreshGhosts, Keys
  <2>. QED
    BY <1>3, <2>5, <2>6, <2>7 DEF ListInv
<1>7. CASE List!Cache!Fail(k)
  <2>1. UNCHANGED data /\ flight' = [flight EXCEPT ![k] = Idle] /\ stale \subseteq stale'
    BY <1>7 DEF List!Cache!Fail, List!Cache!Idle, Idle
  <2>2. flight'[k] = Idle /\ \A o \in Keys \ {k} : flight'[o] = flight[o]
    BY <2>1 DEF ListInv, AnswersKnown
  <2>3. AnswersKnown'
    BY <1>1, <2>1, <2>2 DEF ListInv, AnswersKnown
  <2>4. Promise'
    BY <1>1, <1>2, <1>7, <2>1, <2>2 DEF ListInv, Promise, List!Rows
  <2>5. NoGhosts'
    BY <1>1, <2>1, <2>2 DEF ListInv, NoGhosts, List!NoFreshGhosts, Keys
  <2>. QED
    BY <1>3, <2>3, <2>4, <2>5 DEF ListInv
<1>. QED
  BY <1>5, <1>6, <1>7 DEF List!FetchStep, List!Cache!Fetching

\* Entries grow old, that on the screen is fetched again then; the others are dropped.
LEMMA TimeKeepsList ==
  ASSUME ListInv, List!TimePasses
  PROVE  ListInv'
<1>1. /\ UNCHANGED <<projects, order, known, pendingDelete, deleting, victim, gone, crossed, shows, lacks>>
      /\ List!key' = List!key
  BY DEF List!TimePasses, List!create, List!delete, List!ids, List!bound, List!key
<1>2. List!key \in Keys /\ DOMAIN flight = Keys
  BY KeyInKeys DEF ListInv, AnswersKnown, List!key
<1>3. Idle # Sent
  BY FigureShapes
<1>4. CASE /\ UNCHANGED flight
           /\ \/ \E k \in Keys : UNCHANGED data /\ stale' = stale \cup {k}
              \/ \E k \in Keys \ {List!key} : data' = [data EXCEPT ![k] = NoData] /\ stale' = stale \ {k}
  <2>1. UNCHANGED Ids /\ UNCHANGED List!Rows
    BY <1>1, <1>2, <1>4 DEF Ids, List!Rows, ListInv, AnswersKnown
  <2>2. AnswersKnown'
    BY <1>1, <1>4 DEF ListInv, AnswersKnown
  <2>3. Promise'
    BY <1>1, <1>4, <2>1 DEF ListInv, Promise
  <2>4. NoGhosts'
    BY <1>1, <1>4 DEF ListInv, NoGhosts, AnswersKnown, List!NoFreshGhosts, Keys
  <2>. QED
    BY <2>1, <2>2, <2>3, <2>4 DEF ListInv
<1>5. CASE UNCHANGED <<data, stale>> /\ flight' = [flight EXCEPT ![List!key] = Sent]
  <2>1. flight'[List!key] = Sent /\ DOMAIN flight' = Keys
        /\ \A k \in Keys \ {List!key} : flight'[k] = flight[k]
    BY <1>2, <1>5
  <2>2. Ids'
    BY <1>1 DEF ListInv, Ids
  <2>3. AnswersKnown'
    BY <1>1, <1>5, <2>1 DEF ListInv, AnswersKnown
  <2>4. Promise'
    BY <1>1, <1>3, <2>1 DEF Promise
  <2>5. NoGhosts'
    BY <1>1, <1>5, <2>1 DEF ListInv, NoGhosts, List!NoFreshGhosts, Keys
  <2>. QED
    BY <2>2, <2>3, <2>4, <2>5 DEF ListInv
<1>. QED
  BY <1>4, <1>5 DEF List!TimePasses, List!Cache!Time, List!Cache!Age, List!Cache!Drop,
     List!Cache!Reconnect, List!Cache!Sent, Sent, Keys

LEMMA ListAlways == Spec => []ListFacts
<1>1. Init => ListFacts
  <2>. SUFFICES ASSUME Init, flow = "projects" PROVE ListInv
    BY DEF ListFacts, ListInv
  <2>. USE FlowsAssumption DEF FlowsAssumption
  <2>1. List!Init
    BY PartsAtStart
  <2>2. /\ projects = Present /\ known = Present /\ order = List!NoOrder /\ stale = {}
        /\ pendingDelete = NoProject /\ deleting = <<"none">>
        /\ gone = {} /\ crossed = {} /\ shows = {} /\ lacks = {}
    BY <2>1 DEF List!Init, List!Nothing
  <2>3. /\ DOMAIN data = Keys /\ DOMAIN flight = Keys
        /\ \A k \in Keys : data[k] = NoData /\ flight[k] \in {Idle, Sent}
    BY <2>1 DEF List!Init, Keys, List!Cache!Idle, List!Cache!Sent, Idle, Sent
  <2>4. Ids
    BY <2>2 DEF Ids
  <2>5. List!NoOrder \in List!Orders
    BY DEF List!Orders, List!OrdersOver
  <2>6. List!key \in Keys
    BY <2>2, <2>5, KeyInKeys DEF List!key
  <2>7. AnswersKnown /\ Promise /\ NoGhosts
    BY <2>2, <2>3, <2>5, <2>6 DEF AnswersKnown, Promise, NoGhosts, List!NoFreshGhosts, List!Rows, Keys
  <2>. QED
    BY <2>4, <2>7 DEF ListInv
<1>2. ListFacts /\ [Next]_vars => ListFacts'
  <2>. SUFFICES ASSUME ListFacts, [Next]_vars, flow' = "projects" PROVE ListInv'
    BY DEF ListFacts, ListInv
  <2>. USE FlowsAssumption
  <2>1. ListInv /\ flow = "projects"
    BY PartsStep DEF ListFacts, ListInv
  <2>2. CASE UNCHANGED vars
    BY <2>1, <2>2 DEF vars, ofList, cache, ListInv, Ids, AnswersKnown, Promise, NoGhosts, List!NoFreshGhosts,
       List!Rows, List!key
  <2>3. CASE List!Next
    <3>1. CASE List!UserEvents
      <4>1. CASE \E o \in List!Orders : List!CommitOrder(o)
        BY <2>1, <4>1, OrderKeepsList
      <4>2. CASE ~\E o \in List!Orders : List!CommitOrder(o)
        <5>1. ~List!OpenFromMenu /\ ~\E f \in ServerFields \cup ClientFields : List!OnSortChange(f)
          <6>1. order \in List!Orders
            BY <2>1 DEF ListInv, AnswersKnown
          <6>2. List!NoOrder \in List!Orders
            BY DEF List!Orders, List!OrdersOver
          <6>. QED
            BY <4>2, <6>1, <6>2, OrdersClosed DEF List!OpenFromMenu, List!OnSortChange
        <5>. QED
          BY <2>1, <3>1, <5>1, DialogsKeepList DEF List!UserEvents
      <4>. QED
        BY <4>1, <4>2
    <3>2. CASE List!CreateStep
      BY <2>1, <3>2, BackendKeepsList, AnswersKeepList, DialogsKeepList DEF List!CreateStep
    <3>3. CASE List!DeleteStep
      BY <2>1, <3>3, BackendKeepsList, AnswersKeepList, DialogsKeepList DEF List!DeleteStep
    <3>4. CASE List!TimePasses
      BY <2>1, <3>4, TimeKeepsList
    <3>5. CASE \E k \in Keys : List!FetchStep(k)
      BY <2>1, <3>5, FetchesKeepList
    <3>. QED
      BY <2>3, <3>1, <3>2, <3>3, <3>4, <3>5 DEF List!Next, Keys
  <2>. QED
    BY <2>1, <2>2, <2>3, PartsStep
<1>. QED
  BY <1>1, <1>2, PTL DEF Spec

\* Once what a creation or a deletion fetches is there, the list of projects shows
\* the one and lacks the other, whatever was under way before and is clicked
\* meanwhile (ProjectList.tsx: handleCreate, handleDelete): because an answer on its
\* way to the screen keeps the promise already.
THEOREM OutcomeIsTold == Spec => []RowsTellOutcome
<1>1. ListFacts => RowsTellOutcome
  BY DEF ListFacts, Promise, RowsTellOutcome, List!RowsTellOutcome, List!Cache!Idle, Idle
<1>. QED
  BY <1>1, ListAlways, PTL

\* After a deletion no entry of another order that still holds the project counts
\* as fresh, unless its fetch was under way when the deletion returned.
THEOREM GhostsAreStale == Spec => []NoFreshGhosts
<1>1. ListFacts => NoFreshGhosts
  BY DEF ListFacts, NoGhosts, NoFreshGhosts
<1>. QED
  BY <1>1, ListAlways, PTL

-----------------------------------------------------------------------------
(* Fetching all rows.                                                      *)

Offset == (page - 1) * PageSize

FetchTypes ==
  /\ Fetch!TypeOK /\ changes \in Nat
  /\ \/ state # "fetching" /\ call = <<"none">>
     \/ /\ state = "fetching" /\ Len(all) <= Offset
        /\ \/ call = <<"asked">>
           \/ \E n \in Nat : call = <<"counted", n>>
           \/ \E n \in Nat, rows \in Seq(Fetch!Rows) : call = <<"answered", n, rows>> /\ Len(rows) <= PageSize

\* As long as the table has held still: the rows of the pages before this one are
\* there, and the answer is the page asked for, counted right.
Still ==
  /\ state = "fetching" =>
       Offset <= Cardinality(table) /\ all = SubSeq(Fetch!Sorted(table), 1, Offset)
  /\ call[1] \in {"counted", "answered"} => call[2] = Cardinality(table)
  /\ call[1] = "answered" => call[3] = Fetch!PageOf(table, page)
  /\ Fetch!StillTableWhole

FetchFacts == flow = "fetch" => FetchTypes /\ (changes = 0 => Still)

LEMMA SameCount ==
  \A S : Fetch!Cardinality(S) = Cardinality(S)
BY Zenon DEF Fetch!Cardinality, Cardinality

LEMMA Smaller ==
  ASSUME NEW a \in Nat, NEW b \in Nat
  PROVE  Fetch!Min({a, b}) = IF a <= b THEN a ELSE b
BY DEF Fetch!Min

\* A set of rows is sorted when the i-th is the one up to which there are i.
LEMMA SortedRows ==
  ASSUME NEW rows \in SUBSET Fetch!Rows
  PROVE  /\ Cardinality(rows) \in Nat
         /\ Fetch!Sorted(rows) \in Seq(rows) /\ Len(Fetch!Sorted(rows)) = Cardinality(rows)
         /\ \A i, j \in 1..Cardinality(rows) : i < j => Fetch!Sorted(rows)[i] < Fetch!Sorted(rows)[j]
<1>. DEFINE Upto(n) == {x \in rows : x <= n}
            Rank(n) == Cardinality(Upto(n))
            N == Cardinality(rows)
<1>1. NumRows \in Nat /\ rows \subseteq Nat /\ \A x \in rows : x <= NumRows /\ 1 <= x
  <2>1. NumRows \in Nat
    BY FlowsAssumption
  <2>. QED
    BY <2>1 DEF Fetch!Rows
<1>2. IsFiniteSet(rows) /\ N \in Nat
  <2>1. IsFiniteSet(1..NumRows) /\ rows \in SUBSET (1..NumRows)
    BY <1>1, FS_Interval DEF Fetch!Rows
  <2>. QED
    BY <2>1, FS_Subset, FS_CardinalityType
<1>10. \A n : IsFiniteSet(Upto(n))
  BY <1>2, FS_Subset
<1>3. \A n : Rank(n) \in Nat
  BY <1>10, FS_CardinalityType
<1>4. ASSUME NEW x \in rows
      PROVE  Rank(x) \in 1..N
  <2>1. x \in Upto(x)
    BY <1>1
  <2>2. Upto(x) # {} /\ Upto(x) \subseteq rows
    BY <2>1
  <2>3. Rank(x) <= N /\ Rank(x) # 0
    BY <1>2, <1>10, <2>2, FS_Subset, FS_EmptySet
  <2>. HIDE DEF Rank
  <2>. QED
    BY <1>2, <1>3, <2>3
<1>9. ASSUME NEW x \in rows, NEW y \in rows, x < y
      PROVE  Rank(x) < Rank(y)
  <2>1. Upto(x) \subseteq Upto(y) /\ Upto(x) # Upto(y)
    <3>1. y \in Upto(y) /\ y \notin Upto(x)
      BY <1>1, <1>9
    <3>2. \A z \in rows : z <= x => z <= y
      BY <1>1, <1>9
    <3>. QED
      BY <3>1, <3>2
  <2>2. Rank(x) <= Rank(y) /\ Rank(x) # Rank(y)
    BY <2>1, <1>10, FS_Subset
  <2>. HIDE DEF Rank
  <2>. QED
    BY <2>2, <1>3
<1>5. ASSUME NEW i \in 1..N
      PROVE  \E r \in rows : Rank(r) = i
  <2>. DEFINE f == [x \in rows |-> Rank(x)]
  <2>1. f \in [rows -> 1..N]
    BY <1>4
  <2>2. \A x, y \in rows : f[x] = f[y] => x = y
    <3>. SUFFICES ASSUME NEW x \in rows, NEW y \in rows, f[x] = f[y] PROVE x = y
      OBVIOUS
    <3>1. Rank(x) = Rank(y) /\ Rank(x) \in Nat
      BY <1>3
    <3>2. ~(x < y) /\ ~(y < x)
      <4>. HIDE DEF Rank
      <4>. QED
        BY <3>1, <1>9
    <3>. QED
      BY <3>2, <1>1
  <2>. HIDE DEF f
  <2>3. f \in Injection(rows, 1..N)
    BY <2>1, <2>2 DEF Injection, IsInjective
  <2>4. IsFiniteSet(1..N) /\ Cardinality(1..N) = N
    BY <1>2, FS_Interval
  <2>5. f \in Surjection(rows, 1..N)
    BY <2>3, <2>4, FS_Injection
  <2>. QED
    BY <2>5 DEF Surjection, f
<1>6. ASSUME NEW i \in 1..N
      PROVE  Fetch!Sorted(rows)[i] \in rows /\ Rank(Fetch!Sorted(rows)[i]) = i
  <2>1. Fetch!Sorted(rows)[i] = CHOOSE r \in rows : Fetch!Rank(rows, r) = i
    BY SameCount DEF Fetch!Sorted
  <2>2. \A r : Fetch!Rank(rows, r) = Rank(r)
    BY SameCount, Zenon DEF Fetch!Rank
  <2>. HIDE DEF Rank
  <2>3. \E r \in rows : Fetch!Rank(rows, r) = i
    BY <1>5, <2>2
  <2>. QED
    BY <2>1, <2>2, <2>3
<1>7. Fetch!Sorted(rows) \in Seq(rows) /\ Len(Fetch!Sorted(rows)) = N
  <2>1. DOMAIN Fetch!Sorted(rows) = 1..N /\ Fetch!Sorted(rows) = [i \in 1..N |-> Fetch!Sorted(rows)[i]]
    BY SameCount DEF Fetch!Sorted
  <2>2. Fetch!Sorted(rows) \in [1..N -> rows]
    BY <2>1, <1>6
  <2>. QED
    BY <2>1, <2>2, <1>2
<1>8. ASSUME NEW i \in 1..N, NEW j \in 1..N, i < j
      PROVE  Fetch!Sorted(rows)[i] < Fetch!Sorted(rows)[j]
  <2>1. PICK r, q : r = Fetch!Sorted(rows)[i] /\ q = Fetch!Sorted(rows)[j]
    OBVIOUS
  <2>2. r \in rows /\ q \in rows /\ Rank(r) = i /\ Rank(q) = j
    BY <1>6, <2>1
  <2>3. r \in Nat /\ q \in Nat
    BY <2>2, <1>1
  <2>4. q <= r => Rank(q) <= Rank(r)
    <3>1. ASSUME q <= r PROVE Upto(q) \subseteq Upto(r)
      <4>1. \A z \in rows : z <= q => z <= r
        BY <3>1, <2>3, <1>1
      <4>. QED
        BY <4>1
    <3>. QED
      BY <3>1, <1>10, FS_Subset
  <2>. HIDE DEF Rank
  <2>. QED
    BY <2>1, <2>2, <2>3, <2>4, <1>2, <1>8
<1>. QED
  BY <1>2, <1>7, <1>8

\* Where a page begins and ends.
LEMMA PageEnds ==
  ASSUME NEW p \in 1..MaxPages
  PROVE  /\ (p - 1) * PageSize \in Nat /\ p * PageSize = (p - 1) * PageSize + PageSize
         /\ p * PageSize <= MaxPages * PageSize
         /\ MaxPages * PageSize \in Nat
         /\ p = 1 => (p - 1) * PageSize = 0
BY FlowsAssumption DEF FlowsAssumption

\* A page of the table has no more than PageSize rows of it; and it goes on where
\* the page before it ended.
LEMMA PageRows ==
  ASSUME NEW rows \in SUBSET Fetch!Rows, NEW p \in 1..MaxPages
  PROVE  /\ Fetch!PageOf(rows, p) \in Seq(Fetch!Rows) /\ Len(Fetch!PageOf(rows, p)) <= PageSize
         /\ (p - 1) * PageSize <= Cardinality(rows) =>
              LET s == Fetch!Sorted(rows)
                  e == Fetch!Min({p * PageSize, Cardinality(rows)}) IN
              /\ SubSeq(s, 1, (p - 1) * PageSize) \o Fetch!PageOf(rows, p) = SubSeq(s, 1, e)
              /\ Fetch!PageOf(rows, p) = <<>> <=> e = (p - 1) * PageSize
<1>1. PICK a, b, N : a = (p - 1) * PageSize /\ b = p * PageSize /\ N = Cardinality(rows)
  OBVIOUS
<1>2. PageSize \in Nat \ {0} /\ a \in Nat /\ b = a + PageSize /\ N \in Nat
  BY <1>1, PageEnds, SortedRows, FlowsAssumption DEF FlowsAssumption
<1>3. PICK s : s = Fetch!Sorted(rows)
  OBVIOUS
<1>4. s \in Seq(Fetch!Rows) /\ Len(s) = N
  BY <1>1, <1>3, SortedRows
<1>5. PICK e : e = Fetch!Min({b, N})
  OBVIOUS
<1>6. e = IF b <= N THEN b ELSE N
  BY <1>2, <1>5, Smaller
<1>7. Fetch!PageOf(rows, p) = SubSeq(s, a + 1, e)
  <2>1. Fetch!PageOf(rows, p) = SubSeq(Fetch!Sorted(rows), (p - 1) * PageSize + 1,
                                       Fetch!Min({p * PageSize, Cardinality(rows)}))
    BY SameCount, Zenon DEF Fetch!PageOf
  <2>. QED
    BY <1>1, <1>3, <1>5, <2>1, Zenon
<1>8. \A i \in a + 1 .. e : s[i] \in Fetch!Rows
  BY <1>2, <1>4, <1>6
<1>9. /\ SubSeq(s, a + 1, e) \in Seq(Fetch!Rows)
      /\ Len(SubSeq(s, a + 1, e)) = IF a + 1 <= e THEN e - (a + 1) + 1 ELSE 0
  BY <1>2, <1>6, <1>8, SubSeqProperties
<1>10. ASSUME a <= N
       PROVE  /\ SubSeq(s, 1, a) \o SubSeq(s, a + 1, e) = SubSeq(s, 1, e)
              /\ SubSeq(s, a + 1, e) = <<>> <=> e = a
  <2>1. 1 \in 1..Len(s) + 1 /\ a \in 1 - 1 .. Len(s) /\ e \in a .. Len(s)
    BY <1>10, <1>2, <1>4, <1>6
  <2>2. SubSeq(s, 1, a) \o SubSeq(s, a + 1, e) = SubSeq(s, 1, e)
    BY <2>1, <1>4, ConcatAdjacentSubSeq
  <2>3. SubSeq(s, a + 1, e) = <<>> <=> Len(SubSeq(s, a + 1, e)) = 0
    BY <1>9, EmptySeq
  <2>. QED
    BY <2>1, <2>2, <2>3, <1>9, <1>2, <1>6
<1>11. Fetch!PageOf(rows, p) \in Seq(Fetch!Rows) /\ Len(Fetch!PageOf(rows, p)) <= PageSize
  BY <1>2, <1>6, <1>7, <1>9
<1>12. (p - 1) * PageSize <= Cardinality(rows) =>
        /\ SubSeq(s, 1, (p - 1) * PageSize) \o Fetch!PageOf(rows, p) = SubSeq(s, 1, e)
        /\ Fetch!PageOf(rows, p) = <<>> <=> e = (p - 1) * PageSize
  BY <1>1, <1>7, <1>10, Zenon
<1>. QED
  BY <1>1, <1>3, <1>5, <1>11, <1>12, Zenon

LEMMA CallShapes ==
  /\ <<"none">>[1] = "none" /\ <<"asked">>[1] = "asked"
  /\ \A n : <<"counted", n>>[1] = "counted" /\ <<"counted", n>>[2] = n
  /\ \A n, r : <<"answered", n, r>>[1] = "answered" /\ <<"answered", n, r>>[2] = n /\ <<"answered", n, r>>[3] = r
  /\ <<"none">> # <<"asked">>
  /\ \A n, r : <<"none">> \notin {<<"counted", n>>, <<"answered", n, r>>}
OBVIOUS

\* What the handler counts and selects.
LEMMA HandlerKeeps ==
  ASSUME FetchTypes, changes = 0 => Still, Fetch!Count \/ Fetch!Select
  PROVE  FetchTypes' /\ (changes' = 0 => Still')
<1>. DEFINE rows == Fetch!PageOf(table, page)
<1>1. /\ state = "fetching" /\ UNCHANGED <<table, page, all, state, tries, changes>>
      /\ \/ \E n \in Nat : call' = <<"counted", n>> /\ n = Cardinality(table)
         \/ \E n \in Nat : call = <<"counted", n>> /\ call' = <<"answered", n, rows>>
  <2>1. table \subseteq Fetch!Rows /\ Cardinality(table) \in Nat
    BY SortedRows DEF FetchTypes, Fetch!TypeOK
  <2>2. CASE Fetch!Count
    BY <2>1, <2>2, CallShapes, SameCount DEF Fetch!Count, Fetch!loop, FetchTypes
  <2>3. CASE Fetch!Select
    <3>1. PICK n \in Nat : call = <<"counted", n>> /\ state = "fetching"
      BY <2>3, CallShapes DEF Fetch!Select, FetchTypes
    <3>. QED
      BY <2>3, <3>1, CallShapes DEF Fetch!Select, Fetch!loop
  <2>. QED
    BY <2>2, <2>3
<1>2. table \in SUBSET Fetch!Rows /\ page \in 1..MaxPages
  BY DEF FetchTypes, Fetch!TypeOK
<1>3. rows \in Seq(Fetch!Rows) /\ Len(rows) <= PageSize
  BY <1>2, PageRows
<1>. HIDE DEF rows
<1>4. FetchTypes'
  BY <1>1, <1>3 DEF FetchTypes, Fetch!TypeOK, Offset
<1>5. rows' = rows
  BY <1>1 DEF rows
<1>6. ASSUME changes = 0 PROVE Still'
  <2>1. /\ Offset <= Cardinality(table) /\ all = SubSeq(Fetch!Sorted(table), 1, Offset)
        /\ call[1] = "counted" => call[2] = Cardinality(table)
    BY <1>1, <1>6 DEF Still
  <2>2. /\ call'[1] \in {"counted", "answered"} => call'[2] = Cardinality(table)
        /\ call'[1] = "answered" => call'[3] = rows
    BY <1>1, <2>1, CallShapes
  <2>3. Fetch!StillTableWhole'
    BY <1>1 DEF Fetch!StillTableWhole
  <2>. QED
    BY <1>1, <1>5, <2>1, <2>2, <2>3 DEF Still, Offset, rows
<1>. QED
  BY <1>1, <1>4, <1>6

\* The loop goes on where the page ended, or has all that the answer counts.
LEMMA ReceiveKeeps ==
  ASSUME FetchTypes, changes = 0 => Still, Fetch!Receive
  PROVE  FetchTypes' /\ (changes' = 0 => Still')
<1>1. PICK n \in Nat, rows \in Seq(Fetch!Rows) :
        /\ call = <<"answered", n, rows>> /\ Len(rows) <= PageSize
        /\ state = "fetching" /\ Len(all) <= Offset
  BY CallShapes DEF Fetch!Receive, FetchTypes
<1>2. /\ all' = all \o rows /\ UNCHANGED <<table, tries, changes>>
      /\ \/ /\ rows = <<>> \/ Len(all') >= n \/ page = MaxPages
            /\ state' = "done" /\ call' = <<"none">> /\ page' = page
         \/ /\ rows # <<>> /\ ~(Len(all') >= n) /\ page # MaxPages
            /\ state' = state /\ call' = <<"asked">> /\ page' = page + 1
  BY <1>1, CallShapes DEF Fetch!Receive
<1>3. /\ table \in SUBSET Fetch!Rows /\ page \in 1..MaxPages /\ all \in Seq(Fetch!Rows)
      /\ MaxPages \in Nat \ {0} /\ PageSize \in Nat \ {0} /\ Cardinality(table) \in Nat
  BY FlowsAssumption, SortedRows DEF FlowsAssumption, FetchTypes, Fetch!TypeOK
<1>4. PICK a, b, M : a = Offset /\ b = page * PageSize /\ M = MaxPages * PageSize
  OBVIOUS
<1>5. a \in Nat /\ b = a + PageSize /\ M \in Nat /\ b <= M /\ (page = 1 => a = 0)
  BY <1>3, <1>4, PageEnds DEF Offset
<1>6. Offset' = IF page' = page THEN a ELSE b
  BY <1>2, <1>3, <1>4 DEF Offset
<1>7. all' \in Seq(Fetch!Rows) /\ Len(all') = Len(all) + Len(rows) /\ Len(all') <= b
  BY <1>1, <1>2, <1>3, <1>4, <1>5
<1>8. FetchTypes'
  <2>1. page' \in 1..MaxPages
    BY <1>2, <1>3
  <2>2. Len(all') <= M
    BY <1>5, <1>7, <1>3
  <2>3. Fetch!TypeOK'
    BY <1>1, <1>2, <1>4, <1>7, <2>1, <2>2 DEF FetchTypes, Fetch!TypeOK
  <2>4. changes' \in Nat
    BY <1>2 DEF FetchTypes
  <2>5. page' # page => state' = "fetching" /\ Offset' = b /\ call' = <<"asked">>
    BY <1>1, <1>2, <1>6
  <2>6. page' = page => state' = "done" /\ call' = <<"none">>
    BY <1>2, <1>3
  <2>. QED
    BY <2>3, <2>4, <2>5, <2>6, <1>7 DEF FetchTypes
<1>9. ASSUME changes = 0 PROVE Still'
  <2>1. PICK N, s, e : /\ N = Cardinality(table) /\ s = Fetch!Sorted(table)
                       /\ e = Fetch!Min({page * PageSize, Cardinality(table)})
    OBVIOUS
  <2>2. N \in Nat /\ e = IF b <= N THEN b ELSE N
    BY <1>3, <1>4, <1>5, <2>1, Smaller
  <2>3. a <= N /\ all = SubSeq(s, 1, a) /\ n = N /\ rows = Fetch!PageOf(table, page)
    BY <1>1, <1>4, <1>9, <2>1, CallShapes DEF Still
  <2>4. all' = SubSeq(s, 1, e) /\ (rows = <<>> <=> e = a)
    <3>1. /\ SubSeq(s, 1, (page - 1) * PageSize) \o Fetch!PageOf(table, page) = SubSeq(s, 1, e)
          /\ Fetch!PageOf(table, page) = <<>> <=> e = (page - 1) * PageSize
      <4>1. (page - 1) * PageSize <= Cardinality(table)
        BY <1>4, <2>1, <2>3 DEF Offset
      <4>. QED
        BY <4>1, <1>3, <2>1, PageRows, Zenon
    <3>2. a = (page - 1) * PageSize
      BY <1>4 DEF Offset
    <3>. QED
      BY <1>2, <2>3, <3>1, <3>2, Zenon
  <2>5. Len(all') = e
    <3>1. s \in Seq(Fetch!Rows) /\ Len(s) = N
      BY <1>3, <2>1, SortedRows
    <3>. QED
      BY <3>1, <2>2, <2>4, <1>5, <1>3
  <2>6. CASE page' # page
    <3>1. state' = "fetching" /\ call' = <<"asked">> /\ ~(e >= n)
      BY <1>1, <1>2, <2>5, <2>6
    <3>2. e = b /\ b <= N
      BY <3>1, <2>2, <2>3, <1>3, <1>5
    <3>3. Offset' <= Cardinality(table)' /\ all' = SubSeq(Fetch!Sorted(table)', 1, Offset')
      BY <1>2, <1>6, <2>1, <2>4, <2>6, <3>2
    <3>4. Fetch!StillTableWhole'
      BY <3>1 DEF Fetch!StillTableWhole
    <3>. QED
      BY <3>1, <3>3, <3>4, CallShapes DEF Still
  <2>7. CASE page' = page
    <3>1. state' = "done" /\ call' = <<"none">> /\ (e = a \/ e >= N \/ page = MaxPages)
      BY <1>2, <1>3, <2>3, <2>4, <2>5, <2>7
    <3>2. e = Fetch!Min({N, M})
      <4>1. Fetch!Min({N, M}) = IF N <= M THEN N ELSE M
        BY <1>5, <2>2, Smaller
      <4>2. page = MaxPages => b = M
        BY <1>4
      <4>. QED
        BY <3>1, <4>1, <4>2, <2>2, <2>3, <1>3, <1>5
    <3>3. Fetch!StillTableWhole'
      <4>1. all' = SubSeq(Fetch!Sorted(table), 1, Fetch!Min({Cardinality(table), MaxPages * PageSize}))
        BY <1>4, <2>1, <2>4, <3>2, Zenon
      <4>. QED
        BY <4>1, <1>2, SameCount DEF Fetch!StillTableWhole
    <3>. QED
      BY <3>1, <3>3, CallShapes DEF Still
  <2>. QED
    BY <2>6, <2>7
<1>. QED
  BY <1>2, <1>8, <1>9

LEMMA FetchAlways == Spec => []FetchFacts
<1>1. Init => FetchFacts
  <2>. SUFFICES ASSUME Init, flow = "fetch" PROVE FetchTypes /\ Still
    BY DEF FetchFacts
  <2>. USE FlowsAssumption DEF FlowsAssumption
  <2>1. /\ table \in SUBSET Fetch!Rows /\ page = 1 /\ all = <<>> /\ call = <<"asked">>
        /\ state = "fetching" /\ tries = 0 /\ changes = 0
    BY PartsAtStart DEF Fetch!Init
  <2>2. page \in 1..MaxPages /\ Offset = 0 /\ MaxPages * PageSize \in Nat
    BY <2>1, PageEnds DEF Offset
  <2>3. SubSeq(Fetch!Sorted(table), 1, 0) = <<>>
    BY SubSeqEmpty
  <2>4. FetchTypes
    BY <2>1, <2>2 DEF FetchTypes, Fetch!TypeOK
  <2>5. Still
    BY <2>1, <2>2, <2>3, CallShapes, SortedRows DEF Still, Fetch!StillTableWhole
  <2>. QED
    BY <2>4, <2>5
<1>2. FetchFacts /\ [Next]_vars => FetchFacts'
  <2>. SUFFICES ASSUME FetchFacts, [Next]_vars, flow' = "fetch" PROVE FetchTypes' /\ (changes' = 0 => Still')
    BY DEF FetchFacts
  <2>. USE FlowsAssumption DEF FlowsAssumption
  <2>1. FetchTypes /\ (changes = 0 => Still) /\ flow = "fetch"
    BY PartsStep DEF FetchFacts
  <2>2. CASE UNCHANGED <<table, page, all, call, state, tries, changes>>
    BY <2>1, <2>2 DEF FetchTypes, Still, Fetch!TypeOK, Fetch!StillTableWhole, Offset
  <2>3. CASE Fetch!FetchStep
    <3>1. CASE Fetch!Fail
      <4>1. /\ state = "fetching" /\ UNCHANGED <<table, changes>>
            /\ \/ tries' = tries + 1 /\ tries < Retries /\ state' = "fetching" /\ page' = 1 /\ all' = <<>> /\ call' = <<"asked">>
               \/ state' = "failed" /\ call' = <<"none">> /\ UNCHANGED <<tries, page, all>>
        BY <2>1, <3>1 DEF Fetch!Fail, FetchTypes, Fetch!loop
      <4>2. 1 \in 1..MaxPages /\ (1 - 1) * PageSize = 0 /\ MaxPages * PageSize \in Nat
        BY PageEnds
      <4>3. page' = 1 => Offset' = 0
        BY <4>2 DEF Offset
      <4>4. FetchTypes'
        <5>1. PICK M : M = MaxPages * PageSize
          OBVIOUS
        <5>2. M \in Nat /\ Len(<<>>) = 0 /\ <<>> \in Seq(Fetch!Rows)
          BY <4>2, <5>1
        <5>3. page' \in 1..MaxPages /\ all' \in Seq(Fetch!Rows) /\ Len(all') <= M
          <6>1. page \in 1..MaxPages /\ all \in Seq(Fetch!Rows) /\ Len(all) <= M
            BY <2>1, <5>1 DEF FetchTypes, Fetch!TypeOK
          <6>2. 0 <= M
            BY <5>2
          <6>. QED
            BY <4>1, <4>2, <5>2, <6>1, <6>2
        <5>4. state' = "fetching" => call' = <<"asked">> /\ Len(all') <= Offset'
          BY <4>1, <4>3, <5>2
        <5>5. tries' \in 0..Retries /\ changes' \in Nat /\ table' \subseteq Fetch!Rows
          BY <2>1, <4>1 DEF FetchTypes, Fetch!TypeOK
        <5>6. Fetch!TypeOK'
          BY <4>1, <5>1, <5>3, <5>5 DEF Fetch!TypeOK
        <5>. QED
          BY <4>1, <5>4, <5>5, <5>6 DEF FetchTypes
      <4>5. ASSUME changes = 0 PROVE Still'
        <5>1. SubSeq(Fetch!Sorted(table), 1, 0) = <<>> /\ Cardinality(table) \in Nat
          BY <2>1, SubSeqEmpty, SortedRows DEF FetchTypes, Fetch!TypeOK
        <5>2. Fetch!StillTableWhole'
          BY <4>1 DEF Fetch!StillTableWhole
        <5>3. call'[1] \in {"none", "asked"}
          BY <4>1, CallShapes
        <5>4. state' = "fetching" => Offset' <= Cardinality(table)' /\ all' = SubSeq(Fetch!Sorted(table)', 1, Offset')
          BY <4>1, <4>3, <5>1
        <5>. QED
          BY <5>2, <5>3, <5>4 DEF Still
      <4>. QED
        BY <4>1, <4>4, <4>5
    <3>. QED
      BY <2>1, <2>3, <3>1, HandlerKeeps, ReceiveKeeps DEF Fetch!FetchStep
  <2>4. CASE Fetch!Change
    <3>1. /\ UNCHANGED <<page, all, call, state, tries>> /\ changes' = changes + 1
          /\ table' \subseteq Fetch!Rows
      BY <2>1, <2>4 DEF Fetch!Change, Fetch!loop, FetchTypes, Fetch!TypeOK
    <3>2. FetchTypes' /\ changes' # 0
      BY <2>1, <3>1 DEF FetchTypes, Fetch!TypeOK, Offset
    <3>. QED
      BY <3>2
  <2>. QED
    BY <2>1, <2>2, <2>3, <2>4, PartsStep DEF Fetch!Next, Fetch!Finished, Fetch!vars, Fetch!loop, vars, ofFetch
<1>. QED
  BY <1>1, <1>2, PTL DEF Spec

\* Of a table that does not change, the fetch of all rows ends with every row, once
\* and in order, up to MAX_PAGES pages, however many tries failed before and for any
\* size of page (endpoints.ts:57). SortedRows says what "in order" is.
THEOREM TableIsFetchedWhole == Spec => []StillTableWhole
<1>1. FetchFacts => StillTableWhole
  BY DEF FetchFacts, Still, StillTableWhole, Fetch!StillTableWhole
<1>. QED
  BY <1>1, FetchAlways, PTL

-----------------------------------------------------------------------------
(* Types. Those of the manual figures and of the fetch are above.          *)

TaskStates == [range : Ranges, page : 1..Cardinality(Items), size : Sizes,
               order : TaskPage!OrdersOver(ServerFields \cup ClientFields), name : Names]
TaskDrafts == [range : Ranges, name : Names]
InRange(q) == q.range

\* The orders, the bar and the address of any list page.
TasksP == INSTANCE UrlPageProofs WITH
            N <- Cardinality(Items), Read <- TaskPage!StateFromParams, Write <- TaskPage!BuildQuery,
            Params <- TaskPage!BuildParams, Defaults <- TaskPage!Defaults,
            Requests <- TaskPage!Requests, Fields <- {"range", "name"},
            States <- TaskStates, Drafts <- TaskDrafts, Matching <- InRange

LoadTypes ==
  /\ calls \subseteq [of : TaskPage!Requests, live : BOOLEAN]
  /\ loading \in BOOLEAN /\ failed \in BOOLEAN
  /\ rowsOf \in TaskPage!Requests \cup {NoRequest}

\* An estimate fetches the rows of the request it was started with.
TickTypes ==
  /\ selected \subseteq Items /\ addOpen \in BOOLEAN /\ lacking \in BOOLEAN
  /\ covered \in BOOLEAN /\ covered \in {FALSE, failed}
  /\ adding = <<>> \/ adding \in {<<ts>> : ts \in SUBSET Items}
  /\ estimate = <<>> \/ estimate[2] \in TaskPage!Requests

AddressTypes == TaskPage!state \in TaskStates /\ draft \in TaskDrafts /\ LoadTypes

TaskTypes == AddressTypes /\ TickTypes

LEMMA SomeItems ==
  /\ Cardinality(Items) \in Nat \ {0}
  /\ \A S \in SUBSET Items : IsFiniteSet(S) /\ Cardinality(S) \in 0..Cardinality(Items)
  /\ \A S : TaskPage!Cardinality(S) = Cardinality(S)
<1>1. Cardinality(Items) \in Nat \ {0}
  BY FlowsAssumption, FS_CardinalityType, FS_EmptySet
<1>2. ASSUME NEW S \in SUBSET Items
      PROVE  IsFiniteSet(S) /\ Cardinality(S) \in 0..Cardinality(Items)
  <2>1. IsFiniteSet(S) /\ Cardinality(S) <= Cardinality(Items)
    BY FlowsAssumption, FS_Subset
  <2>. QED
    BY <1>1, <2>1, FS_CardinalityType
<1>3. \A S : TaskPage!Cardinality(S) = Cardinality(S)
  BY Zenon DEF TaskPage!Cardinality, Cardinality
<1>. QED
  BY <1>1, <1>2, <1>3

LEMMA TasksDerived ==
  /\ \A p, t, z : TaskPage!Reachable(p, t, z) = TasksP!Reachable(p, t, z)
  /\ \A F : TaskPage!OrdersOver(F) = TasksP!OrdersOver(F)
  /\ \A o, f : TaskPage!NextOrder(o, f) = TasksP!NextOrder(o, f)
  /\ TaskPage!NoOrder = TasksP!NoOrder
BY DEF TaskPage!Reachable, TaskPage!PageCount, TaskPage!Neighbours,
    TasksP!Reachable, TasksP!PageCount, TasksP!Neighbours,
    TaskPage!OrdersOver, TaskPage!NextOrder, TaskPage!NoOrder, TaskPage!By,
    TasksP!OrdersOver, TasksP!NextOrder, TasksP!NoOrder, TasksP!By

\* What the address may hold.
LEMMA TasksAddress ==
  /\ TaskPage!Defaults \in TaskStates
  /\ TaskPage!StateFromParams(<<>>) = TaskPage!Defaults
  /\ \A s \in TaskStates :
       /\ TaskPage!StateFromParams(TaskPage!BuildQuery(s)) = s
       /\ TaskPage!BuildParams(s) \in TaskPage!Requests /\ TaskPage!P!Refill(s) \in TaskDrafts
<1>1. TaskPage!Defaults \in TaskStates
  <2>1. DefaultRange \in Ranges /\ DefaultSize \in Sizes /\ Items \in Names
    BY FlowsAssumption
  <2>. QED
    BY <2>1, SomeItems DEF TaskPage!Defaults, TaskStates, TaskPage!OrdersOver
<1>2. TaskPage!StateFromParams(<<>>) = TaskPage!Defaults
  BY TasksP!NothingRead DEF TaskPage!Defaults, TaskPage!StateFromParams
<1>3. ASSUME NEW s \in TaskStates
      PROVE  TaskPage!StateFromParams(TaskPage!BuildQuery(s)) = s
  <2>1. DOMAIN s = DOMAIN TaskPage!Defaults /\ s = [k \in DOMAIN s |-> s[k]]
    BY DEF TaskStates, TaskPage!Defaults
  <2>. QED
    BY <2>1, TasksP!RoundTrip DEF TaskPage!StateFromParams, TaskPage!BuildQuery
<1>4. ASSUME NEW s \in TaskStates
      PROVE  TaskPage!BuildParams(s) \in TaskPage!Requests /\ TaskPage!P!Refill(s) \in TaskDrafts
  <2>1. (IF s.order.field \in ServerFields THEN s.order ELSE TaskPage!NoOrder)
          \in TaskPage!OrdersOver(ServerFields)
    BY TasksDerived, TasksP!OrdersAreKept DEF TaskStates
  <2>2. TaskPage!P!Refill(s) \in TaskDrafts
    BY DEF TaskStates, TaskPage!P!Refill, TaskDrafts
  <2>. QED
    BY <2>1, <2>2, SomeItems DEF TaskStates, TaskPage!BuildParams, TaskPage!Requests
<1>. QED
  BY <1>1, <1>2, <1>3, <1>4

\* The address changes, and the request of the new one is sent.
LEMMA TasksGoto ==
  ASSUME AddressTypes, NEW u, NEW s \in TaskStates, TaskPage!StateFromParams(u) = s,
         NEW d \in TaskDrafts, NEW e, TaskPage!P!Goto(u, s, d, e)
  PROVE  AddressTypes'
<1>1. /\ url' = u /\ draft' = (IF u = url THEN d ELSE TaskPage!P!Refill(s))
      /\ IF u = url THEN UNCHANGED TaskPage!P!load ELSE TaskPage!P!Load!Ask(TaskPage!BuildParams(s))
  BY DEF TaskPage!P!Goto, TaskPage!P!Rerun
<1>2. TaskPage!state' = s
  BY <1>1 DEF TaskPage!state, TaskPage!P!state
<1>3. draft' \in TaskDrafts
  BY <1>1, TasksAddress
<1>4. CASE u = url
  <2>1. UNCHANGED <<calls, loading, failed, rowsOf>>
    BY <1>1, <1>4 DEF TaskPage!P!load
  <2>. QED
    BY <1>2, <1>3, <2>1 DEF AddressTypes, LoadTypes
<1>5. CASE u # url
  <2>. DEFINE q == TaskPage!BuildParams(s)
  <2>1. q \in TaskPage!Requests
    BY TasksAddress
  <2>. HIDE DEF q
  <2>2. /\ calls' = {[of |-> c.of, live |-> FALSE] : c \in calls} \cup {[of |-> q, live |-> TRUE]}
        /\ loading' = TRUE /\ failed' = FALSE /\ rowsOf' = rowsOf
    BY <1>1, <1>5 DEF TaskPage!P!Load!Ask, TaskPage!P!Load!Call, q
  <2>3. \A c \in calls : c.of \in TaskPage!Requests
    BY DEF AddressTypes, LoadTypes
  <2>4. calls' \subseteq [of : TaskPage!Requests, live : BOOLEAN]
    <3>1. /\ [of |-> q, live |-> TRUE] \in [of : TaskPage!Requests, live : BOOLEAN]
          /\ \A c \in calls : [of |-> c.of, live |-> FALSE] \in [of : TaskPage!Requests, live : BOOLEAN]
      BY <2>1, <2>3
    <3>. QED
      BY <2>2, <3>1
  <2>5. rowsOf \in TaskPage!Requests \cup {NoRequest}
    BY DEF AddressTypes, LoadTypes
  <2>. QED
    BY <1>2, <1>3, <2>2, <2>4, <2>5 DEF AddressTypes, LoadTypes
<1>. QED
  BY <1>4, <1>5

\* ... and what errMsg tells of a failure it replaces goes with it.
LEMMA TasksCovered ==
  ASSUME TaskTypes, NEW u, NEW s, NEW d, NEW e, TaskPage!P!Goto(u, s, d, e), url' = u,
         covered' = (covered /\ url' = url)
  PROVE  covered' \in BOOLEAN /\ covered' \in {FALSE, failed'}
<1>1. covered \in BOOLEAN /\ covered \in {FALSE, failed}
  BY DEF TaskTypes, TickTypes
<1>2. CASE u = url
  <2>1. failed' = failed
    BY <1>2 DEF TaskPage!P!Goto, TaskPage!P!Rerun, TaskPage!P!load
  <2>2. covered' = covered
    BY <1>1, <1>2
  <2>. QED
    BY <1>1, <2>1, <2>2
<1>3. CASE u # url
  BY <1>3
<1>. QED
  BY <1>2, <1>3

LEMMA TasksCommit ==
  ASSUME TaskTypes, NEW s \in TaskStates, NEW d \in TaskDrafts, NEW e, TaskPage!Commit(s, d, e)
  PROVE  TaskTypes'
<1>1. TaskPage!P!Goto(TaskPage!BuildQuery(s), s, d, e)
  BY DEF TaskPage!Commit, TaskPage!P!Commit
<1>2. AddressTypes'
  BY <1>1, TasksAddress, TasksGoto DEF TaskTypes
<1>3. covered' \in BOOLEAN /\ covered' \in {FALSE, failed'}
  BY <1>1, TasksCovered DEF TaskPage!Commit, TaskPage!ClearTicks, TaskPage!P!Goto
<1>4. TickTypes'
  BY <1>3 DEF TaskPage!Commit, TaskPage!ClearTicks, TaskPage!dialog, TaskPage!estimating, TaskTypes, TickTypes
<1>. QED
  BY <1>2, <1>4 DEF TaskTypes

\* A request ends, or the tab is loaded again.
LEMMA TasksReload ==
  ASSUME TaskTypes, TaskPage!Reload \/ \E c \in calls : TaskPage!LoadEnds(c)
  PROVE  TaskTypes'
<1>1. CASE TaskPage!Reload
  <2>1. /\ url' = url /\ draft' = TaskPage!P!Refill(TaskPage!state)
        /\ calls' = {[of |-> TaskPage!BuildParams(TaskPage!state), live |-> TRUE]}
        /\ loading' = TRUE /\ failed' = FALSE /\ rowsOf' = NoRequest
    BY <1>1 DEF TaskPage!Reload, TaskPage!P!Reload, TaskPage!P!Load!Open, TaskPage!P!Load!Call,
       TaskPage!P!Asked, TaskPage!state
  <2>2. TaskPage!state' = TaskPage!state /\ TaskPage!state \in TaskStates
    BY <2>1 DEF TaskPage!state, TaskPage!P!state, TaskTypes, AddressTypes
  <2>. DEFINE q == TaskPage!BuildParams(TaskPage!state)
  <2>3. draft' \in TaskDrafts /\ q \in TaskPage!Requests
    BY <2>1, <2>2, TasksAddress
  <2>. HIDE DEF q
  <2>4. calls' \subseteq [of : TaskPage!Requests, live : BOOLEAN]
    BY <2>1, <2>3 DEF q
  <2>5. TickTypes'
    BY <1>1 DEF TaskPage!Reload, TickTypes
  <2>. QED
    BY <2>1, <2>2, <2>3, <2>4, <2>5 DEF TaskTypes, AddressTypes, LoadTypes
<1>2. ASSUME NEW c \in calls, TaskPage!LoadEnds(c) PROVE TaskTypes'
  <2>1. /\ UNCHANGED <<url, draft, selected, addOpen, adding, estimate, covered>>
        /\ calls' = calls \ {c} /\ loading' \in {loading, FALSE} /\ failed' \in {failed, TRUE}
        /\ rowsOf' \in {rowsOf, c.of, NoRequest} /\ lacking' \in {lacking} \cup BOOLEAN
    BY <1>2 DEF TaskPage!LoadEnds, TaskPage!P!LoadEnds, TaskPage!P!Load!End, TaskPage!P!Load!Answer,
       TaskPage!P!Load!Refuse, TaskPage!dialog, TaskPage!estimating
  <2>2. TaskPage!state' = TaskPage!state
    BY <2>1 DEF TaskPage!state, TaskPage!P!state
  <2>3. c.of \in TaskPage!Requests
    BY DEF TaskTypes, AddressTypes, LoadTypes
  <2>4. LoadTypes'
    BY <2>1, <2>3 DEF TaskTypes, AddressTypes, LoadTypes
  <2>. QED
    BY <2>1, <2>2, <2>4 DEF TaskTypes, AddressTypes, TickTypes
<1>. QED
  BY <1>1, <1>2

\* Wherever the bar leads, there is such a page.
LEMMA TasksPageChosen ==
  ASSUME TaskTypes, NEW p \in TaskPage!Reachable(TaskPage!state.page, TaskPage!Total, TaskPage!state.size)
  PROVE  p \in 1..Cardinality(Items)
<1>1. TaskPage!state.page \in 1..Cardinality(Items) /\ TaskPage!state.size \in Nat \ {0}
  BY FlowsAssumption DEF TaskTypes, AddressTypes, TaskStates
<1>2. TaskPage!Total \in 0..Cardinality(Items)
  <2>1. rowsOf = NoRequest \/ rowsOf.range \in SUBSET Items
    BY FlowsAssumption DEF TaskTypes, AddressTypes, LoadTypes, TaskPage!Requests
  <2>. QED
    BY <2>1, SomeItems DEF TaskPage!Total
<1>. QED
  BY <1>1, <1>2, SomeItems, TasksDerived, TasksP!PageChosen

\* The handlers that change the address.
LEMMA TasksHandlers ==
  ASSUME TaskTypes,
         \/ TaskPage!ApplyFilters \/ TaskPage!ResetFilters \/ TaskPage!OpenFromMenu
         \/ \E r \in Ranges : TaskPage!OnDateChange(r)
         \/ \E n \in Sizes : TaskPage!HandleSizeChange(n)
         \/ \E p \in 0..TaskPage!Cardinality(Items) + 1 : TaskPage!HandlePageChange(p)
         \/ \E f \in ServerFields \cup ClientFields : TaskPage!OnSortChange(f)
  PROVE  TaskTypes'
<1>. DEFINE s == TaskPage!state
            dr == TaskPage!P!Drafted
<1>1. s \in TaskStates /\ draft \in TaskDrafts /\ 1 \in 1..Cardinality(Items)
  BY SomeItems DEF TaskTypes, AddressTypes
<1>2. dr \in TaskStates
  <2>1. dr = [k \in DOMAIN s |-> IF k \in {"range", "name"} THEN draft[k] ELSE s[k]]
    BY DEF TaskPage!P!Drafted, TaskPage!state
  <2>. HIDE DEF s
  <2>. QED
    BY <1>1, <2>1 DEF TaskStates, TaskDrafts
<1>. HIDE DEF s, dr
<1>3. CASE TaskPage!ApplyFilters
  <2>1. [dr EXCEPT !.page = 1] \in TaskStates
    BY <1>1, <1>2 DEF TaskStates
  <2>. QED
    BY <1>1, <1>3, <2>1, TasksCommit DEF TaskPage!ApplyFilters, dr
<1>4. CASE TaskPage!ResetFilters
  BY <1>4, TasksAddress, TasksCommit DEF TaskPage!ResetFilters
<1>5. CASE TaskPage!OpenFromMenu
  <2>1. TaskPage!P!Goto(<<>>, TaskPage!Defaults, draft, FALSE)
    BY <1>5 DEF TaskPage!OpenFromMenu, TaskPage!P!OpenFromMenu
  <2>2. AddressTypes'
    BY <1>1, <2>1, TasksAddress, TasksGoto DEF TaskTypes
  <2>4. covered' \in BOOLEAN /\ covered' \in {FALSE, failed'}
    BY <1>5, <2>1, TasksCovered DEF TaskPage!OpenFromMenu, TaskPage!ClearTicks, TaskPage!P!Goto
  <2>3. TickTypes'
    BY <1>5, <2>4 DEF TaskPage!OpenFromMenu, TaskPage!ClearTicks, TaskPage!dialog, TaskPage!estimating,
       TaskTypes, TickTypes
  <2>. QED
    BY <2>2, <2>3 DEF TaskTypes
<1>6. ASSUME NEW r \in Ranges, TaskPage!OnDateChange(r) PROVE TaskTypes'
  <2>1. [dr EXCEPT !.range = r, !.page = 1] \in TaskStates /\ [draft EXCEPT !.range = r] \in TaskDrafts
    BY <1>1, <1>2 DEF TaskStates, TaskDrafts
  <2>. QED
    BY <1>6, <2>1, TasksCommit DEF TaskPage!OnDateChange, dr
<1>7. ASSUME NEW n \in Sizes, TaskPage!HandleSizeChange(n) PROVE TaskTypes'
  <2>1. [dr EXCEPT !.size = n, !.page = 1] \in TaskStates
    BY <1>1, <1>2 DEF TaskStates
  <2>. QED
    BY <1>1, <1>7, <2>1, TasksCommit DEF TaskPage!HandleSizeChange, dr
<1>8. ASSUME NEW p, TaskPage!HandlePageChange(p) PROVE TaskTypes'
  <2>1. p \in 1..Cardinality(Items)
    BY <1>8, TasksPageChosen DEF TaskPage!HandlePageChange
  <2>2. [dr EXCEPT !.page = p] \in TaskStates
    BY <1>2, <2>1 DEF TaskStates
  <2>. QED
    BY <1>1, <1>8, <2>2, TasksCommit DEF TaskPage!HandlePageChange, dr
<1>9. ASSUME NEW f \in ServerFields \cup ClientFields, TaskPage!OnSortChange(f) PROVE TaskTypes'
  <2>. DEFINE o == TaskPage!NextOrder(s.order, f)
              pg == IF f \in ServerFields THEN 1 ELSE dr.page
              t == [dr EXCEPT !.order = o, !.page = pg]
  <2>1. o \in TaskPage!OrdersOver(ServerFields \cup ClientFields)
    BY <1>1, TasksDerived, TasksP!OrdersAreKept DEF TaskStates
  <2>2. pg \in 1..Cardinality(Items)
    BY <1>1, <1>2 DEF TaskStates
  <2>3. TaskPage!Commit(t, draft, early /\ f \notin ServerFields)
    BY <1>9 DEF TaskPage!OnSortChange, dr, s
  <2>. HIDE DEF o, pg
  <2>4. t \in TaskStates
    BY <1>2, <2>1, <2>2 DEF TaskStates
  <2>. HIDE DEF t
  <2>. QED
    BY <1>1, <2>3, <2>4, TasksCommit
<1>. QED
  BY <1>3, <1>4, <1>5, <1>6, <1>7, <1>8, <1>9

\* The rows on the screen are tasks.
LEMMA TasksShown == TaskTypes => TaskPage!DisplayRows \subseteq Items
<1>. SUFFICES ASSUME TaskTypes PROVE TaskPage!DisplayRows \subseteq Items
  OBVIOUS
<1>1. rowsOf = NoRequest \/ rowsOf.range \subseteq Items
  BY FlowsAssumption DEF TaskTypes, AddressTypes, LoadTypes, TaskPage!Requests
<1>. QED
  BY <1>1 DEF TaskPage!DisplayRows, TaskPage!Rows, TaskPage!PageRows

\* The ticks, the dialog and the estimate leave the address alone.
LEMMA TasksTicks ==
  ASSUME TaskTypes,
         \/ \E n \in Names : TaskPage!TypeName(n)
         \/ \E t \in Items : TaskPage!ToggleSelect(t)
         \/ TaskPage!ToggleSelectAll \/ TaskPage!OpenAddDialog \/ TaskPage!CloseAddDialog
         \/ TaskPage!HandleAddToProject \/ TaskPage!AddEnds \/ TaskPage!StartEstimate
         \/ TaskPage!Generated \/ TaskPage!Refreshed \/ TaskPage!EstimateFails
  PROVE  TaskTypes'
<1>. USE DEF TaskTypes, AddressTypes, LoadTypes, TickTypes, TaskPage!page, TaskPage!dialog, TaskPage!estimating,
         TaskPage!state, TaskPage!P!state
<1>1. ASSUME NEW n \in Names, TaskPage!TypeName(n) PROVE TaskTypes'
  <2>1. /\ draft' = [draft EXCEPT !.name = n]
        /\ UNCHANGED <<url, calls, loading, failed, rowsOf, lacking, covered, selected, addOpen, adding, estimate>>
    BY <1>1 DEF TaskPage!TypeName, TaskPage!P!Type, TaskPage!P!load
  <2>2. draft' \in TaskDrafts
    BY <2>1 DEF TaskDrafts
  <2>. QED
    BY <2>1, <2>2
<1>2. ASSUME NEW t \in Items, TaskPage!ToggleSelect(t) PROVE TaskTypes'
  BY <1>2 DEF TaskPage!ToggleSelect
<1>3. CASE TaskPage!ToggleSelectAll
  BY <1>3, TasksShown DEF TaskPage!ToggleSelectAll
<1>4. CASE TaskPage!OpenAddDialog \/ TaskPage!CloseAddDialog
  BY <1>4 DEF TaskPage!OpenAddDialog, TaskPage!CloseAddDialog
<1>5. CASE TaskPage!HandleAddToProject
  BY <1>5 DEF TaskPage!HandleAddToProject, TaskPage!SelectedTasks
<1>6. CASE TaskPage!AddEnds
  BY <1>6 DEF TaskPage!AddEnds
<1>7. CASE TaskPage!StartEstimate
  <2>1. TaskPage!Asked \in TaskPage!Requests
    BY TasksAddress DEF TaskPage!Asked, TaskPage!P!Asked
  <2>2. PICK q : q = TaskPage!Asked
    OBVIOUS
  <2>3. estimate' = <<"generate", q>> /\ q \in TaskPage!Requests
    BY <1>7, <2>1, <2>2 DEF TaskPage!StartEstimate
  <2>4. /\ failed' = FALSE /\ covered' = FALSE
        /\ UNCHANGED <<url, draft, calls, loading, rowsOf, lacking, selected, addOpen, adding>>
    BY <1>7 DEF TaskPage!StartEstimate
  <2>. QED
    BY <2>3, <2>4
<1>8. CASE TaskPage!Generated
  BY <1>8 DEF TaskPage!Generated
<1>9. CASE TaskPage!Refreshed
  BY <1>9 DEF TaskPage!Refreshed
<1>10. CASE TaskPage!EstimateFails
  BY <1>10 DEF TaskPage!EstimateFails
<1>. QED
  BY <1>1, <1>2, <1>3, <1>4, <1>5, <1>6, <1>7, <1>8, <1>9, <1>10

LEMMA TasksStep == TaskTypes /\ TaskPage!Next => TaskTypes'
BY TasksReload, TasksHandlers, TasksTicks DEF TaskPage!Next, TaskPage!UserEvents

LEMMA TasksStart == TaskPage!Init => TaskTypes
<1>. SUFFICES ASSUME TaskPage!Init PROVE TaskTypes
  OBVIOUS
<1>1. /\ url = <<>> /\ draft = TaskPage!P!Refill(TaskPage!Defaults)
      /\ calls = {[of |-> TaskPage!P!Asked, live |-> TRUE]}
      /\ loading = TRUE /\ failed = FALSE /\ rowsOf = NoRequest
      /\ TickTypes
  BY DEF TaskPage!Init, TaskPage!P!Init, TaskPage!P!Load!Init, TaskPage!P!Load!Call, TickTypes
<1>2. TaskPage!state = TaskPage!Defaults
  BY <1>1, TasksAddress DEF TaskPage!state, TaskPage!P!state
<1>3. PICK q : q = TaskPage!P!Asked
  OBVIOUS
<1>4. q \in TaskPage!Requests
  BY <1>2, <1>3, TasksAddress DEF TaskPage!P!Asked, TaskPage!state
<1>5. calls \subseteq [of : TaskPage!Requests, live : BOOLEAN]
  BY <1>1, <1>3, <1>4
<1>. QED
  BY <1>1, <1>2, <1>5, TasksAddress DEF TaskTypes, AddressTypes, LoadTypes

LEMMA TasksTyped == TaskTypes => TaskPage!TypeOK
<1>. SUFFICES ASSUME TaskTypes PROVE TaskPage!TypeOK
  OBVIOUS
<1>1. TaskPage!P!Asked \in TaskPage!Requests
  BY TasksAddress DEF TaskTypes, AddressTypes, TaskPage!state, TaskPage!P!Asked
<1>2. TaskPage!P!Load!TypeOK
  BY <1>1 DEF TaskTypes, AddressTypes, LoadTypes, TaskPage!P!Load!TypeOK
<1>. QED
  BY <1>2, SomeItems DEF TaskTypes, AddressTypes, TickTypes, TaskStates, TaskDrafts, TaskPage!TypeOK,
     TaskPage!Orders

\* The list of projects: the entries of its cache,
ListEntries ==
  /\ data \in [Keys -> {NoData} \cup SUBSET Projects]
  /\ stale \subseteq {k \in Keys : data[k] # NoData}

\* and the steps of its dialogs.
ListDialogs ==
  /\ createOpen \in BOOLEAN
  /\ creating \in {List!Nothing, List!Calling, List!Done} \cup ({"refetching"} \X Keys)
  /\ deleting \in {List!Nothing, List!Calling, List!Done} \cup ({"invalidating", "refetching"} \X Keys)
  /\ ~(createOpen /\ pendingDelete # NoProject)

LEMMA ListEntriesKept ==
  ASSUME ListEntries, Ids, AnswersKnown, NEW k \in Keys,
         \/ List!Cache!Read(k) \/ List!Cache!Settle(k) \/ List!Cache!Fail(k)
         \/ List!Cache!Age(k) \/ List!Cache!Drop(k)
         \/ List!Cache!Observe(k) \/ List!Cache!Refetch(k) \/ List!Cache!InvalidateAll(k)
  PROVE  ListEntries'
<1>. USE DEF ListEntries
<1>1. CASE List!Cache!Read(k) \/ List!Cache!Observe(k) \/ List!Cache!Refetch(k)
  BY <1>1 DEF List!Cache!Read, List!Cache!Observe, List!Cache!Refetch
<1>2. CASE List!Cache!InvalidateAll(k)
  BY <1>2 DEF List!Cache!InvalidateAll, Keys
<1>3. CASE List!Cache!Settle(k)
  <2>1. PICK x : x = flight[k][2]
    OBVIOUS
  <2>2. flight[k] \notin {Idle, Sent} /\ data' = [data EXCEPT ![k] = x] /\ stale' = stale \ {k}
    BY <1>3, <2>1 DEF List!Cache!Settle, List!Cache!Idle, List!Cache!Sent, Idle, Sent
  <2>3. x \subseteq known
    BY <2>1, <2>2 DEF AnswersKnown
  <2>4. x \in SUBSET Projects
    BY <2>3 DEF Ids
  <2>. QED
    BY <2>2, <2>4
<1>4. CASE List!Cache!Fail(k)
  BY <1>4 DEF List!Cache!Fail
<1>5. CASE List!Cache!Age(k)
  BY <1>5 DEF List!Cache!Age
<1>6. CASE List!Cache!Drop(k)
  BY <1>6 DEF List!Cache!Drop
<1>. QED
  BY <1>1, <1>2, <1>3, <1>4, <1>5, <1>6

\* What a step does to the dialogs; behind one of them no other is opened.
LEMMA ListDialogsMove ==
  ASSUME List!Next
  PROVE  /\ createOpen' \in {createOpen, FALSE} \/ (createOpen' = TRUE /\ pendingDelete = NoProject)
         /\ pendingDelete' \in {pendingDelete, NoProject} \/ (~createOpen /\ createOpen' = createOpen)
         /\ pendingDelete' = pendingDelete \/ createOpen' \in {createOpen, FALSE}
         /\ creating' \in {creating, List!Nothing, List!Calling, List!Done, <<"refetching", List!key>>}
         /\ deleting' \in {deleting, List!Nothing, List!Calling, List!Done,
                           <<"invalidating", List!key>>, <<"refetching", List!key>>}
<1>. USE DEF List!cache, List!ids, List!create, List!delete, List!bound, List!Covered
<1>1. CASE List!UserEvents
  BY <1>1 DEF List!UserEvents, List!OnSortChange, List!OpenFromMenu, List!CommitOrder, List!OpenCreate,
     List!CloseCreate, List!HandleCreate, List!AskDelete, List!CancelDelete, List!ConfirmDelete
<1>2. CASE List!CreateStep
  BY <1>2 DEF List!CreateStep, List!CreateInBackend, List!CreateAnswered, List!CreateFails, List!CreateEnds
<1>3. CASE List!DeleteStep
  BY <1>3 DEF List!DeleteStep, List!DeleteInBackend, List!DeleteAnswered, List!DeleteFails,
     List!RefetchAfterDelete, List!DeleteEnds
<1>4. CASE List!TimePasses
  BY <1>4 DEF List!TimePasses
<1>5. ASSUME NEW k, List!FetchStep(k) PROVE UNCHANGED <<createOpen, pendingDelete, creating, deleting>>
  BY <1>5 DEF List!FetchStep
<1>. QED
  BY <1>1, <1>2, <1>3, <1>4, <1>5 DEF List!Next

LEMMA ListDialogsKept ==
  ASSUME ListDialogs, AnswersKnown, List!Next
  PROVE  ListDialogs'
<1>1. PICK k : k = List!key
  OBVIOUS
<1>2. k \in Keys
  BY <1>1, KeyInKeys DEF AnswersKnown, List!key
<1>3. /\ creating' \in {creating, List!Nothing, List!Calling, List!Done, <<"refetching", k>>}
      /\ deleting' \in {deleting, List!Nothing, List!Calling, List!Done,
                        <<"invalidating", k>>, <<"refetching", k>>}
  BY <1>1, ListDialogsMove
<1>4. /\ creating' \in {List!Nothing, List!Calling, List!Done} \cup ({"refetching"} \X Keys)
      /\ deleting' \in {List!Nothing, List!Calling, List!Done} \cup ({"invalidating", "refetching"} \X Keys)
  BY <1>2, <1>3 DEF ListDialogs
<1>5. createOpen' \in BOOLEAN /\ ~(createOpen' /\ pendingDelete' # NoProject)
  BY ListDialogsMove DEF ListDialogs
<1>. QED
  BY <1>4, <1>5 DEF ListDialogs

\* Every step is one of a key, or leaves the cache alone.
LEMMA ListCacheStep ==
  ASSUME Ids, AnswersKnown, AnswersKnown', List!Next
  PROVE  \/ UNCHANGED <<data, stale>>
         \/ \E k \in Keys :
              \/ List!Cache!Read(k) \/ List!Cache!Settle(k) \/ List!Cache!Fail(k)
              \/ List!Cache!Age(k) \/ List!Cache!Drop(k)
              \/ List!Cache!Observe(k) \/ List!Cache!Refetch(k) \/ List!Cache!InvalidateAll(k)
<1>0. List!key \in Keys
  BY KeyInKeys DEF AnswersKnown, List!key
<1>. USE DEF List!cache
<1>1. ASSUME NEW o, List!CommitOrder(o)
      PROVE  UNCHANGED <<data, stale>>
  BY <1>1 DEF List!CommitOrder, List!Cache!Observe
<1>2. CASE List!UserEvents
  BY <1>1, <1>2 DEF List!UserEvents, List!OnSortChange, List!OpenFromMenu, List!OpenCreate,
     List!CloseCreate, List!HandleCreate, List!AskDelete, List!CancelDelete, List!ConfirmDelete
<1>3. CASE List!CreateStep
  BY <1>0, <1>3 DEF List!CreateStep, List!CreateInBackend, List!CreateAnswered, List!CreateFails, List!CreateEnds
<1>4. CASE List!DeleteStep
  BY <1>0, <1>4 DEF List!DeleteStep, List!DeleteInBackend, List!DeleteAnswered, List!DeleteFails,
     List!RefetchAfterDelete, List!DeleteEnds
<1>5. CASE List!TimePasses
  BY <1>0, <1>5 DEF List!TimePasses, List!Cache!Time, List!Cache!Reconnect, Keys
<1>6. ASSUME NEW k \in List!Keys, List!FetchStep(k)
      PROVE  List!Cache!Read(k) \/ List!Cache!Settle(k) \/ List!Cache!Fail(k)
  BY <1>6 DEF List!FetchStep, List!Cache!Fetching
<1>. QED
  BY <1>2, <1>3, <1>4, <1>5, <1>6 DEF List!Next, Keys

ListTypes == ListEntries /\ ListDialogs

LEMMA ListStep ==
  ASSUME ListInv, ListInv', ListTypes, List!Next
  PROVE  ListTypes'
<1>1. ListDialogs'
  BY ListDialogsKept DEF ListInv, ListTypes
<1>2. CASE UNCHANGED <<data, stale>>
  BY <1>1, <1>2 DEF ListTypes, ListEntries
<1>. QED
  BY <1>1, <1>2, ListCacheStep, ListEntriesKept DEF ListInv, ListTypes

LEMMA ListStart == List!Init => ListTypes
BY DEF List!Init, ListTypes, ListEntries, ListDialogs, Keys

LEMMA ListTyped ==
  ASSUME ListInv, ListTypes
  PROVE  List!TypeOK
BY DEF ListInv, Ids, AnswersKnown, ListTypes, ListEntries, ListDialogs, List!TypeOK, Keys

\* Adding a repository to a project: a project that is added to exists, and a check
\* finds conflicts among the commits listed.
AddTypes ==
  /\ Adding!TypeOK
  /\ Existing \subseteq DOMAIN members
  /\ addJob.step \in {"checking", "checked"} =>
       addJob.project \in Existing \cup {NewProject} /\ addJob.ids \subseteq Listed
  /\ addJob.step = "checked" => addJob.found \subseteq addJob.ids
  /\ addJob.step = "adding" =>
       /\ addJob = [step |-> "adding", project |-> addJob.project, only |-> addJob.only]
       /\ addJob.only \subseteq Commits
  /\ addJob.step \in {"checking", "checked", "creating", "created"} => addJob.only \subseteq Commits

LEMMA AddForm ==
  ASSUME Vetting, AddTypes,
         \/ Adding!Open \/ Adding!OnClose \/ Adding!SetWhitelistMode
         \/ \E p \in Existing \cup {NewProject, NoProject} : Adding!SelectProject(p)
         \/ \E c \in Commits : Adding!ToggleWhitelist(c)
  PROVE  AddTypes'
<1>1. /\ UNCHANGED <<members, addJob, presses>>
      /\ selectedProject' \in {selectedProject} \cup Existing \cup {NewProject, NoProject}
      /\ whitelist' \subseteq whitelist \cup Listed
      /\ conflicts' \in {conflicts, {}}
      /\ overtaken' \in {overtaken, Adding!Checking}
  BY DEF Adding!Open, Adding!OnClose, Adding!SetWhitelistMode, Adding!SelectProject, Adding!ToggleWhitelist,
     Adding!form, Adding!check, Adding!history, Adding!ResetConflictCheck
<1>2. overtaken' \in BOOLEAN
  <2>1. Adding!Checking \in BOOLEAN
    BY DEF Adding!Checking
  <2>2. overtaken \in BOOLEAN
    BY DEF AddTypes, Adding!TypeOK
  <2>. QED
    BY <1>1, <2>1, <2>2
<1>. QED
  BY <1>1, <1>2 DEF AddTypes, Adding!TypeOK

\* What a press begins, with what the dialog holds or a check was begun with.
LEMMA AddBegun ==
  ASSUME NEW p \in Existing \cup {NewProject}, NEW only \in SUBSET Commits,
         NEW j, j = Adding!Adding(p, only)
  PROVE  /\ j.step \in {"creating", "adding"} /\ j.only \subseteq Commits
         /\ j.step = "adding" =>
              j.project \in Existing /\ j = [step |-> "adding", project |-> j.project, only |-> j.only]
BY DEF Adding!Adding

LEMMA AddPress ==
  ASSUME Vetting, AddTypes, Adding!HandleConfirm \/ Adding!DoAddAnyway
  PROVE  AddTypes'
<1>1. /\ UNCHANGED <<members, selectedProject, whitelist, conflicts>>
      /\ presses < MaxPresses /\ presses' = presses + 1
      /\ selectedProject \in Existing \cup {NewProject}
      /\ overtaken' \in {overtaken, FALSE}
      /\ \/ addJob' = Adding!Adding(selectedProject, Adding!IncludeOnly)
         \/ addJob' = [step |-> "checking", ids |-> Adding!GetTargetCommitIds,
                       project |-> selectedProject, only |-> Adding!IncludeOnly]
  BY DEF Adding!HandleConfirm, Adding!DoAddAnyway, Adding!Press, Adding!form, Adding!check, Adding!history,
     AddTypes, Adding!TypeOK
<1>2. Adding!GetTargetCommitIds \subseteq Listed /\ Adding!IncludeOnly \subseteq Commits
  BY FlowsAssumption DEF Adding!GetTargetCommitIds, Adding!IncludeOnly
<1>3. CASE addJob' = Adding!Adding(selectedProject, Adding!IncludeOnly)
  <2>1. /\ addJob'.step \in {"creating", "adding"} /\ addJob'.only \subseteq Commits
        /\ addJob'.step = "adding" =>
             /\ addJob'.project \in Existing
             /\ addJob' = [step |-> "adding", project |-> addJob'.project, only |-> addJob'.only]
    BY <1>1, <1>2, <1>3, AddBegun
  <2>2. presses' \in 0..MaxPresses
    BY <1>1, Bounds DEF AddTypes, Adding!TypeOK
  <2>. QED
    BY <1>1, <2>1, <2>2 DEF AddTypes, Adding!TypeOK
<1>4. CASE addJob' = [step |-> "checking", ids |-> Adding!GetTargetCommitIds,
                      project |-> selectedProject, only |-> Adding!IncludeOnly]
  <2>1. presses' \in 0..MaxPresses
    BY <1>1, Bounds DEF AddTypes, Adding!TypeOK
  <2>. QED
    BY <1>1, <1>2, <1>4, <2>1 DEF AddTypes, Adding!TypeOK
<1>. QED
  BY <1>1, <1>3, <1>4

LEMMA AddRequests ==
  ASSUME Vetting, AddTypes, Adding!Backend \/ Adding!Answers
  PROVE  AddTypes'
<1>. USE DEF AddTypes, Adding!TypeOK, Adding!NoJob, Adding!form, Adding!check, Adding!history
<1>1. CASE Adding!CheckProjectConflicts
  <2>1. /\ UNCHANGED <<members, selectedProject, whitelist, conflicts, presses, overtaken>>
        /\ addJob.step = "checking"
        /\ addJob'.step = "checked" /\ addJob'.project = addJob.project
        /\ addJob'.ids = addJob.ids /\ addJob'.only = addJob.only
        /\ addJob'.found \subseteq addJob'.ids
    BY <1>1 DEF Adding!CheckProjectConflicts, Adding!InProjects
  <2>. QED
    BY <2>1
<1>2. CASE Adding!CreateProject
  <2>1. PICK p \in Projects \ DOMAIN members :
          /\ members' = [q \in DOMAIN members \cup {p} |-> IF q = p THEN {} ELSE members[q]]
          /\ addJob' = [step |-> "created", project |-> p, only |-> addJob.only]
    BY <1>2 DEF Adding!CreateProject
  <2>2. UNCHANGED <<selectedProject, whitelist, conflicts, presses, overtaken>> /\ addJob.only \subseteq Commits
    BY <1>2 DEF Adding!CreateProject
  <2>3. DOMAIN members' = DOMAIN members \cup {p} /\ \A q \in DOMAIN members' : members'[q] \subseteq Commits
    BY <2>1
  <2>4. addJob'.step = "created" /\ addJob'.project = p /\ addJob'.only = addJob.only
    BY <2>1
  <2>. QED
    BY <2>2, <2>3, <2>4
<1>3. CASE Adding!ProjectCreated
  BY <1>3 DEF Adding!ProjectCreated
<1>4. CASE Adding!AddRepoToProject
  <2>1. /\ UNCHANGED <<selectedProject, whitelist, conflicts, presses, overtaken>>
        /\ addJob.step = "adding"
        /\ members' = [members EXCEPT ![addJob.project] = @ \cup Adding!Picked(addJob.only)]
        /\ addJob' = [addJob EXCEPT !.step = "added"]
    BY <1>4 DEF Adding!AddRepoToProject
  <2>2. Adding!Picked(addJob.only) \subseteq Commits
    BY <2>1 DEF Adding!Picked
  <2>3. DOMAIN members' = DOMAIN members /\ \A q \in DOMAIN members' : members'[q] \subseteq Commits
    BY <2>1, <2>2
  <2>4. addJob'.step = "added" /\ addJob'.project = addJob.project
    <3>1. addJob = [step |-> "adding", project |-> addJob.project, only |-> addJob.only]
      BY <2>1
    <3>. QED
      BY <2>1, <3>1
  <2>. QED
    BY <2>1, <2>3, <2>4
<1>5. CASE Adding!CheckAnswered
  <2>1. /\ UNCHANGED <<members, selectedProject, whitelist, presses, overtaken>>
        /\ addJob.step = "checked" /\ conflicts' = addJob.found
        /\ addJob' = IF addJob.found # {} THEN Adding!NoJob ELSE Adding!Adding(addJob.project, addJob.only)
    BY <1>5 DEF Adding!CheckAnswered
  <2>2. conflicts' \subseteq Listed
    BY <2>1
  <2>3. CASE addJob.found # {}
    <3>1. addJob' = [step |-> "none"]
      BY <2>1, <2>3
    <3>. QED
      BY <2>1, <2>2, <3>1
  <2>4. CASE addJob' = Adding!Adding(addJob.project, addJob.only)
    <3>1. /\ addJob'.step \in {"creating", "adding"} /\ addJob'.only \subseteq Commits
          /\ addJob'.step = "adding" =>
               /\ addJob'.project \in Existing
               /\ addJob' = [step |-> "adding", project |-> addJob'.project, only |-> addJob'.only]
      BY <2>1, <2>4, AddBegun
    <3>. QED
      BY <2>1, <2>2, <3>1
  <2>. QED
    BY <2>1, <2>3, <2>4
<1>6. CASE Adding!AddAnswered \/ Adding!Fails
  BY <1>6 DEF Adding!AddAnswered, Adding!Fails
<1>. QED
  BY <1>1, <1>2, <1>3, <1>4, <1>5, <1>6 DEF Adding!Backend, Adding!Answers

LEMMA AddStart == Adding!Init => AddTypes
<1>1. Listed \subseteq Commits /\ Existing \subseteq Projects /\ Members \in [Existing -> SUBSET Commits]
  BY FlowsAssumption
<1>. SUFFICES ASSUME Adding!Init PROVE AddTypes
  OBVIOUS
<1>2. addJob.step = "none" /\ presses = 0 /\ overtaken = FALSE
  BY DEF Adding!Init, Adding!NoJob
<1>3. DOMAIN members = Existing /\ \A p \in DOMAIN members : members[p] \subseteq Commits
  BY <1>1 DEF Adding!Init
<1>4. /\ selectedProject \in Existing \cup {NewProject, NoProject}
      /\ whitelist \subseteq Listed /\ conflicts \subseteq Listed
  BY DEF Adding!Init
<1>5. presses \in 0..MaxPresses
  BY <1>2, Bounds
<1>. QED
  BY <1>1, <1>2, <1>3, <1>4, <1>5 DEF AddTypes, Adding!TypeOK

-----------------------------------------------------------------------------
(* All of them.                                                            *)

OtherTypes ==
  /\ flow = "tasks" => TaskTypes
  /\ flow = "projects" => ListTypes
  /\ flow = "repository" => AddTypes

LEMMA OtherTypesAlways == Spec => []OtherTypes
<1>1. Init => OtherTypes
  BY PartsAtStart, TasksStart, ListStart, AddStart DEF OtherTypes
<1>2. OtherTypes /\ ListFacts /\ ListFacts' /\ Repository /\ [Next]_vars => OtherTypes'
  <2>. SUFFICES ASSUME OtherTypes, ListFacts, ListFacts', Repository, [Next]_vars PROVE OtherTypes'
    OBVIOUS
  <2>0. flow' = flow
    BY PartsStep
  <2>1. ASSUME flow = "tasks" PROVE TaskTypes'
    <3>1. CASE TaskPage!Next
      BY <2>1, <3>1, TasksStep DEF OtherTypes
    <3>2. CASE UNCHANGED vars
      BY <2>1, <3>2 DEF vars, ofTasks, OtherTypes, TaskTypes, AddressTypes, LoadTypes, TickTypes,
         TaskPage!state, TaskPage!P!state
    <3>. QED
      BY <2>1, <3>1, <3>2, PartsStep
  <2>2. ASSUME flow = "projects" PROVE ListTypes'
    <3>1. CASE List!Next
      BY <2>0, <2>2, <3>1, ListStep DEF OtherTypes, ListFacts, ListInv
    <3>2. CASE UNCHANGED vars
      BY <2>2, <3>2 DEF vars, ofList, cache, OtherTypes, ListTypes, ListEntries, ListDialogs
    <3>. QED
      BY <2>2, <3>1, <3>2, PartsStep
  <2>3. ASSUME flow = "repository" PROVE AddTypes'
    <3>1. CASE Adding!Next
      BY <2>3, <3>1, AddForm, AddPress, AddRequests DEF OtherTypes, Repository, Adding!Next, Adding!UserEvents
    <3>2. CASE UNCHANGED vars
      BY <2>3, <3>2 DEF vars, ofRepo, OtherTypes, AddTypes, Adding!TypeOK
    <3>. QED
      BY <2>3, <3>1, <3>2, PartsStep
  <2>. QED
    BY <2>0, <2>1, <2>2, <2>3 DEF OtherTypes
<1>. QED
  BY <1>1, <1>2, ListAlways, RepositoryAlways, PTL DEF Spec

\* The page of a project, of either user.
LEMMA PageTyped ==
  ASSUME PageTypes
  PROVE  /\ submits \in 0..MaxSubmits => Waiting!TypeOK
         /\ submits \in 0..MaxHurried => Hurried!TypeOK
<1>1. /\ repos \in Seq(Repos) /\ added \subseteq Tasks /\ saved \subseteq Repos
      /\ data["detail"] \in {NoData} \cup Pages
      /\ dialog.form \in Forms \cup {"none"}
      /\ doubt \in BOOLEAN /\ guess \in BOOLEAN
  BY FormsAndSlots DEF PageTypes, DialogOf
<1>2. ASSUME NEW f \in Slots
      PROVE  /\ forms[f].step \in {"none", "sent", "read", "updated", "done", "reloading"}
             /\ forms[f].step \in {"sent", "read", "updated", "done"} => Len(forms[f].todo) \in 1..2
             /\ forms[f].step = "reloading" => forms[f].saves \subseteq Repos
  <2>1. JobOf(forms[f])
    BY DEF PageTypes
  <2>2. ASSUME Todo(forms[f].todo) PROVE Len(forms[f].todo) \in 1..2
    BY <2>2, TodoShape
  <2>. QED
    BY <2>1, <2>2 DEF JobOf
<1>3. /\ Waiting!Forms = Forms /\ Hurried!Forms = Forms
      /\ Waiting!Slots = Slots /\ Hurried!Slots = Slots
  BY DEF Forms, Slots, Waiting!Forms, Hurried!Forms, Waiting!Slots, Hurried!Slots
<1>. QED
  BY <1>1, <1>2, <1>3 DEF Waiting!TypeOK, Hurried!TypeOK, Waiting!detail, Hurried!detail, Pages

\* Every part of the interface only ever holds what its TypeOK says, whatever fails
\* and whoever uses it.
THEOREM PartsAreTyped == Spec => []TypeOK
<1>1. PageFacts /\ FigureFacts /\ FetchFacts /\ ListFacts /\ OtherTypes => TypeOK
  <2>. SUFFICES ASSUME PageFacts, FigureFacts, FetchFacts, ListFacts, OtherTypes PROVE TypeOK
    OBVIOUS
  <2>1. flow = "tasks" => TaskPage!TypeOK
    BY TasksTyped DEF OtherTypes
  <2>2. flow = "projects" => List!TypeOK
    BY ListTyped DEF OtherTypes, ListFacts, ListInv
  <2>3. /\ flow = "project" => Waiting!TypeOK
        /\ flow = "project, hurried" => Hurried!TypeOK
    BY PageTyped DEF PageFacts, AnyUser
  <2>4. flow = "repository" => Adding!TypeOK
    BY DEF OtherTypes, AddTypes
  <2>5. flow \in OfFigures => OfTask!TypeOK
    BY DEF FigureFacts, FigureTypes, OfFigures
  <2>6. flow = "fetch" => Fetch!TypeOK
    BY DEF FetchFacts, FetchTypes
  <2>. QED
    BY <2>1, <2>2, <2>3, <2>4, <2>5, <2>6 DEF TypeOK
<1>. QED
  BY <1>1, PageAlways, FiguresAlways, FetchAlways, ListAlways, OtherTypesAlways, PTL
=============================================================================
