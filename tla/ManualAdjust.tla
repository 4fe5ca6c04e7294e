----------------------------- MODULE ManualAdjust -----------------------------
(***************************************************************************)
(* The figures of a task, a commit or a project that people correct by hand*)
(* (frontend-react pages/tasks/TaskDetail.tsx, pages/commits/              *)
(* CommitDetail.tsx and pages/projects/ProjectDetail.tsx, "manual"): a     *)
(* figure computed by kbcli and beside it a manual one, which is shown     *)
(* instead where there is one. The dialog is filled from the page and      *)
(* always saves all its figures. An empty figure of a task or a commit     *)
(* clears the manual one, of a project it leaves it.                       *)
(***************************************************************************)
EXTENDS Naturals

CONSTANTS
  Figures, Values,      \* e.g. the real and the estimated minutes; minutes
  None, NoData,
  Clears,               \* an empty figure clears the manual one
  Columns,              \* columns of the table for manual figures
  Patient,              \* the user opens the dialog only when the page is at rest
  MaxSaves, MaxRuns     \* bounds of the model

VARIABLES
  auto, manual,         \* figure -> value in the database
  data, stale, flight,  \* see QueryCache
  open, draft,          \* the dialog and its inputs
  job,                  \* the request to save
  saves, runs,
  last                  \* history: what was saved last

cache == <<data, stale, flight>>
vars == <<auto, manual, cache, open, draft, job, saves, runs, last>>

detail == "detail"
Cache == INSTANCE QueryCache WITH
           Keys <- {detail}, held <- [k \in {detail} |-> [auto |-> auto, manual |-> manual]]
Shown == data[detail]
Cells == [Figures -> Values \cup {None}]

\* The columns the statement sets. AutoMigrate calls that of the reason
\* "reason_manual": a table it made lacks one of these, an older one has it.
SetColumns == {"minutes_manual", "minutes_reason_manual"}

\* A manual figure before a computed one: what the page shows and the dialog
\* is filled with.
Effective(row) == [f \in Figures |-> IF row.manual[f] # None THEN row.manual[f] ELSE row.auto[f]]
Prefill == Effective(Shown)

NoJob == [step |-> "none"]
Resting == flight[detail] = Cache!Idle /\ job = NoJob
-----------------------------------------------------------------------------
OpenDialog ==
  /\ Shown # NoData /\ ~open
  /\ Patient => Resting
  /\ open' = TRUE /\ draft' = Prefill
  /\ UNCHANGED <<auto, manual, cache, job, saves, runs, last>>

OnClose ==
  /\ open /\ open' = FALSE
  /\ UNCHANGED <<auto, manual, cache, draft, job, saves, runs, last>>

Enter(f, v) ==
  /\ open /\ draft' = [draft EXCEPT ![f] = v]
  /\ UNCHANGED <<auto, manual, cache, open, job, saves, runs, last>>

HandleSubmit ==
  /\ open /\ job = NoJob /\ saves < MaxSaves
  /\ job' = [step |-> "sent", figures |-> draft] /\ saves' = saves + 1
  /\ last' = NoData
  /\ UNCHANGED <<auto, manual, cache, open, draft, runs>>

UpdateManualNotEmpty ==       \* faulty: an empty figure of a task is not written either
  /\ job.step = "sent"
  /\ manual' = [f \in Figures |-> IF job.figures[f] # None THEN job.figures[f] ELSE manual[f]]
  /\ job' = [job EXCEPT !.step = "done"]
  /\ UNCHANGED <<auto, cache, open, draft, saves, runs, last>>
UpdateManual ==
  /\ job.step = "sent" /\ SetColumns \subseteq Columns
  /\ manual' = [f \in Figures |->
                  IF job.figures[f] # None \/ Clears THEN job.figures[f] ELSE manual[f]]
  /\ job' = [job EXCEPT !.step = "done"]
  /\ UNCHANGED <<auto, cache, open, draft, saves, runs, last>>

Answered ==
  /\ job.step = "done" /\ open' = FALSE
  /\ Cache!InvalidateAll(detail)
  /\ job' = [job EXCEPT !.step = "reloading"]
  /\ last' = job.figures
  /\ UNCHANGED <<auto, manual, draft, saves, runs>>

\* The database does not know a column the statement names: nothing is written.
Refuse ==
  /\ job.step = "sent" /\ ~(SetColumns \subseteq Columns)
  /\ job' = [job EXCEPT !.step = "refused"]
  /\ UNCHANGED <<auto, manual, cache, open, draft, saves, runs, last>>

\* The dialog shows an error and stays as it is; nothing is fetched. When only
\* the answer was lost the figures are in the database all the same.
Failed ==
  /\ job.step \in {"sent", "done", "refused"}
  /\ job' = NoJob
  /\ UNCHANGED <<auto, manual, cache, open, draft, saves, runs, last>>

Reloaded ==
  /\ job.step = "reloading" /\ flight[detail] = Cache!Idle /\ job' = NoJob
  /\ UNCHANGED <<auto, manual, cache, open, draft, saves, runs, last>>

\* An answer that differs from what is shown fills an open dialog anew.
FetchStep ==
  /\ Cache!Read(detail) \/ Cache!Settle(detail)
  /\ draft' = IF open /\ data' # data THEN Prefill' ELSE draft
  /\ UNCHANGED <<auto, manual, open, job, saves, runs, last>>

TimePasses ==
  /\ Cache!Time(detail, IF job.step = "reloading" THEN {detail} ELSE {})
  /\ UNCHANGED <<auto, manual, open, draft, job, saves, runs, last>>

\* kbcli computes the figures again; it never writes the manual ones.
Recalculate ==
  /\ runs < MaxRuns /\ runs' = runs + 1
  /\ \E f \in Figures, v \in Values : auto' = [auto EXCEPT ![f] = v]
  /\ UNCHANGED <<manual, cache, open, draft, job, saves, last>>

UserEvents ==
  \/ OpenDialog \/ OnClose
  \/ \E f \in Figures, v \in Values \cup {None} : Enter(f, v)
  \/ HandleSubmit

JobStep == UpdateManual \/ Refuse \/ Answered \/ Failed \/ Reloaded

Next == UserEvents \/ JobStep \/ FetchStep \/ TimePasses \/ Recalculate

Init ==
  /\ auto \in Cells /\ manual = [f \in Figures |-> None]
  /\ data = [k \in {detail} |-> NoData] /\ stale = {}
  /\ flight = [k \in {detail} |-> Cache!Sent]
  /\ open = FALSE /\ draft = [f \in Figures |-> None]
  /\ job = NoJob /\ saves = 0 /\ runs = 0
  /\ last = [f \in Figures |-> None]

Spec == Init /\ [][Next]_vars
-----------------------------------------------------------------------------

\* A request carries a value or nothing for each figure.
TypeOK ==
  /\ auto \in Cells /\ manual \in Cells /\ draft \in Cells
  /\ data[detail] \in {NoData} \cup [auto : Cells, manual : Cells]
  /\ job.step \in {"none", "sent", "refused", "done", "reloading"}
  /\ last \in Cells \cup {NoData}
  /\ job.step \in {"sent", "refused", "done"} => job.figures \in Cells
  /\ open => Shown # NoData

\* Once the page is at rest after a save that was confirmed it shows what was
\* saved, however closing and opening the dialog, earlier saves that failed, the
\* reload and new runs of kbcli were interleaved; of a task or a commit also that
\* a figure was emptied.
SavedIsShown ==
  Resting /\ last # NoData =>
    \A f \in Figures : last[f] # None \/ Clears => Shown.manual[f] = last[f]

\* The button of the dialog, disabled from the request to the end of the reload,
\* comes back, also when the backend refuses or does not answer.
ButtonComesBack == job # NoJob ~> job = NoJob
=============================================================================
