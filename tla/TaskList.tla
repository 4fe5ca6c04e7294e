------------------------------- MODULE TaskList -------------------------------
(***************************************************************************)
(* The task list (frontend-react pages/tasks/TaskList.tsx). The query      *)
(* string is the state of the page: dates, page, page size, order and the  *)
(* filter by name. Dates, page and the order of server columns go to the   *)
(* backend; the filter by name and the order of client columns work on the *)
(* rows of the page shown. Rows can be ticked and sent to a project, and   *)
(* missing estimates can be generated, which fetches the page once more.   *)
(* All of them report in one line above the table, errMsg: the outcome told*)
(* last stands there. The filters by organisation, which no field of the   *)
(* page sets, only an address written by hand, are left out.               *)
(*                                                                         *)
(* A task is a number, a date range or a name the set of tasks it matches. *)
(***************************************************************************)
EXTENDS ListOrder

CONSTANTS
  Tasks, Ranges, DefaultRange, Names,   \* what can be filtered by; Tasks: no filter
  Sizes, DefaultSize,
  ServerFields, ClientFields,           \* sortable columns
  NoRequest, Pending,
  MaxCommits, MaxCalls, MaxEstimates    \* bounds of the model on changes of the
                                        \*   address, on requests under way and
                                        \*   on runs of the estimate

VARIABLES
  url, draft, calls, loading, failed, rowsOf, commits, meant, early, \* see UrlPage
  lacking,            \* some row held has no estimate
  covered,            \* where it said that the load had failed, errMsg tells
                      \*   the outcome of an addition or an estimate
  selected,           \* ticked tasks
  addOpen, adding,    \* the dialog is open; the set of tasks it is sending, in <<>>
  estimate,           \* the run of the estimate: step and captured request
  estimates

page == <<url, draft, calls, loading, failed, rowsOf, commits, meant, early>>
dialog == <<addOpen, adding>>
estimating == <<estimate, estimates>>
vars == <<page, lacking, covered, selected, dialog, estimating>>

Orders == OrdersOver(ServerFields \cup ClientFields)
Defaults == [range |-> DefaultRange, page |-> 1, size |-> DefaultSize,
             order |-> NoOrder, name |-> Tasks]

\* Reading the query string fills in defaults, writing it leaves them out
\* (but for the dates, which are always written).
StateFromParams(u) ==
  [k \in DOMAIN Defaults |-> IF k \in DOMAIN u THEN u[k] ELSE Defaults[k]]

BuildQuery(s) ==
  [k \in {p \in DOMAIN s : p = "range" \/ s[p] # Defaults[p]} |-> s[k]]

\* Only server columns are part of the request.
BuildParams(s) ==
  [range |-> s.range, page |-> s.page, size |-> s.size,
   order |-> IF s.order.field \in ServerFields THEN s.order ELSE NoOrder]

Requests == [range : Ranges, page : 1..Cardinality(Tasks), size : Sizes,
             order : OrdersOver(ServerFields)]

P == INSTANCE UrlPage WITH Read <- StateFromParams, Write <- BuildQuery,
       Params <- BuildParams, Fields <- {"range", "name"}

state == P!state
Asked == P!Asked

-----------------------------------------------------------------------------
\* What the component derives from its state.

Rows == IF rowsOf = NoRequest THEN {}
        ELSE PageRows(rowsOf.range, rowsOf.page, rowsOf.size, rowsOf.order.desc)
Total == IF rowsOf = NoRequest THEN 0 ELSE Cardinality(rowsOf.range)
DisplayRows == Rows \cap state.name
SelectedTasks == selected \cap DisplayRows
AllSelected == DisplayRows # {} /\ DisplayRows \subseteq selected

\* The body of the table; under the skeleton no row can be clicked.
TableRows == IF loading THEN {} ELSE DisplayRows

-----------------------------------------------------------------------------
\* The handlers. Behind the open dialog nothing of the page can be reached.

\* The effect that loads the rows of a new query string clears the ticks and errMsg.
ClearTicks ==
  /\ selected' = IF url' = url THEN selected ELSE {}
  /\ covered' = (covered /\ url' = url)

Commit(s, d, pickedEarly) ==
  /\ ~addOpen
  /\ P!Commit(s, d, pickedEarly)
  /\ ClearTicks
  /\ UNCHANGED <<lacking, dialog, estimating>>

TypeName(n) == P!Type("name", n) /\ UNCHANGED <<lacking, covered, selected, dialog, estimating>>

ApplyFilters == ~loading /\ Commit([P!Drafted EXCEPT !.page = 1], draft, FALSE)

\* Reset empties the fields at once, also when the address stays the same.
ResetFilters == Commit(Defaults, P!Refill(Defaults), FALSE)

OnDateChangeKeepsPage(r) ==     \* faulty: the page is not reset
  Commit([P!Drafted EXCEPT !.range = r], [draft EXCEPT !.range = r], early)
OnDateChange(r) ==
  Commit([P!Drafted EXCEPT !.range = r, !.page = 1], [draft EXCEPT !.range = r], FALSE)

HandleSizeChange(n) == Commit([P!Drafted EXCEPT !.size = n, !.page = 1], draft, FALSE)

HandlePageChange(p) ==
  /\ p \in Reachable(state.page, Total, state.size)
  /\ Commit([P!Drafted EXCEPT !.page = p], draft, loading \/ early)

\* Server columns restart at page 1, client columns keep the page.
OnSortChange(field) ==
  Commit([P!Drafted EXCEPT !.order = NextOrder(state.order, field),
                           !.page = IF field \in ServerFields THEN 1 ELSE @],
         draft, early /\ field \notin ServerFields)

OpenFromMenu ==
  /\ ~addOpen
  /\ P!OpenFromMenu
  /\ ClearTicks
  /\ UNCHANGED <<lacking, dialog, estimating>>

Reload ==
  /\ P!Reload
  /\ lacking' = FALSE /\ covered' = FALSE /\ selected' = {} /\ adding' = <<>> /\ addOpen' = FALSE
  /\ estimate' = <<>>
  /\ UNCHANGED estimates

LoadEnds(c) ==
  /\ P!LoadEnds(c)
  /\ lacking' \in IF ~c.live THEN {lacking}
                  ELSE IF rowsOf' = NoRequest THEN {FALSE} ELSE BOOLEAN
  /\ UNCHANGED <<covered, selected, dialog, estimating>>

-----------------------------------------------------------------------------
\* Ticks and the dialog "add to project".

ToggleSelect(t) ==
  /\ ~addOpen /\ t \in TableRows
  /\ selected' = IF t \in selected THEN selected \ {t} ELSE selected \cup {t}
  /\ UNCHANGED <<page, lacking, covered, dialog, estimating>>

\* The box in the header is there under the skeleton too.
ToggleSelectAll ==
  /\ ~addOpen /\ DisplayRows # {}
  /\ selected' = IF AllSelected THEN selected \ DisplayRows ELSE selected \cup DisplayRows
  /\ UNCHANGED <<page, lacking, covered, dialog, estimating>>

OpenAddDialog ==
  /\ ~addOpen /\ SelectedTasks # {}
  /\ addOpen' = TRUE
  /\ UNCHANGED <<page, lacking, covered, selected, adding, estimating>>

CloseAddDialog ==
  /\ addOpen /\ addOpen' = FALSE
  /\ UNCHANGED <<page, lacking, covered, selected, adding, estimating>>

\* The tasks are those selected when the button is pressed.
HandleAddToProject ==
  /\ addOpen /\ adding = <<>>
  /\ adding' = <<SelectedTasks>>
  /\ UNCHANGED <<page, lacking, covered, selected, addOpen, estimating>>

\* Success closes the dialog, clears the selected, whichever are there now, and is
\* told in errMsg; a failure is told in the dialog.
AddEnds ==
  /\ adding # <<>>
  /\ adding' = <<>>
  /\ \/ addOpen' = FALSE /\ selected' = {} /\ covered' = failed
     \/ UNCHANGED <<addOpen, selected, covered>>
  /\ UNCHANGED <<page, lacking, estimating>>

-----------------------------------------------------------------------------
\* runEstimate: generate what is missing, then fetch "the current page" - the
\* one the button was pressed on. No run of the effect can abort it.

StartEstimate ==
  /\ ~addOpen /\ lacking /\ estimate = <<>> /\ estimates < MaxEstimates
  /\ estimates' = estimates + 1
  /\ estimate' = <<"generate", Asked>>
  /\ failed' = FALSE /\ covered' = FALSE
  /\ UNCHANGED <<url, draft, calls, loading, rowsOf, commits, meant, early,
                 lacking, selected, dialog>>

Generated ==
  /\ estimate # <<>> /\ estimate[1] = "generate"
  /\ estimate' = <<"fetch", estimate[2]>>
  /\ UNCHANGED <<page, lacking, covered, selected, dialog, estimates>>

Refreshed ==
  /\ estimate # <<>> /\ estimate[1] = "fetch"
  /\ rowsOf' = estimate[2]
  /\ failed' = FALSE /\ covered' = FALSE
  /\ lacking' \in BOOLEAN
  /\ estimate' = <<>>
  /\ UNCHANGED <<url, draft, calls, loading, commits, meant, early, selected, dialog, estimates>>

EstimateFails ==
  /\ estimate # <<>>
  /\ estimate' = <<>>
  /\ covered' = failed
  /\ UNCHANGED <<page, lacking, selected, dialog, estimates>>

-----------------------------------------------------------------------------
Init ==
  /\ P!Init
  /\ lacking = FALSE /\ covered = FALSE /\ selected = {} /\ addOpen = FALSE /\ adding = <<>>
  /\ estimate = <<>> /\ estimates = 0

\* What the element tree of the page offers.
UserEvents ==
  \/ \E n \in Names : TypeName(n)
  \/ ApplyFilters \/ ResetFilters \/ OpenFromMenu \/ Reload
  \/ \E r \in Ranges : OnDateChange(r)
  \/ \E n \in Sizes : HandleSizeChange(n)
  \/ \E p \in 0..Cardinality(Tasks) + 1 : HandlePageChange(p)
  \/ \E f \in ServerFields \cup ClientFields : OnSortChange(f)
  \/ \E t \in Tasks : ToggleSelect(t)
  \/ ToggleSelectAll
  \/ OpenAddDialog \/ CloseAddDialog \/ HandleAddToProject
  \/ StartEstimate

Next ==
  \/ UserEvents
  \/ \E c \in calls : LoadEnds(c)
  \/ AddEnds \/ Generated \/ Refreshed \/ EstimateFails

Spec == Init /\ [][Next]_vars

-----------------------------------------------------------------------------

TypeOK ==
  /\ state \in [range : Ranges, page : 1..Cardinality(Tasks), size : Sizes,
               order : Orders, name : Names]
  /\ draft \in [range : Ranges, name : Names]
  /\ P!Load!TypeOK
  /\ selected \subseteq Tasks /\ addOpen \in BOOLEAN /\ lacking \in BOOLEAN
  /\ covered \in BOOLEAN /\ (covered => failed)
  /\ adding = <<>> \/ adding \in {<<ts>> : ts \in SUBSET Tasks}

\* A page that shows no row is the first one: every handler that changes what
\* matches goes back to page 1. The exception is a page picked while other
\* rows were still being replaced: its button was drawn for their total.
NoEmptyPage ==
  (~loading /\ ~failed /\ ~early /\ state.page > 1) => Rows # {}

\* What is sent to a project was on the screen when the button was pressed:
\* ticks on rows that have been replaced do not count.
AddsVisible == adding' # adding /\ adding' # <<>> => adding'[1] \subseteq DisplayRows
=============================================================================
