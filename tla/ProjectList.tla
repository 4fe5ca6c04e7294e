------------------------------ MODULE ProjectList ------------------------------
(***************************************************************************)
(* The list of projects (frontend-react pages/projects/ProjectList.tsx):   *)
(* its rows come from the query cache, under a key of their own for every  *)
(* order the backend sorts by. Projects are created and deleted in dialogs,*)
(* which take requests of their own; a dialog can be closed while its      *)
(* request is under way, and the page be used meanwhile. One client.       *)
(***************************************************************************)
EXTENDS ListOrder

CONSTANTS
  Projects, Present,            \* that can exist; that exist at first
  ServerFields, ClientFields,
  NoProject, NoData,
  MaxJobs                       \* bound of the model on creations and deletions

VARIABLES
  projects,                 \* in the database
  order,                    \* in the address
  data, stale, flight,      \* see QueryCache
  createOpen, creating,     \* the dialog; step of its request: none, calling,
                            \*   done (in the backend), refetching and the key
  pendingDelete,            \* the project the delete dialog is open for
  deleting, victim,         \* step of the deletion; its project
  jobs,                     \* creations and deletions so far
  created, known,           \* history: the project created last; all there
                            \*   have been, for an id is never given twice
  shows, lacks,             \* history: projects the rows on the screen must show
                            \*   and lack, once fetched
  gone, crossed             \* history: deleted for the client; keys whose fetch
                            \*   was under way then

cache == <<data, stale, flight>>
ids == <<created, known>>
create == <<createOpen, creating, ids>>
delete == <<pendingDelete, deleting, victim, gone, crossed>>
bound == <<shows, lacks>>
vars == <<projects, order, cache, create, delete, bound, jobs>>

Orders == OrdersOver(ServerFields \cup ClientFields)

\* serverOrder: the key only knows the orders of the backend.
KeyOf(o) == IF o.field \in ServerFields THEN o ELSE NoOrder
Keys == {KeyOf(o) : o \in Orders}
key == KeyOf(order)

Cache == INSTANCE QueryCache WITH held <- [k \in Keys |-> projects]

Rows == IF data[key] = NoData THEN {} ELSE data[key]
TableRows == IF Cache!Loading(key) THEN {} ELSE Rows
Covered == createOpen \/ pendingDelete # NoProject      \* by a dialog

Nothing == <<"none">>
Calling == <<"calling">>
Done == <<"done">>

Unbound == shows' = {} /\ lacks' = {}

-----------------------------------------------------------------------------
CommitOrder(o) ==
  /\ ~Covered
  /\ order' = o
  /\ IF KeyOf(o) = key THEN UNCHANGED <<cache, bound>> ELSE Cache!Observe(KeyOf(o)) /\ Unbound
  /\ UNCHANGED <<projects, create, delete, jobs>>

OnSortChange(field) == CommitOrder(NextOrder(order, field))
OpenFromMenu == CommitOrder(NoOrder)

\* Creation: the request, then the dialog closes and the key on the screen is
\* fetched again. A dialog closed early may have been opened once more.
OpenCreateAnywhere ==         \* faulty: the page stays open to clicks behind a dialog
  /\ createOpen' = TRUE
  /\ UNCHANGED <<projects, order, cache, creating, ids, delete, bound, jobs>>
OpenCreate ==
  /\ ~Covered /\ createOpen' = TRUE
  /\ UNCHANGED <<projects, order, cache, creating, ids, delete, bound, jobs>>

CloseCreate ==
  /\ createOpen /\ createOpen' = FALSE
  /\ UNCHANGED <<projects, order, cache, creating, ids, delete, bound, jobs>>

HandleCreate ==
  /\ createOpen /\ creating = Nothing /\ jobs < MaxJobs
  /\ creating' = Calling /\ jobs' = jobs + 1
  /\ UNCHANGED <<projects, order, cache, createOpen, ids, delete, bound>>

CreateInBackend ==
  /\ creating = Calling /\ creating' = Done
  /\ \E p \in Projects \ known :
        projects' = projects \cup {p} /\ created' = p /\ known' = known \cup {p}
  /\ UNCHANGED <<order, cache, createOpen, delete, bound, jobs>>

CreateAnswered ==
  /\ creating = Done /\ creating' = <<"refetching", key>>
  /\ createOpen' = FALSE
  /\ Cache!Refetch(key)
  /\ shows' = IF Cache!Loading(key) THEN shows ELSE shows \cup ({created} \cap projects)
  /\ UNCHANGED <<projects, order, ids, delete, lacks, jobs>>

\* The request is refused or times out, carried out or not: the dialog stays.
CreateFails ==
  /\ creating \in {Calling, Done} /\ creating' = Nothing
  /\ UNCHANGED <<projects, order, cache, createOpen, ids, delete, bound, jobs>>

CreateEnds ==
  /\ creating[1] = "refetching" /\ flight[creating[2]] = Cache!Idle
  /\ creating' = Nothing
  /\ UNCHANGED <<projects, order, cache, createOpen, ids, delete, bound, jobs>>

-----------------------------------------------------------------------------
\* Deletion: the request, then every key is invalidated and the one on the
\* screen fetched again; and then once more, for the fetch just awaited may
\* have been the first of its key, begun before the deletion.
AskDelete(p) ==
  /\ ~Covered /\ p \in TableRows
  /\ pendingDelete' = p
  /\ UNCHANGED <<projects, order, cache, create, deleting, victim, gone, crossed, bound, jobs>>

CancelDelete ==
  /\ pendingDelete # NoProject /\ pendingDelete' = NoProject
  /\ UNCHANGED <<projects, order, cache, create, deleting, victim, gone, crossed, bound, jobs>>

ConfirmDelete ==
  /\ pendingDelete # NoProject /\ deleting = Nothing /\ jobs < MaxJobs
  /\ deleting' = Calling /\ victim' = pendingDelete /\ jobs' = jobs + 1
  /\ UNCHANGED <<projects, order, cache, create, pendingDelete, gone, crossed, bound>>

DeleteInBackend ==
  /\ deleting = Calling /\ deleting' = Done
  /\ projects' = projects \ {victim}
  /\ shows' = shows \ {victim}
  /\ UNCHANGED <<order, cache, create, pendingDelete, victim, gone, crossed, lacks, jobs>>

\* Whichever delete dialog is open now closes.
DeleteAnsweredOneKey ==       \* faulty: only the key on the screen is fetched again
  /\ deleting = Done /\ deleting' = <<"invalidating", key>>
  /\ pendingDelete' = NoProject
  /\ Cache!Refetch(key)
  /\ gone' = gone \cup {victim}
  /\ crossed' = crossed \cup {k \in Keys : flight[k] # Cache!Idle /\ (k = key => Cache!Loading(k))}
  /\ UNCHANGED <<projects, order, create, victim, bound, jobs>>
DeleteAnswered ==
  /\ deleting = Done /\ deleting' = <<"invalidating", key>>
  /\ pendingDelete' = NoProject
  /\ Cache!InvalidateAll(key)
  /\ gone' = gone \cup {victim}
  /\ crossed' = crossed \cup {k \in Keys : flight[k] # Cache!Idle /\ (k = key => Cache!Loading(k))}
  /\ UNCHANGED <<projects, order, create, victim, bound, jobs>>

DeleteFailsSilently ==        \* faulty: no `finally`, a failure leaves the button disabled
  /\ deleting \in {Calling, Done} /\ deleting' = <<"lost">>
  /\ UNCHANGED <<projects, order, cache, create, pendingDelete, victim, gone, crossed, bound, jobs>>
DeleteFails ==
  /\ deleting \in {Calling, Done} /\ deleting' = Nothing
  /\ UNCHANGED <<projects, order, cache, create, pendingDelete, victim, gone, crossed, bound, jobs>>

RefetchOnce ==                \* faulty: the second fetch is left out
  /\ deleting[1] = "invalidating" /\ flight[deleting[2]] = Cache!Idle
  /\ deleting' = <<"refetching", key>>
  /\ lacks' = IF Cache!Loading(key) THEN lacks ELSE lacks \cup {victim}
  /\ UNCHANGED <<projects, order, cache, create, pendingDelete, victim, gone, crossed, shows, jobs>>
RefetchAfterDelete ==
  /\ deleting[1] = "invalidating" /\ flight[deleting[2]] = Cache!Idle
  /\ deleting' = <<"refetching", key>>
  /\ Cache!Refetch(key)
  /\ lacks' = IF Cache!Loading(key) THEN lacks ELSE lacks \cup {victim}
  /\ UNCHANGED <<projects, order, create, pendingDelete, victim, gone, crossed, shows, jobs>>

DeleteEnds ==
  /\ deleting[1] = "refetching" /\ flight[deleting[2]] = Cache!Idle
  /\ deleting' = Nothing
  /\ UNCHANGED <<projects, order, cache, create, pendingDelete, victim, gone, crossed, bound, jobs>>

-----------------------------------------------------------------------------
FetchStep(k) ==
  /\ Cache!Fetching(k)
  /\ IF k = key /\ Cache!Fail(k) THEN Unbound ELSE UNCHANGED bound
  /\ UNCHANGED <<projects, order, create, delete, jobs>>

\* What creations and deletions wait for.
Awaited == {j[2] : j \in {i \in {creating, deleting} : Len(i) = 2}}
TimePasses == Cache!Time(key, Awaited) /\ UNCHANGED <<projects, order, create, delete, bound, jobs>>

CreateStep == CreateInBackend \/ CreateAnswered \/ CreateFails \/ CreateEnds
DeleteStep == DeleteInBackend \/ DeleteAnswered \/ DeleteFails \/ RefetchAfterDelete \/ DeleteEnds

\* What the element tree of the page offers.
UserEvents ==
  \/ \E f \in ServerFields \cup ClientFields : OnSortChange(f)
  \/ OpenFromMenu
  \/ OpenCreate \/ CloseCreate \/ HandleCreate
  \/ \E p \in Projects : AskDelete(p)
  \/ CancelDelete \/ ConfirmDelete

Next ==
  \/ UserEvents \/ CreateStep \/ DeleteStep \/ TimePasses
  \/ \E k \in Keys : FetchStep(k)

Init ==
  /\ projects = Present /\ order = NoOrder
  /\ data = [k \in Keys |-> NoData] /\ stale = {}
  /\ flight = [k \in Keys |-> IF k = NoOrder THEN Cache!Sent ELSE Cache!Idle]
  /\ createOpen = FALSE /\ creating = Nothing /\ jobs = 0
  /\ created = NoProject /\ known = Present
  /\ pendingDelete = NoProject /\ deleting = Nothing /\ victim = NoProject
  /\ gone = {} /\ crossed = {}
  /\ shows = {} /\ lacks = {}

Spec == Init /\ [][Next]_vars

\* Every request and every fetch ends, answered or timed out; the user owes nothing.
FairSpec ==
  /\ Spec
  /\ WF_vars(CreateStep) /\ WF_vars(DeleteStep)
  /\ \A k \in Keys : WF_vars(FetchStep(k))
-----------------------------------------------------------------------------

\* Each dialog is open or not, and only one of them.
TypeOK ==
  /\ projects \subseteq Projects /\ order \in Orders
  /\ data \in [Keys -> {NoData} \cup SUBSET Projects]
  /\ stale \subseteq {k \in Keys : data[k] # NoData}
  /\ createOpen \in BOOLEAN /\ pendingDelete \in Projects \cup {NoProject}
  /\ creating \in {Nothing, Calling, Done} \cup ({"refetching"} \X Keys)
  /\ deleting \in {Nothing, Calling, Done} \cup ({"invalidating", "refetching"} \X Keys)
  /\ ~(createOpen /\ pendingDelete # NoProject)

\* Once what a creation or a deletion fetches is there, the rows on the screen
\* show the one and lack the other, whichever fetches were under way before and
\* whatever is clicked meanwhile. A creation that found the first fetch of the
\* key under way promises nothing: that fetch may have read before it.
RowsTellOutcome ==
  flight[key] = Cache!Idle => shows \subseteq Rows /\ Rows \cap lacks = {}

\* After a deletion no entry of another order that still holds the project
\* counts as fresh, unless its fetch was under way when the deletion returned.
NoFreshGhosts ==
  \A k \in Keys \ (stale \cup crossed) : data[k] # NoData => data[k] \cap gone = {}

\* The buttons of the dialogs, disabled while a request and the fetches after it
\* are under way, are always given back.
ButtonsComeBack ==
  /\ (creating # Nothing) ~> (creating = Nothing)
  /\ (deleting # Nothing) ~> (deleting = Nothing)
=============================================================================
