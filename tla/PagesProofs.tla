------------------------------ MODULE PagesProofs ------------------------------
(***************************************************************************)
(* Proofs about the list pages and the organisation page (Pages), for any  *)
(* rows, dates, filters, page sizes and departments. Each list page is     *)
(* shown to suit the invariant of UrlPageProofs, and each of its handlers  *)
(* to be a change of the address of the kind that keeps it.                *)
(***************************************************************************)
EXTENDS Pages, FiniteSetTheorems, TLAPS

N == Cardinality(Items)
InRange(q) == q.range
Filtered(q) == q.range \cap q.filter
Fields1 == {"range"}
Fields2 == {"range", "name"}
FieldsF == {"range", "filter"}
Drafts2 == [range : Ranges, name : Names]
DraftsF == [range : Ranges, filter : Names]
Drafts1 == [range : Ranges]

TaskStates == [range : Ranges, page : 1..N, size : Sizes,
               order : Tasks!OrdersOver(ServerFields \cup ClientFields), name : Names]
CommitStates == [range : Ranges, page : 1..N, size : Sizes,
                 order : Commits!OrdersOver(ServerFields \cup ClientFields), name : Names]
RepoStates == [range : Ranges, page : 1..N, size : Sizes,
               order : Repos!OrdersOver(ServerFields \cup ClientFields)]
NeedStates == [range : Ranges, page : 1..N, size : 1..MaxSize,
               order : Needs!OrdersOver(ServerFields), filter : Names]
UserStates == [range : Ranges, order : Users!OrdersOver(ClientFields)]

TasksP == INSTANCE UrlPageProofs WITH
            Read <- Tasks!StateFromParams, Write <- Tasks!BuildQuery,
            Params <- Tasks!BuildParams, Defaults <- Tasks!Defaults, Requests <- Tasks!Requests,
            Fields <- Fields2, States <- TaskStates, Drafts <- Drafts2, Matching <- InRange
CommitsP == INSTANCE UrlPageProofs WITH
            Read <- Commits!StateFromParams, Write <- Commits!BuildQuery,
            Params <- Commits!BuildParams, Defaults <- Commits!Defaults, Requests <- Commits!Requests,
            Fields <- Fields2, States <- CommitStates, Drafts <- Drafts2, Matching <- InRange
ReposP == INSTANCE UrlPageProofs WITH
            Read <- Repos!StateFromParams, Write <- Repos!BuildQuery,
            Params <- Repos!BuildParams, Defaults <- Repos!Defaults, Requests <- Repos!Requests,
            Fields <- Fields1, States <- RepoStates, Drafts <- Drafts1, Matching <- InRange
NeedsP == INSTANCE UrlPageProofs WITH
            Read <- Needs!StateFromParams, Write <- Needs!BuildQuery,
            Params <- Needs!BuildParams, Defaults <- Needs!Defaults, Requests <- Needs!Requests,
            Fields <- FieldsF, States <- NeedStates, Drafts <- DraftsF, Matching <- Filtered
UsersP == INSTANCE UrlPageProofs WITH
            Read <- Users!StateFromParams, Write <- Users!BuildQuery,
            Params <- Users!BuildParams, Defaults <- Users!Defaults, Requests <- Users!Requests,
            Fields <- Fields1, States <- UserStates, Drafts <- Drafts1, Matching <- InRange
OrgsP == INSTANCE PageLoadProofs WITH Requests <- Orgs!Requests, asked <- url

-----------------------------------------------------------------------------
(* Rows, pages and operators.                                              *)

\* There is at least one row, so the first page is one of the pages.
LEMMA SomeRows == N \in Nat \ {0}
BY PagesAssumption, FS_CardinalityType, FS_EmptySet DEF N

\* Whatever matches is among the rows.
LEMMA MatchingCount ==
  ASSUME NEW S \in SUBSET Items
  PROVE  S \in SUBSET Int /\ IsFiniteSet(S) /\ Cardinality(S) \in 0..N
<1>1. IsFiniteSet(S) /\ Cardinality(S) <= Cardinality(Items)
  BY PagesAssumption, FS_Subset
<1>2. S \in SUBSET Int
  BY PagesAssumption
<1>. QED
  BY <1>1, <1>2, PagesAssumption, FS_CardinalityType DEF N

\* What a page asks for.
LEMMA PageNumbers ==
  /\ \A r \in Ranges : r \in SUBSET Items
  /\ \A n \in Sizes : n \in Nat \ {0}
  /\ 1 \in 1..N
BY PagesAssumption, SomeRows

\* The operators of the modules a page is built from are those of its proofs.
LEMMA SameCounts ==
  /\ \A S : Tasks!Cardinality(S) = Cardinality(S)
  /\ \A S : Tasks!P!Cardinality(S) = Cardinality(S)
  /\ \A S : TasksP!Cardinality(S) = Cardinality(S)
  /\ \A S : TasksP!IsFiniteSet(S) <=> IsFiniteSet(S)
  /\ \A S : Commits!Cardinality(S) = Cardinality(S)
  /\ \A S : Commits!P!Cardinality(S) = Cardinality(S)
  /\ \A S : CommitsP!Cardinality(S) = Cardinality(S)
  /\ \A S : CommitsP!IsFiniteSet(S) <=> IsFiniteSet(S)
  /\ \A S : Repos!Cardinality(S) = Cardinality(S)
  /\ \A S : Repos!P!Cardinality(S) = Cardinality(S)
  /\ \A S : ReposP!Cardinality(S) = Cardinality(S)
  /\ \A S : ReposP!IsFiniteSet(S) <=> IsFiniteSet(S)
  /\ \A S : Needs!Cardinality(S) = Cardinality(S)
  /\ \A S : Needs!P!Cardinality(S) = Cardinality(S)
  /\ \A S : NeedsP!Cardinality(S) = Cardinality(S)
  /\ \A S : NeedsP!IsFiniteSet(S) <=> IsFiniteSet(S)
  /\ \A S : Users!Cardinality(S) = Cardinality(S)
  /\ \A S : Users!P!Cardinality(S) = Cardinality(S)
  /\ \A S : UsersP!Cardinality(S) = Cardinality(S)
  /\ \A S : UsersP!IsFiniteSet(S) <=> IsFiniteSet(S)
BY Zenon
DEF Cardinality, IsFiniteSet,
    Tasks!Cardinality, Tasks!P!Cardinality, TasksP!Cardinality, TasksP!IsFiniteSet,
    Commits!Cardinality, Commits!P!Cardinality, CommitsP!Cardinality, CommitsP!IsFiniteSet,
    Repos!Cardinality, Repos!P!Cardinality, ReposP!Cardinality, ReposP!IsFiniteSet,
    Needs!Cardinality, Needs!P!Cardinality, NeedsP!Cardinality, NeedsP!IsFiniteSet,
    Users!Cardinality, Users!P!Cardinality, UsersP!Cardinality, UsersP!IsFiniteSet
-----------------------------------------------------------------------------
(* The list of tasks.                                                      *)

\* What the page is built from is what its proofs are about.
LEMMA TasksDerived ==
  /\ Tasks!state = TasksP!state
  /\ Tasks!Total = IF rowsOf = NoRequest THEN 0 ELSE TasksP!Cardinality(InRange(rowsOf))
  /\ \A p, t, z : Tasks!Reachable(p, t, z) = TasksP!Reachable(p, t, z)
  /\ \A S, p, z, d : Tasks!PageRows(S, p, z, d) = TasksP!PageRows(S, p, z, d)
  /\ \A s : Tasks!P!Refill(s) = TasksP!Refill(s)
  /\ \A F : Tasks!OrdersOver(F) = TasksP!OrdersOver(F)
  /\ \A o, f : Tasks!NextOrder(o, f) = TasksP!NextOrder(o, f)
  /\ Tasks!NoOrder = TasksP!NoOrder
BY SameCounts
DEF Tasks!state, Tasks!P!state, TasksP!state, Tasks!Total, InRange,
    Tasks!Reachable, Tasks!PageCount, Tasks!Neighbours,
    TasksP!Reachable, TasksP!PageCount, TasksP!Neighbours,
    Tasks!PageRows, Tasks!Rank, Tasks!ByNumber, TasksP!PageRows, TasksP!Rank, TasksP!ByNumber,
    Tasks!P!Refill, TasksP!Refill, Fields2,
    Tasks!OrdersOver, Tasks!NextOrder, Tasks!NoOrder, Tasks!By,
    TasksP!OrdersOver, TasksP!NextOrder, TasksP!NoOrder, TasksP!By

LEMMA TasksSuits == TasksP!Suits /\ TasksP!Paged
<1>1. Tasks!Defaults \in TaskStates
  BY PageNumbers, PagesAssumption DEF Tasks!Defaults, TaskStates, Tasks!OrdersOver
<1>2. Tasks!StateFromParams(<<>>) = Tasks!Defaults
  BY TasksP!NothingRead DEF Tasks!Defaults, Tasks!StateFromParams
<1>3. ASSUME NEW s \in TaskStates
      PROVE  Tasks!StateFromParams(Tasks!BuildQuery(s)) = s
  <2>1. DOMAIN s = DOMAIN Tasks!Defaults /\ s = [k \in DOMAIN s |-> s[k]]
    BY DEF TaskStates, Tasks!Defaults
  <2>. QED
    BY <2>1, TasksP!RoundTrip DEF Tasks!StateFromParams, Tasks!BuildQuery
<1>4. ASSUME NEW s \in TaskStates
      PROVE  Tasks!BuildParams(s) \in Tasks!Requests /\ TasksP!Refill(s) \in Drafts2
  <2>1. (IF s.order.field \in ServerFields THEN s.order ELSE Tasks!NoOrder)
          \in Tasks!OrdersOver(ServerFields)
    BY TasksDerived, TasksP!OrdersAreKept DEF TaskStates
  <2>2. TasksP!Refill(s) \in Drafts2
    BY DEF TaskStates, TasksP!Refill, Fields2, Drafts2
  <2>3. Tasks!Cardinality(Items) = N
    BY SameCounts DEF N
  <2>. QED
    BY <2>1, <2>2, <2>3 DEF TaskStates, Tasks!BuildParams, Tasks!Requests
<1>5. ASSUME NEW q \in Tasks!Requests
      PROVE  InRange(q) \in SUBSET Items
  BY PageNumbers DEF Tasks!Requests, InRange
<1>6. TasksP!Suits
  BY <1>1, <1>2, <1>3, <1>4, NoRequestAssumption DEF TasksP!Suits
<1>7. Tasks!Defaults.page = 1 /\ "range" \in Fields2
  BY DEF Tasks!Defaults, Fields2
<1>8. \A s \in TaskStates : s.page \in 1..N /\ s.size \in Nat \ {0}
  BY PageNumbers DEF TaskStates
<1>9. TasksP!Paged
  BY <1>5, <1>7, <1>8, SomeRows, MatchingCount, SameCounts DEF TasksP!Paged
<1>. QED
  BY <1>6, <1>9

\* The steps of the page are those its proofs are about.
LEMMA TasksGoto ==
  ASSUME NEW u, NEW s, NEW d, NEW e, Tasks!P!Goto(u, s, d, e)
  PROVE  TasksP!Goto(u, s, d, e)
BY SameCounts
DEF Tasks!P!Goto, Tasks!P!Rerun, Tasks!P!load, Tasks!P!Refill, Tasks!P!Load!Ask,
    Tasks!P!Load!Call, Tasks!P!Asked, Tasks!P!state,
    TasksP!Goto, TasksP!Rerun, TasksP!load, TasksP!Refill, TasksP!Load!Ask, TasksP!Load!Call,
    TasksP!Asked, TasksP!state, Fields2

LEMMA TasksReload == Tasks!P!Reload => TasksP!Reload
BY DEF Tasks!P!Reload, Tasks!P!Load!Open, Tasks!P!Load!Call, Tasks!P!Asked, Tasks!P!state,
       Tasks!P!Refill, TasksP!Reload, TasksP!Load!Open, TasksP!Load!Call, TasksP!Asked,
       TasksP!state, TasksP!Refill, Fields2

LEMMA TasksLoadEnds ==
  ASSUME NEW c \in calls, Tasks!P!LoadEnds(c)
  PROVE  TasksP!LoadEnds(c)
BY DEF Tasks!P!LoadEnds, Tasks!P!Load!End, Tasks!P!Load!Answer, Tasks!P!Load!Refuse,
       Tasks!P!Asked, Tasks!P!state, TasksP!LoadEnds, TasksP!Load!End, TasksP!Load!Answer,
       TasksP!Load!Refuse, TasksP!Asked, TasksP!state

LEMMA TasksInit == Tasks!P!Init => TasksP!Init
BY DEF Tasks!P!Init, Tasks!P!Load!Init, Tasks!P!Load!Call, Tasks!P!Refill, Tasks!P!Asked,
       Tasks!P!state, TasksP!Init, TasksP!Load!Init, TasksP!Load!Call, TasksP!Refill,
       TasksP!Asked, TasksP!state, Fields2

\* The fields hold the dates of the address, and perhaps another name.
LEMMA TasksDrafted ==
  ASSUME TasksP!PageInv
  PROVE  /\ Tasks!P!Drafted \in TaskStates
         /\ \A k \in DOMAIN Tasks!Defaults : k # "name" => Tasks!P!Drafted[k] = TasksP!state[k]
<1>. DEFINE s == TasksP!state
<1>1. s \in TaskStates /\ draft \in Drafts2 /\ draft.range = s.range
  BY DEF TasksP!PageInv, TasksP!AddressInv
<1>2. Tasks!P!Drafted = [k \in DOMAIN s |-> IF k \in {"range", "name"} THEN draft[k] ELSE s[k]]
  BY DEF Tasks!P!Drafted, TasksP!state, Tasks!P!state
<1>. HIDE DEF s
<1>3. Tasks!P!Drafted \in TaskStates
  BY <1>1, <1>2 DEF TaskStates, Drafts2
<1>4. \A k \in DOMAIN Tasks!Defaults : k # "name" => Tasks!P!Drafted[k] = s[k]
  BY <1>1, <1>2 DEF TaskStates, Drafts2, Tasks!Defaults
<1>. QED
  BY <1>3, <1>4 DEF s

\* The address changes to one with rows on its page, or picked on other rows.
LEMMA TasksCommit ==
  ASSUME TasksP!PageInv, NEW s \in TaskStates, NEW d \in Drafts2, NEW e,
         Tasks!Commit(s, d, e), d.range = s.range,
         e \/ s.page = 1 \/ TasksP!Filled(TasksP!Cardinality(s.range), s.size, s.page)
  PROVE  TasksP!PageInv' /\ TasksP!Loads
<1>1. TasksP!Commit(s, d, e)
  BY TasksGoto DEF Tasks!Commit, Tasks!P!Commit, TasksP!Commit
<1>2. InRange(Tasks!BuildParams(s)) = s.range
  BY DEF InRange, Tasks!BuildParams
<1>. QED
  BY <1>1, <1>2, TasksSuits, TasksP!PageCommit

LEMMA TasksUserStep ==
  ASSUME TasksP!PageInv, estimates = 0, Tasks!UserEvents
  PROVE  TasksP!PageInv' /\ TasksP!Loads
<1>. DEFINE s == TasksP!state
            dr == Tasks!P!Drafted
            Goal == TasksP!PageInv' /\ TasksP!Loads
<1>0. /\ s \in TaskStates /\ s.page \in 1..N /\ 1 \in 1..N /\ draft \in Drafts2
      /\ dr \in TaskStates /\ draft.range = s.range
      /\ dr.range = s.range /\ dr.page = s.page /\ dr.size = s.size
      /\ early \/ TasksP!Filled(TasksP!Cardinality(s.range), s.size, s.page)
  <2>1. s \in TaskStates /\ draft \in Drafts2 /\ draft.range = s.range
    BY DEF TasksP!PageInv, TasksP!AddressInv
  <2>2. s.page \in 1..N /\ 1 \in 1..N
    BY <2>1, PageNumbers DEF TaskStates
  <2>3. dr \in TaskStates /\ dr.range = s.range /\ dr.page = s.page /\ dr.size = s.size
    BY TasksDrafted DEF Tasks!Defaults
  <2>4. early \/ TasksP!Filled(TasksP!Cardinality(s.range), s.size, s.page)
    BY DEF TasksP!PageInv, TasksP!Asked, Tasks!BuildParams, InRange
  <2>. QED
    BY <2>1, <2>2, <2>3, <2>4
<1>. HIDE DEF s, dr
<1>1. ASSUME NEW nm \in Names, Tasks!TypeName(nm) PROVE Goal
  <2>1. /\ draft' = [draft EXCEPT !.name = nm]
        /\ UNCHANGED <<url, TasksP!load, meant, early>>
    BY <1>1 DEF Tasks!TypeName, Tasks!P!Type, Tasks!P!load, TasksP!load
  <2>2. draft' \in Drafts2 /\ draft'.range = draft.range
    BY <1>0, <2>1 DEF Drafts2
  <2>. QED
    BY <2>1, <2>2, TasksP!PageFields
<1>2. CASE Tasks!ApplyFilters
  <2>. DEFINE t == [dr EXCEPT !.page = 1]
  <2>1. t \in TaskStates /\ t.range = s.range /\ t.page = 1
    BY <1>0 DEF TaskStates
  <2>2. Tasks!Commit(t, draft, FALSE)
    BY <1>2 DEF Tasks!ApplyFilters, dr
  <2>. HIDE DEF t
  <2>. QED
    BY <1>0, <2>1, <2>2, TasksCommit
<1>3. CASE Tasks!ResetFilters
  <2>1. TasksP!Commit(Tasks!Defaults, TasksP!Refill(Tasks!Defaults), FALSE)
    BY <1>3, TasksGoto, TasksDerived
    DEF Tasks!ResetFilters, Tasks!Commit, Tasks!P!Commit, TasksP!Commit
  <2>. QED
    BY <2>1, TasksSuits, TasksP!PageReset
<1>4. CASE Tasks!OpenFromMenu
  <2>1. TasksP!OpenFromMenu
    BY <1>4, TasksGoto DEF Tasks!OpenFromMenu, Tasks!P!OpenFromMenu, TasksP!OpenFromMenu
  <2>. QED
    BY <2>1, TasksSuits, TasksP!PageOpened
<1>5. CASE Tasks!Reload
  BY <1>5, TasksSuits, TasksReload, TasksP!PageReloaded DEF Tasks!Reload
<1>6. ASSUME NEW r \in Ranges, Tasks!OnDateChange(r) PROVE Goal
  <2>. DEFINE t == [dr EXCEPT !.range = r, !.page = 1]
              d == [draft EXCEPT !.range = r]
  <2>1. t \in TaskStates /\ t.range = r /\ t.page = 1 /\ d \in Drafts2 /\ d.range = r
    BY <1>0 DEF TaskStates, Drafts2
  <2>2. Tasks!Commit(t, d, FALSE)
    BY <1>6 DEF Tasks!OnDateChange, dr
  <2>. HIDE DEF t, d
  <2>. QED
    BY <2>1, <2>2, TasksCommit
<1>7. ASSUME NEW n \in Sizes, Tasks!HandleSizeChange(n) PROVE Goal
  <2>. DEFINE t == [dr EXCEPT !.size = n, !.page = 1]
  <2>1. t \in TaskStates /\ t.range = s.range /\ t.page = 1
    BY <1>0 DEF TaskStates
  <2>2. Tasks!Commit(t, draft, FALSE)
    BY <1>7 DEF Tasks!HandleSizeChange, dr
  <2>. HIDE DEF t
  <2>. QED
    BY <1>0, <2>1, <2>2, TasksCommit
<1>8. ASSUME NEW p, Tasks!HandlePageChange(p) PROVE Goal
  <2>. DEFINE t == [dr EXCEPT !.page = p]
  <2>1. p \in TasksP!Reachable(s.page, Tasks!Total, s.size)
    BY <1>8, TasksDerived DEF Tasks!HandlePageChange, s
  <2>2. /\ p \in 1..N
        /\ loading \/ early \/ TasksP!Filled(TasksP!Cardinality(s.range), s.size, p)
    BY <2>1, TasksDerived, TasksSuits, TasksP!BarLeadsToRows
    DEF s, TasksP!Asked, Tasks!BuildParams, InRange
  <2>3. t \in TaskStates /\ t.range = s.range /\ t.size = s.size /\ t.page = p
    BY <1>0, <2>2 DEF TaskStates
  <2>4. Tasks!Commit(t, draft, loading \/ early)
    BY <1>8 DEF Tasks!HandlePageChange, dr
  <2>. HIDE DEF t
  <2>. QED
    BY <1>0, <2>2, <2>3, <2>4, TasksCommit
<1>9. ASSUME NEW f \in ServerFields \cup ClientFields, Tasks!OnSortChange(f) PROVE Goal
  <2>. DEFINE o == Tasks!NextOrder(s.order, f)
              pg == IF f \in ServerFields THEN 1 ELSE dr.page
              t == [dr EXCEPT !.order = o, !.page = pg]
  <2>2. o \in Tasks!OrdersOver(ServerFields \cup ClientFields)
    BY <1>0, TasksDerived, TasksP!OrdersAreKept DEF TaskStates
  <2>3. pg \in 1..N /\ (f \in ServerFields => pg = 1) /\ (f \notin ServerFields => pg = s.page)
    BY <1>0
  <2>4. Tasks!Commit(t, draft, early /\ f \notin ServerFields)
    BY <1>9, TasksDerived DEF Tasks!OnSortChange, dr, s
  <2>. HIDE DEF o, pg
  <2>5. t \in TaskStates /\ t.range = s.range /\ t.size = s.size /\ t.page = pg
    BY <1>0, <2>2, <2>3 DEF TaskStates
  <2>. HIDE DEF t
  <2>. QED
    BY <1>0, <2>3, <2>4, <2>5, TasksCommit
<1>10. CASE UNCHANGED Tasks!page
  <2>1. UNCHANGED <<url, TasksP!load, meant, early>> /\ draft' = draft
    BY <1>10 DEF Tasks!page, TasksP!load
  <2>. QED
    BY <1>0, <2>1, TasksP!PageFields
<1>11. ~Tasks!StartEstimate
  BY DEF Tasks!StartEstimate
<1>. QED
  BY <1>1, <1>2, <1>3, <1>4, <1>5, <1>6, <1>7, <1>8, <1>9, <1>10, <1>11
  DEF Tasks!UserEvents, Tasks!ToggleSelect, Tasks!ToggleSelectAll, Tasks!OpenAddDialog,
      Tasks!CloseAddDialog, Tasks!HandleAddToProject

\* The ticks and the dialog; no estimate is started here (see MaxEstimates).
TicksInv ==
  /\ selected \subseteq Items /\ addOpen \in BOOLEAN /\ lacking \in BOOLEAN
  /\ adding = <<>> \/ adding \in {<<ts>> : ts \in SUBSET Items}
  /\ estimate = <<>> /\ estimates = 0
  /\ covered \in BOOLEAN /\ covered \in {FALSE, failed}

\* What a step does to the message of a failed load: nothing but the outcome of an
\* addition takes its place, a new request clears it, and an answer finds none.
Messages ==
  \/ UNCHANGED <<url, calls, loading, failed, rowsOf>> /\ covered' \in {covered, failed}
  \/ loading' /\ failed' = FALSE /\ covered' = FALSE
  \/ loading /\ covered = FALSE /\ covered' = FALSE
  \/ UNCHANGED <<url, loading, failed, rowsOf, covered>>

LEMMA CommitMessages ==
  ASSUME NEW u, NEW s, NEW d, NEW e, Tasks!P!Goto(u, s, d, e), Tasks!ClearTicks, TicksInv
  PROVE  Messages
BY DEF Tasks!P!Goto, Tasks!P!Rerun, Tasks!P!load, Tasks!P!Load!Ask, Tasks!ClearTicks, TicksInv, Messages

LEMMA TasksMessages == TasksP!PageInv /\ TicksInv /\ Tasks!Next => Messages
<1>. SUFFICES ASSUME TasksP!PageInv, TicksInv, Tasks!Next PROVE Messages
  OBVIOUS
<1>1. ASSUME NEW s, NEW d, NEW e, Tasks!Commit(s, d, e) PROVE Messages
  BY <1>1, CommitMessages DEF Tasks!Commit, Tasks!P!Commit
<1>2. CASE Tasks!OpenFromMenu
  BY <1>2, CommitMessages DEF Tasks!OpenFromMenu, Tasks!P!OpenFromMenu
<1>3. CASE Tasks!Reload
  BY <1>3 DEF Tasks!Reload, Tasks!P!Reload, Tasks!P!Load!Open, Messages
<1>4. ASSUME NEW c \in calls, Tasks!LoadEnds(c) PROVE Messages
  <2>1. c.live => loading /\ ~failed
    BY DEF TasksP!PageInv, TasksP!AddressInv, TasksP!LoadP!Inv, TasksP!LoadP!SkeletonIffLive
  <2>2. covered' = covered /\ url' = url /\ Tasks!P!Load!End(c)
    BY <1>4 DEF Tasks!LoadEnds, Tasks!P!LoadEnds
  <2>3. CASE c.live
    BY <2>1, <2>2, <2>3 DEF TicksInv, Messages
  <2>4. CASE ~c.live
    BY <2>2, <2>4 DEF Tasks!P!Load!End, Tasks!P!Load!Answer, Tasks!P!Load!Refuse, Messages
  <2>. QED
    BY <2>3, <2>4
<1>5. ASSUME NEW nm, Tasks!TypeName(nm) PROVE Messages
  BY <1>5 DEF Tasks!TypeName, Tasks!P!Type, Tasks!P!load, Messages
<1>6. ASSUME UNCHANGED <<Tasks!page, covered>> PROVE Messages
  BY <1>6 DEF Tasks!page, Messages
<1>7. CASE Tasks!AddEnds
  BY <1>7 DEF Tasks!AddEnds, Tasks!page, Messages
<1>8. ~(Tasks!StartEstimate \/ Tasks!Generated \/ Tasks!Refreshed \/ Tasks!EstimateFails)
  BY DEF TicksInv, Tasks!StartEstimate, Tasks!Generated, Tasks!Refreshed, Tasks!EstimateFails
<1>9. CASE Tasks!UserEvents
  BY <1>1, <1>2, <1>3, <1>5, <1>6, <1>8, <1>9
  DEF Tasks!UserEvents, Tasks!ApplyFilters, Tasks!ResetFilters,
      Tasks!OnDateChange, Tasks!HandleSizeChange, Tasks!HandlePageChange, Tasks!OnSortChange,
      Tasks!ToggleSelect, Tasks!ToggleSelectAll, Tasks!OpenAddDialog,
      Tasks!CloseAddDialog, Tasks!HandleAddToProject
<1>. QED
  BY <1>4, <1>7, <1>8, <1>9 DEF Tasks!Next

LEMMA TicksStep == TasksP!PageInv /\ TicksInv /\ Tasks!Next => TicksInv'
<1>. SUFFICES ASSUME TasksP!PageInv, TicksInv, Tasks!Next PROVE TicksInv'
  OBVIOUS
<1>. DEFINE Goal == /\ selected' \subseteq Items /\ addOpen' \in BOOLEAN /\ lacking' \in BOOLEAN
                    /\ adding' = <<>> \/ adding' \in {<<ts>> : ts \in SUBSET Items}
                    /\ estimate' = <<>> /\ estimates' = 0
<1>0. covered' \in BOOLEAN /\ covered' \in {FALSE, failed'}
  <2>1. failed \in BOOLEAN
    BY DEF TasksP!PageInv, TasksP!AddressInv, TasksP!LoadP!Inv, TasksP!LoadP!TypeOK
  <2>2. covered' \in BOOLEAN
    BY <2>1, TasksMessages DEF TicksInv, Messages
  <2>3. covered' \in {FALSE, failed'}
    BY TasksMessages DEF TicksInv, Messages
  <2>. QED
    BY <2>2, <2>3
<1>. SUFFICES Goal
  BY <1>0 DEF TicksInv
<1>. USE DEF TicksInv, Tasks!dialog, Tasks!estimating
<1>1. ASSUME NEW s, NEW d, NEW e, Tasks!Commit(s, d, e) PROVE Goal
  BY <1>1 DEF Tasks!Commit, Tasks!ClearTicks
<1>2. ASSUME NEW nm, Tasks!TypeName(nm) PROVE Goal
  BY <1>2 DEF Tasks!TypeName
<1>3. CASE Tasks!OpenFromMenu
  BY <1>3 DEF Tasks!OpenFromMenu, Tasks!ClearTicks
<1>4. CASE Tasks!Reload
  BY <1>4 DEF Tasks!Reload
<1>5. ASSUME NEW c \in calls, Tasks!LoadEnds(c) PROVE Goal
  BY <1>5 DEF Tasks!LoadEnds
<1>6. Tasks!DisplayRows \subseteq Items
  <2>1. rowsOf = NoRequest \/ rowsOf.range \subseteq Items
    BY PagesAssumption DEF TasksP!PageInv, TasksP!AddressInv, TasksP!LoadP!Inv,
       TasksP!LoadP!TypeOK, Tasks!Requests
  <2>. QED
    BY <2>1 DEF Tasks!DisplayRows, Tasks!Rows, Tasks!PageRows
<1>7. ASSUME NEW t \in Items, Tasks!ToggleSelect(t) PROVE Goal
  BY <1>7 DEF Tasks!ToggleSelect
<1>8. CASE Tasks!ToggleSelectAll
  BY <1>6, <1>8 DEF Tasks!ToggleSelectAll
<1>9. CASE Tasks!OpenAddDialog \/ Tasks!CloseAddDialog
  BY <1>9 DEF Tasks!OpenAddDialog, Tasks!CloseAddDialog
<1>10. CASE Tasks!HandleAddToProject
  BY <1>10 DEF Tasks!HandleAddToProject, Tasks!SelectedTasks
<1>11. CASE Tasks!AddEnds
  BY <1>11 DEF Tasks!AddEnds
<1>12. ~(Tasks!StartEstimate \/ Tasks!Generated \/ Tasks!Refreshed \/ Tasks!EstimateFails)
  BY DEF Tasks!StartEstimate, Tasks!Generated, Tasks!Refreshed, Tasks!EstimateFails
<1>. QED
  BY <1>1, <1>2, <1>3, <1>4, <1>5, <1>7, <1>8, <1>9, <1>10, <1>11, <1>12
  DEF Tasks!Next, Tasks!UserEvents, Tasks!ApplyFilters, Tasks!ResetFilters,
      Tasks!OnDateChange, Tasks!HandleSizeChange, Tasks!HandlePageChange, Tasks!OnSortChange

TasksInv == TasksP!PageInv /\ TicksInv

LEMMA TasksNext == TasksInv /\ Tasks!Next => TasksInv' /\ TasksP!Loads
<1>. SUFFICES ASSUME TasksInv, Tasks!Next PROVE TasksP!PageInv' /\ TasksP!Loads
  BY TicksStep DEF TasksInv
<1>. USE DEF TasksInv
<1>1. ASSUME NEW c \in calls, Tasks!LoadEnds(c) PROVE TasksP!PageInv' /\ TasksP!Loads
  BY <1>1, TasksLoadEnds, TasksP!PageLoaded DEF Tasks!LoadEnds
<1>2. CASE Tasks!AddEnds
  <2>1. UNCHANGED <<url, TasksP!load, meant, early>> /\ draft' = draft
    BY <1>2 DEF Tasks!AddEnds, Tasks!page, TasksP!load
  <2>2. draft \in Drafts2
    BY DEF TasksP!PageInv, TasksP!AddressInv
  <2>. QED
    BY <2>1, <2>2, TasksP!PageFields
<1>3. CASE Tasks!Generated \/ Tasks!Refreshed \/ Tasks!EstimateFails
  BY <1>3 DEF TicksInv, Tasks!Generated, Tasks!Refreshed, Tasks!EstimateFails
<1>. QED
  BY <1>1, <1>2, <1>3, TasksUserStep DEF Tasks!Next, TicksInv

LEMMA TasksStart == Tasks!Init => TasksInv
BY TasksSuits, TasksInit, TasksP!PageStart DEF Tasks!Init, TasksInv, TicksInv

LEMMA TasksSafe == TasksInv => Tasks!TypeOK /\ Tasks!P!UrlHoldsState /\ Tasks!NoEmptyPage
<1>. SUFFICES ASSUME TasksInv PROVE Tasks!TypeOK /\ Tasks!P!UrlHoldsState /\ Tasks!NoEmptyPage
  OBVIOUS
<1>. USE DEF TasksInv
<1>1. Tasks!TypeOK
  <2>1. Tasks!P!Load!TypeOK
    BY DEF TasksP!PageInv, TasksP!AddressInv, TasksP!LoadP!Inv, TasksP!LoadP!TypeOK,
       TasksP!Asked, TasksP!state, Tasks!P!Load!TypeOK, Tasks!P!Asked, Tasks!P!state
  <2>. QED
    BY <2>1, TasksDerived, SameCounts
    DEF Tasks!TypeOK, TasksP!PageInv, TasksP!AddressInv, TicksInv, TaskStates, Drafts2, N, Tasks!Orders
<1>2. Tasks!P!UrlHoldsState
  BY TasksDerived DEF TasksP!PageInv, Tasks!P!UrlHoldsState, Tasks!state
<1>3. ASSUME ~loading, ~failed, ~early, Tasks!state.page > 1 PROVE Tasks!Rows # {}
  <2>. DEFINE q == Tasks!BuildParams(Tasks!state)
  <2>1. rowsOf = q /\ rowsOf # NoRequest
    BY <1>3, TasksSuits, TasksDerived, TasksP!PageShowsRows DEF TasksP!Asked
  <2>2. \A desc \in BOOLEAN : Tasks!PageRows(q.range, q.page, q.size, desc) # {}
    <3>1. \A desc \in BOOLEAN :
            TasksP!PageRows(InRange(TasksP!Asked), TasksP!state.page, TasksP!state.size, desc) # {}
      BY <1>3, TasksSuits, TasksDerived, TasksP!PageShowsRows
    <3>2. /\ InRange(TasksP!Asked) = q.range
          /\ q.page = TasksP!state.page /\ q.size = TasksP!state.size
      BY TasksDerived DEF TasksP!Asked, Tasks!BuildParams, InRange
    <3>. HIDE DEF q
    <3>. QED
      BY <3>1, <3>2, TasksDerived
  <2>3. q.order.desc \in BOOLEAN
    <3>1. rowsOf \in Tasks!Requests
      BY <2>1 DEF TasksP!PageInv, TasksP!AddressInv, TasksP!LoadP!Inv, TasksP!LoadP!TypeOK
    <3>2. q.order \in TasksP!OrdersOver(ServerFields)
      BY <2>1, <3>1, TasksDerived DEF Tasks!Requests
    <3>. HIDE DEF q
    <3>. QED
      BY <3>2, TasksP!OrdersAreKept
  <2>. HIDE DEF q
  <2>. QED
    BY Zenon, <2>1, <2>2, <2>3 DEF Tasks!Rows
<1>. QED
  BY <1>1, <1>2, <1>3 DEF Tasks!NoEmptyPage
-----------------------------------------------------------------------------
(* The list of commits.                                                   *)

\* What the page is built from is what its proofs are about.
LEMMA CommitsDerived ==
  /\ Commits!state = CommitsP!state
  /\ Commits!Total = IF rowsOf = NoRequest THEN 0 ELSE CommitsP!Cardinality(InRange(rowsOf))
  /\ \A p, t, z : Commits!Reachable(p, t, z) = CommitsP!Reachable(p, t, z)
  /\ \A S, p, z, d : Commits!PageRows(S, p, z, d) = CommitsP!PageRows(S, p, z, d)
  /\ \A s : Commits!P!Refill(s) = CommitsP!Refill(s)
  /\ \A F : Commits!OrdersOver(F) = CommitsP!OrdersOver(F)
  /\ \A o, f : Commits!NextOrder(o, f) = CommitsP!NextOrder(o, f)
  /\ Commits!NoOrder = CommitsP!NoOrder
BY SameCounts
DEF Commits!state, Commits!P!state, CommitsP!state, Commits!Total, InRange,
    Commits!Reachable, Commits!PageCount, Commits!Neighbours,
    CommitsP!Reachable, CommitsP!PageCount, CommitsP!Neighbours,
    Commits!PageRows, Commits!Rank, Commits!ByNumber, CommitsP!PageRows, CommitsP!Rank, CommitsP!ByNumber,
    Commits!P!Refill, CommitsP!Refill, Fields2,
    Commits!OrdersOver, Commits!NextOrder, Commits!NoOrder, Commits!By,
    CommitsP!OrdersOver, CommitsP!NextOrder, CommitsP!NoOrder, CommitsP!By

LEMMA CommitsSuits == CommitsP!Suits /\ CommitsP!Paged
<1>1. Commits!Defaults \in CommitStates
  BY PageNumbers, PagesAssumption DEF Commits!Defaults, CommitStates, Commits!OrdersOver
<1>2. Commits!StateFromParams(<<>>) = Commits!Defaults
  BY CommitsP!NothingRead DEF Commits!Defaults, Commits!StateFromParams
<1>3. ASSUME NEW s \in CommitStates
      PROVE  Commits!StateFromParams(Commits!BuildQuery(s)) = s
  <2>1. DOMAIN s = DOMAIN Commits!Defaults /\ s = [k \in DOMAIN s |-> s[k]]
    BY DEF CommitStates, Commits!Defaults
  <2>. QED
    BY <2>1, CommitsP!RoundTrip DEF Commits!StateFromParams, Commits!BuildQuery
<1>4. ASSUME NEW s \in CommitStates
      PROVE  Commits!BuildParams(s) \in Commits!Requests /\ CommitsP!Refill(s) \in Drafts2
  <2>1. (IF s.order.field \in ServerFields THEN s.order ELSE Commits!NoOrder)
          \in Commits!OrdersOver(ServerFields)
    BY CommitsDerived, CommitsP!OrdersAreKept DEF CommitStates
  <2>2. CommitsP!Refill(s) \in Drafts2
    BY DEF CommitStates, CommitsP!Refill, Fields2, Drafts2
  <2>3. Commits!Cardinality(Items) = N
    BY SameCounts DEF N
  <2>. QED
    BY <2>1, <2>2, <2>3 DEF CommitStates, Commits!BuildParams, Commits!Requests
<1>5. ASSUME NEW q \in Commits!Requests
      PROVE  InRange(q) \in SUBSET Items
  BY PageNumbers DEF Commits!Requests, InRange
<1>6. CommitsP!Suits
  BY <1>1, <1>2, <1>3, <1>4, NoRequestAssumption DEF CommitsP!Suits
<1>7. Commits!Defaults.page = 1 /\ "range" \in Fields2
  BY DEF Commits!Defaults, Fields2
<1>8. \A s \in CommitStates : s.page \in 1..N /\ s.size \in Nat \ {0}
  BY PageNumbers DEF CommitStates
<1>9. CommitsP!Paged
  BY <1>5, <1>7, <1>8, SomeRows, MatchingCount, SameCounts DEF CommitsP!Paged
<1>. QED
  BY <1>6, <1>9

\* The steps of the page are those its proofs are about.
LEMMA CommitsGoto ==
  ASSUME NEW u, NEW s, NEW d, NEW e, Commits!P!Goto(u, s, d, e)
  PROVE  CommitsP!Goto(u, s, d, e)
BY SameCounts
DEF Commits!P!Goto, Commits!P!Rerun, Commits!P!load, Commits!P!Refill, Commits!P!Load!Ask,
    Commits!P!Load!Call, Commits!P!Asked, Commits!P!state,
    CommitsP!Goto, CommitsP!Rerun, CommitsP!load, CommitsP!Refill, CommitsP!Load!Ask, CommitsP!Load!Call,
    CommitsP!Asked, CommitsP!state, Fields2

LEMMA CommitsReload == Commits!P!Reload => CommitsP!Reload
BY DEF Commits!P!Reload, Commits!P!Load!Open, Commits!P!Load!Call, Commits!P!Asked, Commits!P!state,
       Commits!P!Refill, CommitsP!Reload, CommitsP!Load!Open, CommitsP!Load!Call, CommitsP!Asked,
       CommitsP!state, CommitsP!Refill, Fields2

LEMMA CommitsLoadEnds ==
  ASSUME NEW c \in calls, Commits!P!LoadEnds(c)
  PROVE  CommitsP!LoadEnds(c)
BY DEF Commits!P!LoadEnds, Commits!P!Load!End, Commits!P!Load!Answer, Commits!P!Load!Refuse,
       Commits!P!Asked, Commits!P!state, CommitsP!LoadEnds, CommitsP!Load!End, CommitsP!Load!Answer,
       CommitsP!Load!Refuse, CommitsP!Asked, CommitsP!state

LEMMA CommitsInit == Commits!P!Init => CommitsP!Init
BY DEF Commits!P!Init, Commits!P!Load!Init, Commits!P!Load!Call, Commits!P!Refill, Commits!P!Asked,
       Commits!P!state, CommitsP!Init, CommitsP!Load!Init, CommitsP!Load!Call, CommitsP!Refill,
       CommitsP!Asked, CommitsP!state, Fields2

\* The fields hold the dates of the address, and perhaps another name.
LEMMA CommitsDrafted ==
  ASSUME CommitsP!PageInv
  PROVE  /\ Commits!P!Drafted \in CommitStates
         /\ \A k \in DOMAIN Commits!Defaults : k # "name" => Commits!P!Drafted[k] = CommitsP!state[k]
<1>. DEFINE s == CommitsP!state
<1>1. s \in CommitStates /\ draft \in Drafts2 /\ draft.range = s.range
  BY DEF CommitsP!PageInv, CommitsP!AddressInv
<1>2. Commits!P!Drafted = [k \in DOMAIN s |-> IF k \in {"range", "name"} THEN draft[k] ELSE s[k]]
  BY DEF Commits!P!Drafted, CommitsP!state, Commits!P!state
<1>. HIDE DEF s
<1>3. Commits!P!Drafted \in CommitStates
  BY <1>1, <1>2 DEF CommitStates, Drafts2
<1>4. \A k \in DOMAIN Commits!Defaults : k # "name" => Commits!P!Drafted[k] = s[k]
  BY <1>1, <1>2 DEF CommitStates, Drafts2, Commits!Defaults
<1>. QED
  BY <1>3, <1>4 DEF s

\* The address changes to one with rows on its page, or picked on other rows.
LEMMA CommitsCommit ==
  ASSUME CommitsP!PageInv, NEW s \in CommitStates, NEW d \in Drafts2, NEW e,
         Commits!P!Commit(s, d, e), d.range = s.range,
         e \/ s.page = 1 \/ CommitsP!Filled(CommitsP!Cardinality(s.range), s.size, s.page)
  PROVE  CommitsP!PageInv' /\ CommitsP!Loads
<1>1. CommitsP!Commit(s, d, e)
  BY CommitsGoto DEF Commits!P!Commit, CommitsP!Commit
<1>2. InRange(Commits!BuildParams(s)) = s.range
  BY DEF InRange, Commits!BuildParams
<1>. QED
  BY <1>1, <1>2, CommitsSuits, CommitsP!PageCommit

LEMMA CommitsUserStep ==
  ASSUME CommitsP!PageInv, Commits!UserEvents
  PROVE  CommitsP!PageInv' /\ CommitsP!Loads
<1>. DEFINE s == CommitsP!state
            dr == Commits!P!Drafted
            Goal == CommitsP!PageInv' /\ CommitsP!Loads
<1>0. /\ s \in CommitStates /\ s.page \in 1..N /\ 1 \in 1..N /\ draft \in Drafts2
      /\ dr \in CommitStates /\ draft.range = s.range
      /\ dr.range = s.range /\ dr.page = s.page /\ dr.size = s.size
      /\ early \/ CommitsP!Filled(CommitsP!Cardinality(s.range), s.size, s.page)
  <2>1. s \in CommitStates /\ draft \in Drafts2 /\ draft.range = s.range
    BY DEF CommitsP!PageInv, CommitsP!AddressInv
  <2>2. s.page \in 1..N /\ 1 \in 1..N
    BY <2>1, PageNumbers DEF CommitStates
  <2>3. dr \in CommitStates /\ dr.range = s.range /\ dr.page = s.page /\ dr.size = s.size
    BY CommitsDrafted DEF Commits!Defaults
  <2>4. early \/ CommitsP!Filled(CommitsP!Cardinality(s.range), s.size, s.page)
    BY DEF CommitsP!PageInv, CommitsP!Asked, Commits!BuildParams, InRange
  <2>. QED
    BY <2>1, <2>2, <2>3, <2>4
<1>. HIDE DEF s, dr
<1>1. ASSUME NEW nm \in Names, Commits!TypeName(nm) PROVE Goal
  <2>1. /\ draft' = [draft EXCEPT !.name = nm]
        /\ UNCHANGED <<url, CommitsP!load, meant, early>>
    BY <1>1 DEF Commits!TypeName, Commits!P!Type, Commits!P!load, CommitsP!load
  <2>2. draft' \in Drafts2 /\ draft'.range = draft.range
    BY <1>0, <2>1 DEF Drafts2
  <2>. QED
    BY <2>1, <2>2, CommitsP!PageFields
<1>2. CASE Commits!ApplyFilters
  <2>. DEFINE t == [dr EXCEPT !.page = 1]
  <2>1. t \in CommitStates /\ t.range = s.range /\ t.page = 1
    BY <1>0 DEF CommitStates
  <2>2. Commits!P!Commit(t, draft, FALSE)
    BY <1>2 DEF Commits!ApplyFilters, dr
  <2>. HIDE DEF t
  <2>. QED
    BY <1>0, <2>1, <2>2, CommitsCommit
<1>3. CASE Commits!ResetFilters
  <2>1. CommitsP!Commit(Commits!Defaults, CommitsP!Refill(Commits!Defaults), FALSE)
    BY <1>3, CommitsGoto, CommitsDerived
    DEF Commits!ResetFilters, Commits!P!Commit, CommitsP!Commit
  <2>. QED
    BY <2>1, CommitsSuits, CommitsP!PageReset
<1>4. CASE Commits!P!OpenFromMenu
  <2>1. CommitsP!OpenFromMenu
    BY <1>4, CommitsGoto DEF Commits!P!OpenFromMenu, CommitsP!OpenFromMenu
  <2>. QED
    BY <2>1, CommitsSuits, CommitsP!PageOpened
<1>5. CASE Commits!P!Reload
  BY <1>5, CommitsSuits, CommitsReload, CommitsP!PageReloaded
<1>6. ASSUME NEW r \in Ranges, Commits!OnDateChange(r) PROVE Goal
  <2>. DEFINE t == [dr EXCEPT !.range = r, !.page = 1]
              d == [draft EXCEPT !.range = r]
  <2>1. t \in CommitStates /\ t.range = r /\ t.page = 1 /\ d \in Drafts2 /\ d.range = r
    BY <1>0 DEF CommitStates, Drafts2
  <2>2. Commits!P!Commit(t, d, FALSE)
    BY <1>6 DEF Commits!OnDateChange, dr
  <2>. HIDE DEF t, d
  <2>. QED
    BY <2>1, <2>2, CommitsCommit
<1>7. ASSUME NEW n \in Sizes, Commits!HandleSizeChange(n) PROVE Goal
  <2>. DEFINE t == [dr EXCEPT !.size = n, !.page = 1]
  <2>1. t \in CommitStates /\ t.range = s.range /\ t.page = 1
    BY <1>0 DEF CommitStates
  <2>2. Commits!P!Commit(t, draft, FALSE)
    BY <1>7 DEF Commits!HandleSizeChange, dr
  <2>. HIDE DEF t
  <2>. QED
    BY <1>0, <2>1, <2>2, CommitsCommit
<1>8. ASSUME NEW p, Commits!HandlePageChange(p) PROVE Goal
  <2>. DEFINE t == [dr EXCEPT !.page = p]
  <2>1. p \in CommitsP!Reachable(s.page, Commits!Total, s.size)
    BY <1>8, CommitsDerived DEF Commits!HandlePageChange, s
  <2>2. /\ p \in 1..N
        /\ loading \/ early \/ CommitsP!Filled(CommitsP!Cardinality(s.range), s.size, p)
    BY <2>1, CommitsDerived, CommitsSuits, CommitsP!BarLeadsToRows
    DEF s, CommitsP!Asked, Commits!BuildParams, InRange
  <2>3. t \in CommitStates /\ t.range = s.range /\ t.size = s.size /\ t.page = p
    BY <1>0, <2>2 DEF CommitStates
  <2>4. Commits!P!Commit(t, draft, loading \/ early)
    BY <1>8 DEF Commits!HandlePageChange, dr
  <2>. HIDE DEF t
  <2>. QED
    BY <1>0, <2>2, <2>3, <2>4, CommitsCommit
<1>9. ASSUME NEW f \in ServerFields \cup ClientFields, Commits!OnSortChange(f) PROVE Goal
  <2>. DEFINE o == Commits!NextOrder(s.order, f)
              pg == IF f \in ServerFields THEN 1 ELSE dr.page
              t == [dr EXCEPT !.order = o, !.page = pg]
  <2>2. o \in Commits!OrdersOver(ServerFields \cup ClientFields)
    BY <1>0, CommitsDerived, CommitsP!OrdersAreKept DEF CommitStates
  <2>3. pg \in 1..N /\ (f \in ServerFields => pg = 1) /\ (f \notin ServerFields => pg = s.page)
    BY <1>0
  <2>4. Commits!P!Commit(t, draft, early /\ f \notin ServerFields)
    BY <1>9, CommitsDerived DEF Commits!OnSortChange, dr, s
  <2>. HIDE DEF o, pg
  <2>5. t \in CommitStates /\ t.range = s.range /\ t.size = s.size /\ t.page = pg
    BY <1>0, <2>2, <2>3 DEF CommitStates
  <2>. HIDE DEF t
  <2>. QED
    BY <1>0, <2>3, <2>4, <2>5, CommitsCommit
<1>. QED
  BY <1>1, <1>2, <1>3, <1>4, <1>5, <1>6, <1>7, <1>8, <1>9 DEF Commits!UserEvents

LEMMA CommitsNext == CommitsP!PageInv /\ Commits!Next => CommitsP!PageInv' /\ CommitsP!Loads
<1>1. ASSUME CommitsP!PageInv, NEW c \in calls, Commits!LoadEnds(c)
      PROVE  CommitsP!PageInv' /\ CommitsP!Loads
  BY <1>1, CommitsLoadEnds, CommitsP!PageLoaded DEF Commits!LoadEnds
<1>. QED
  BY <1>1, CommitsUserStep DEF Commits!Next

LEMMA CommitsStart == Commits!Init => CommitsP!PageInv
BY CommitsSuits, CommitsInit, CommitsP!PageStart DEF Commits!Init

LEMMA CommitsSafe ==
  ASSUME CommitsP!PageInv
  PROVE  /\ Commits!TypeOK /\ Commits!P!UrlHoldsState /\ Commits!NoEmptyPage
         /\ Commits!LinksLeadToWhatIsShown
<1>1. Commits!TypeOK
  <2>1. Commits!P!Load!TypeOK
    BY DEF CommitsP!PageInv, CommitsP!AddressInv, CommitsP!LoadP!Inv, CommitsP!LoadP!TypeOK,
       CommitsP!Asked, CommitsP!state, Commits!P!Load!TypeOK, Commits!P!Asked, Commits!P!state
  <2>. QED
    BY <2>1, CommitsDerived, SameCounts
    DEF Commits!TypeOK, CommitsP!PageInv, CommitsP!AddressInv, CommitStates, Drafts2, N
<1>2. Commits!P!UrlHoldsState
  BY CommitsDerived DEF CommitsP!PageInv, Commits!P!UrlHoldsState, Commits!state
<1>3. ASSUME ~loading, ~failed, ~early, Commits!state.page > 1 PROVE Commits!Rows # {}
  <2>. DEFINE q == Commits!BuildParams(Commits!state)
  <2>1. rowsOf = q /\ rowsOf # NoRequest
    BY <1>3, CommitsSuits, CommitsDerived, CommitsP!PageShowsRows DEF CommitsP!Asked
  <2>2. \A desc \in BOOLEAN : Commits!PageRows(q.range, q.page, q.size, desc) # {}
    <3>1. \A desc \in BOOLEAN :
            CommitsP!PageRows(InRange(CommitsP!Asked), CommitsP!state.page, CommitsP!state.size, desc) # {}
      BY <1>3, CommitsSuits, CommitsDerived, CommitsP!PageShowsRows
    <3>2. /\ InRange(CommitsP!Asked) = q.range
          /\ q.page = CommitsP!state.page /\ q.size = CommitsP!state.size
      BY CommitsDerived DEF CommitsP!Asked, Commits!BuildParams, InRange
    <3>. HIDE DEF q
    <3>. QED
      BY <3>1, <3>2, CommitsDerived
  <2>3. q.order.desc \in BOOLEAN
    <3>1. rowsOf \in Commits!Requests
      BY <2>1 DEF CommitsP!PageInv, CommitsP!AddressInv, CommitsP!LoadP!Inv, CommitsP!LoadP!TypeOK
    <3>2. q.order \in CommitsP!OrdersOver(ServerFields)
      BY <2>1, <3>1, CommitsDerived DEF Commits!Requests
    <3>. HIDE DEF q
    <3>. QED
      BY <3>2, CommitsP!OrdersAreKept
  <2>. HIDE DEF q
  <2>. QED
    BY Zenon, <2>1, <2>2, <2>3 DEF Commits!Rows
<1>4. ASSUME NEW l \in Commits!Links PROVE l.row \in l.range
  <2>1. ~loading /\ l.row \in Commits!Rows /\ l.range = Commits!state.range
    BY DEF Commits!Links, Commits!FilteredRows
  <2>2. rowsOf # NoRequest /\ l.row \in rowsOf.range
    BY <2>1 DEF Commits!Rows, Commits!PageRows
  <2>3. rowsOf = CommitsP!Asked
    BY <2>1, <2>2, CommitsP!PageSettled DEF CommitsP!PageInv
  <2>. QED
    BY <2>1, <2>2, <2>3, CommitsDerived DEF CommitsP!Asked, Commits!BuildParams
<1>. QED
  BY <1>1, <1>2, <1>3, <1>4 DEF Commits!NoEmptyPage, Commits!LinksLeadToWhatIsShown
-----------------------------------------------------------------------------
(* The list of repositories.                                               *)

\* What the page is built from is what its proofs are about.
LEMMA ReposDerived ==
  /\ Repos!state = ReposP!state
  /\ Repos!Total = IF rowsOf = NoRequest THEN 0 ELSE ReposP!Cardinality(InRange(rowsOf))
  /\ \A p, t, z : Repos!Reachable(p, t, z) = ReposP!Reachable(p, t, z)
  /\ \A S, p, z, d : Repos!PageRows(S, p, z, d) = ReposP!PageRows(S, p, z, d)
  /\ \A s : Repos!P!Refill(s) = ReposP!Refill(s)
  /\ \A F : Repos!OrdersOver(F) = ReposP!OrdersOver(F)
  /\ \A o, f : Repos!NextOrder(o, f) = ReposP!NextOrder(o, f)
  /\ Repos!NoOrder = ReposP!NoOrder
BY SameCounts
DEF Repos!state, Repos!P!state, ReposP!state, Repos!Total, InRange,
    Repos!Reachable, Repos!PageCount, Repos!Neighbours,
    ReposP!Reachable, ReposP!PageCount, ReposP!Neighbours,
    Repos!PageRows, Repos!Rank, Repos!ByNumber, ReposP!PageRows, ReposP!Rank, ReposP!ByNumber,
    Repos!P!Refill, ReposP!Refill, Fields1,
    Repos!OrdersOver, Repos!NextOrder, Repos!NoOrder, Repos!By,
    ReposP!OrdersOver, ReposP!NextOrder, ReposP!NoOrder, ReposP!By

\* So are the orders of its rows.
LEMMA ReposOrders ==
  /\ \A S, R : Repos!InOrder(S, R) = ReposP!InOrder(S, R)
  /\ \A S, d : Repos!ByNumber(S, d) = ReposP!ByNumber(S, d)
  /\ \A r, v, d : Repos!SortRows(r, v, d) = ReposP!SortRows(r, v, d)
BY Zenon
DEF Repos!InOrder, Repos!Rank, Repos!ByNumber, Repos!ByValue, Repos!SortRows,
    Repos!Cardinality, ReposP!InOrder, ReposP!Rank, ReposP!ByNumber, ReposP!ByValue,
    ReposP!SortRows, ReposP!Cardinality

LEMMA ReposSuits == ReposP!Suits /\ ReposP!Paged
<1>1. Repos!Defaults \in RepoStates
  BY PageNumbers, PagesAssumption DEF Repos!Defaults, RepoStates, Repos!OrdersOver
<1>2. Repos!StateFromParams(<<>>) = Repos!Defaults
  BY ReposP!NothingRead DEF Repos!Defaults, Repos!StateFromParams
<1>3. ASSUME NEW s \in RepoStates
      PROVE  Repos!StateFromParams(Repos!BuildQuery(s)) = s
  <2>1. DOMAIN s = DOMAIN Repos!Defaults /\ s = [k \in DOMAIN s |-> s[k]]
    BY DEF RepoStates, Repos!Defaults
  <2>. QED
    BY <2>1, ReposP!RoundTrip DEF Repos!StateFromParams, Repos!BuildQuery
<1>4. ASSUME NEW s \in RepoStates
      PROVE  Repos!BuildParams(s) \in Repos!Requests /\ ReposP!Refill(s) \in Drafts1
  <2>1. (IF s.order.field \in ServerFields THEN s.order ELSE Repos!NoOrder)
          \in Repos!OrdersOver(ServerFields)
    BY ReposDerived, ReposP!OrdersAreKept DEF RepoStates
  <2>2. ReposP!Refill(s) \in Drafts1
    BY DEF RepoStates, ReposP!Refill, Fields1, Drafts1
  <2>3. Repos!Cardinality(Items) = N
    BY SameCounts DEF N
  <2>. QED
    BY <2>1, <2>2, <2>3 DEF RepoStates, Repos!BuildParams, Repos!Requests
<1>5. ASSUME NEW q \in Repos!Requests
      PROVE  InRange(q) \in SUBSET Items
  BY PageNumbers DEF Repos!Requests, InRange
<1>6. ReposP!Suits
  BY <1>1, <1>2, <1>3, <1>4, NoRequestAssumption DEF ReposP!Suits
<1>7. Repos!Defaults.page = 1 /\ "range" \in Fields1
  BY DEF Repos!Defaults, Fields1
<1>8. \A s \in RepoStates : s.page \in 1..N /\ s.size \in Nat \ {0}
  BY PageNumbers DEF RepoStates
<1>9. ReposP!Paged
  BY <1>5, <1>7, <1>8, SomeRows, MatchingCount, SameCounts DEF ReposP!Paged
<1>. QED
  BY <1>6, <1>9

\* The steps of the page are those its proofs are about.
LEMMA ReposGoto ==
  ASSUME NEW u, NEW s, NEW d, NEW e, Repos!P!Goto(u, s, d, e)
  PROVE  ReposP!Goto(u, s, d, e)
BY SameCounts
DEF Repos!P!Goto, Repos!P!Rerun, Repos!P!load, Repos!P!Refill, Repos!P!Load!Ask,
    Repos!P!Load!Call, Repos!P!Asked, Repos!P!state,
    ReposP!Goto, ReposP!Rerun, ReposP!load, ReposP!Refill, ReposP!Load!Ask, ReposP!Load!Call,
    ReposP!Asked, ReposP!state, Fields1

LEMMA ReposReload == Repos!P!Reload => ReposP!Reload
BY DEF Repos!P!Reload, Repos!P!Load!Open, Repos!P!Load!Call, Repos!P!Asked, Repos!P!state,
       Repos!P!Refill, ReposP!Reload, ReposP!Load!Open, ReposP!Load!Call, ReposP!Asked,
       ReposP!state, ReposP!Refill, Fields1

LEMMA ReposLoadEnds ==
  ASSUME NEW c \in calls, Repos!P!LoadEnds(c)
  PROVE  ReposP!LoadEnds(c)
BY DEF Repos!P!LoadEnds, Repos!P!Load!End, Repos!P!Load!Answer, Repos!P!Load!Refuse,
       Repos!P!Asked, Repos!P!state, ReposP!LoadEnds, ReposP!Load!End, ReposP!Load!Answer,
       ReposP!Load!Refuse, ReposP!Asked, ReposP!state

LEMMA ReposInit == Repos!P!Init => ReposP!Init
BY DEF Repos!P!Init, Repos!P!Load!Init, Repos!P!Load!Call, Repos!P!Refill, Repos!P!Asked,
       Repos!P!state, ReposP!Init, ReposP!Load!Init, ReposP!Load!Call, ReposP!Refill,
       ReposP!Asked, ReposP!state, Fields1

\* The field holds the dates of the address.
LEMMA ReposDrafted ==
  ASSUME ReposP!PageInv
  PROVE  Repos!P!Drafted = ReposP!state
<1>. DEFINE s == ReposP!state
<1>1. s \in RepoStates /\ draft.range = s.range
  BY DEF ReposP!PageInv, ReposP!AddressInv
<1>2. Repos!P!Drafted = [k \in DOMAIN s |-> IF k \in {"range"} THEN draft[k] ELSE s[k]]
  BY DEF Repos!P!Drafted, ReposP!state, Repos!P!state
<1>. HIDE DEF s
<1>3. Repos!P!Drafted = s
  BY <1>1, <1>2 DEF RepoStates
<1>. QED
  BY <1>3 DEF s

\* The address changes to one with rows on its page, or picked on other rows.
LEMMA ReposCommit ==
  ASSUME ReposP!PageInv, NEW s \in RepoStates, NEW d \in Drafts1, NEW e,
         Repos!P!Commit(s, d, e), d.range = s.range,
         e \/ s.page = 1 \/ ReposP!Filled(ReposP!Cardinality(s.range), s.size, s.page)
  PROVE  ReposP!PageInv' /\ ReposP!Loads
<1>1. ReposP!Commit(s, d, e)
  BY ReposGoto DEF Repos!P!Commit, ReposP!Commit
<1>2. InRange(Repos!BuildParams(s)) = s.range
  BY DEF InRange, Repos!BuildParams
<1>. QED
  BY <1>1, <1>2, ReposSuits, ReposP!PageCommit

LEMMA ReposUserStep ==
  ASSUME ReposP!PageInv, Repos!UserEvents
  PROVE  ReposP!PageInv' /\ ReposP!Loads
<1>. DEFINE s == ReposP!state
            dr == Repos!P!Drafted
            Goal == ReposP!PageInv' /\ ReposP!Loads
<1>0. /\ s \in RepoStates /\ s.page \in 1..N /\ 1 \in 1..N /\ draft \in Drafts1
      /\ dr \in RepoStates /\ draft.range = s.range
      /\ dr.range = s.range /\ dr.page = s.page /\ dr.size = s.size
      /\ early \/ ReposP!Filled(ReposP!Cardinality(s.range), s.size, s.page)
  <2>1. s \in RepoStates /\ draft \in Drafts1 /\ draft.range = s.range
    BY DEF ReposP!PageInv, ReposP!AddressInv
  <2>2. s.page \in 1..N /\ 1 \in 1..N
    BY <2>1, PageNumbers DEF RepoStates
  <2>3. dr \in RepoStates /\ dr.range = s.range /\ dr.page = s.page /\ dr.size = s.size
    BY <2>1, ReposDrafted
  <2>4. early \/ ReposP!Filled(ReposP!Cardinality(s.range), s.size, s.page)
    BY DEF ReposP!PageInv, ReposP!Asked, Repos!BuildParams, InRange
  <2>. QED
    BY <2>1, <2>2, <2>3, <2>4
<1>. HIDE DEF s, dr
<1>1. CASE Repos!P!OpenFromMenu
  <2>1. ReposP!OpenFromMenu
    BY <1>1, ReposGoto DEF Repos!P!OpenFromMenu, ReposP!OpenFromMenu
  <2>. QED
    BY <2>1, ReposSuits, ReposP!PageOpened
<1>2. CASE Repos!P!Reload
  BY <1>2, ReposSuits, ReposReload, ReposP!PageReloaded
<1>3. ASSUME NEW r \in Ranges, Repos!OnDateChange(r) PROVE Goal
  <2>. DEFINE t == [dr EXCEPT !.range = r, !.page = 1]
              d == [draft EXCEPT !.range = r]
  <2>1. t \in RepoStates /\ t.range = r /\ t.page = 1 /\ d \in Drafts1 /\ d.range = r
    BY <1>0 DEF RepoStates, Drafts1
  <2>2. Repos!P!Commit(t, d, FALSE)
    BY <1>3 DEF Repos!OnDateChange, dr
  <2>. HIDE DEF t, d
  <2>. QED
    BY <2>1, <2>2, ReposCommit
<1>4. ASSUME NEW n \in Sizes, Repos!HandleSizeChange(n) PROVE Goal
  <2>. DEFINE t == [dr EXCEPT !.size = n, !.page = 1]
  <2>1. t \in RepoStates /\ t.range = s.range /\ t.page = 1
    BY <1>0 DEF RepoStates
  <2>2. Repos!P!Commit(t, draft, FALSE)
    BY <1>4 DEF Repos!HandleSizeChange, dr
  <2>. HIDE DEF t
  <2>. QED
    BY <1>0, <2>1, <2>2, ReposCommit
<1>5. ASSUME NEW p, Repos!HandlePageChange(p) PROVE Goal
  <2>. DEFINE t == [dr EXCEPT !.page = p]
  <2>1. p \in ReposP!Reachable(s.page, Repos!Total, s.size)
    BY <1>5, ReposDerived DEF Repos!HandlePageChange, s
  <2>2. /\ p \in 1..N
        /\ loading \/ early \/ ReposP!Filled(ReposP!Cardinality(s.range), s.size, p)
    BY <2>1, ReposDerived, ReposSuits, ReposP!BarLeadsToRows
    DEF s, ReposP!Asked, Repos!BuildParams, InRange
  <2>3. t \in RepoStates /\ t.range = s.range /\ t.size = s.size /\ t.page = p
    BY <1>0, <2>2 DEF RepoStates
  <2>4. Repos!P!Commit(t, draft, loading \/ early)
    BY <1>5 DEF Repos!HandlePageChange, dr
  <2>. HIDE DEF t
  <2>. QED
    BY <1>0, <2>2, <2>3, <2>4, ReposCommit
<1>6. ASSUME NEW f \in ServerFields \cup ClientFields, Repos!OnSortChange(f) PROVE Goal
  <2>. DEFINE o == Repos!NextOrder(s.order, f)
              pg == IF f \in ServerFields THEN 1 ELSE dr.page
              t == [dr EXCEPT !.order = o, !.page = pg]
  <2>2. o \in Repos!OrdersOver(ServerFields \cup ClientFields)
    BY <1>0, ReposDerived, ReposP!OrdersAreKept DEF RepoStates
  <2>3. pg \in 1..N /\ (f \in ServerFields => pg = 1) /\ (f \notin ServerFields => pg = s.page)
    BY <1>0
  <2>4. Repos!P!Commit(t, draft, early /\ f \notin ServerFields)
    BY <1>6, ReposDerived DEF Repos!OnSortChange, dr, s
  <2>. HIDE DEF o, pg
  <2>5. t \in RepoStates /\ t.range = s.range /\ t.size = s.size /\ t.page = pg
    BY <1>0, <2>2, <2>3 DEF RepoStates
  <2>. HIDE DEF t
  <2>. QED
    BY <1>0, <2>3, <2>4, <2>5, ReposCommit
<1>. QED
  BY <1>1, <1>2, <1>3, <1>4, <1>5, <1>6 DEF Repos!UserEvents

LEMMA ReposNext == ReposP!PageInv /\ Repos!Next => ReposP!PageInv' /\ ReposP!Loads
<1>1. ASSUME ReposP!PageInv, NEW c \in calls, Repos!LoadEnds(c)
      PROVE  ReposP!PageInv' /\ ReposP!Loads
  BY <1>1, ReposLoadEnds, ReposP!PageLoaded DEF Repos!LoadEnds
<1>. QED
  BY <1>1, ReposUserStep DEF Repos!Next

LEMMA ReposStart == Repos!Init => ReposP!PageInv
BY ReposSuits, ReposInit, ReposP!PageStart DEF Repos!Init

\* Once the page is settled its rows are those of the address, by number.
LEMMA ReposRows ==
  ASSUME ReposP!PageInv, ~loading, ~failed
  PROVE  LET s == Repos!state
             q == Repos!BuildParams(s)
             S == Repos!PageRows(q.range, q.page, q.size, q.order.desc)
         IN  /\ rowsOf = q
             /\ q.order.desc \in BOOLEAN
             /\ S \in SUBSET Items /\ Cardinality(S) \in Nat
             /\ ~early /\ s.page > 1 => S # {}
             /\ Repos!Rows \in [1..Cardinality(S) -> S]
             /\ \A i, j \in 1..Cardinality(S) : i < j =>
                  IF q.order.desc THEN Repos!Rows[i] > Repos!Rows[j] ELSE Repos!Rows[i] < Repos!Rows[j]
<1>. DEFINE s == Repos!state
            q == Repos!BuildParams(s)
            S == Repos!PageRows(q.range, q.page, q.size, q.order.desc)
            R == ReposP!ByNumber(S, q.order.desc)
<1>1. rowsOf = q /\ rowsOf # NoRequest /\ q \in Repos!Requests
  <2>1. rowsOf = q /\ rowsOf # NoRequest
    BY ReposSuits, ReposDerived, ReposP!PageShowsRows DEF ReposP!Asked
  <2>. QED
    BY <2>1 DEF ReposP!PageInv, ReposP!AddressInv, ReposP!LoadP!Inv, ReposP!LoadP!TypeOK
<1>2. q.order.desc \in BOOLEAN
  <2>1. q.order \in ReposP!OrdersOver(ServerFields)
    BY <1>1, ReposDerived DEF Repos!Requests
  <2>. HIDE DEF q
  <2>. QED
    BY <2>1, ReposP!OrdersAreKept
<1>3. S \in SUBSET Items
  <2>1. q.range \in SUBSET Items
    BY <1>1, PageNumbers DEF Repos!Requests
  <2>. HIDE DEF q
  <2>. QED
    BY <2>1 DEF Repos!PageRows
<1>4. ASSUME ~early, s.page > 1 PROVE S # {}
  <2>1. \A desc \in BOOLEAN :
          ReposP!PageRows(InRange(ReposP!Asked), ReposP!state.page, ReposP!state.size, desc) # {}
    BY <1>4, ReposSuits, ReposDerived, ReposP!PageShowsRows
  <2>2. /\ InRange(ReposP!Asked) = q.range
        /\ q.page = ReposP!state.page /\ q.size = ReposP!state.size
    BY ReposDerived DEF ReposP!Asked, Repos!BuildParams, InRange
  <2>. HIDE DEF q
  <2>3. \A desc \in BOOLEAN : Repos!PageRows(q.range, q.page, q.size, desc) # {}
    BY <2>1, <2>2, ReposDerived
  <2>. QED
    BY Zenon, <1>2, <2>3
<1>5. S \in SUBSET Int /\ IsFiniteSet(S) /\ Cardinality(S) \in Nat
  <2>. HIDE DEF S
  <2>. QED
    BY <1>3, MatchingCount
<1>6. ReposP!StrictOrder(S, R)
  <2>1. \A desc \in BOOLEAN : ReposP!StrictOrder(S, ReposP!ByNumber(S, desc))
    BY <1>5, ReposP!NumbersAreOrdered
  <2>. HIDE DEF S, q
  <2>. QED
    BY Zenon, <1>2, <2>1
<1>7. Repos!Rows = ReposP!InOrder(S, R)
  BY Zenon, <1>1, ReposOrders DEF Repos!Rows
<1>. HIDE DEF S, R
<1>8. /\ Repos!Rows \in [1..Cardinality(S) -> S]
      /\ \A i, j \in 1..Cardinality(S) : i < j => <<Repos!Rows[i], Repos!Rows[j]>> \in R
  BY <1>5, <1>6, <1>7, SameCounts, ReposP!InOrderIs
<1>9. ASSUME NEW a, NEW b, <<a, b>> \in R PROVE IF q.order.desc THEN a > b ELSE a < b
  <2>. HIDE DEF q
  <2>. QED
    BY <1>9 DEF R, ReposP!ByNumber
<1>. HIDE DEF q, s
<1>10. \A i, j \in 1..Cardinality(S) : i < j =>
         IF q.order.desc THEN Repos!Rows[i] > Repos!Rows[j] ELSE Repos!Rows[i] < Repos!Rows[j]
  BY <1>8, <1>9
<1>. QED
  BY <1>1, <1>2, <1>3, <1>4, <1>5, <1>8, <1>10 DEF S, q, s

LEMMA ReposSafe ==
  ASSUME ReposP!PageInv
  PROVE  Repos!TypeOK /\ Repos!NoEmptyPage /\ Repos!SortedAsShown
<1>1. Repos!TypeOK
  <2>1. Repos!P!Load!TypeOK
    BY DEF ReposP!PageInv, ReposP!AddressInv, ReposP!LoadP!Inv, ReposP!LoadP!TypeOK,
       ReposP!Asked, ReposP!state, Repos!P!Load!TypeOK, Repos!P!Asked, Repos!P!state
  <2>. QED
    BY <2>1, ReposDerived, SameCounts
    DEF Repos!TypeOK, ReposP!PageInv, ReposP!AddressInv, RepoStates, Drafts1, N
<1>2. ASSUME ~loading, ~failed, ~early, Repos!state.page > 1 PROVE Repos!Rows # <<>>
  <2>1. PICK S : /\ S # {} /\ IsFiniteSet(S) /\ Cardinality(S) \in Nat
                 /\ Repos!Rows \in [1..Cardinality(S) -> S]
    BY <1>2, ReposRows, MatchingCount
  <2>2. Cardinality(S) # 0
    BY <2>1, FS_EmptySet
  <2>. QED
    BY <2>1, <2>2
<1>3. ASSUME ~loading, ~failed,
             NEW i \in DOMAIN Repos!DisplayRows, NEW j \in DOMAIN Repos!DisplayRows, i < j
      PROVE  LET a == Repos!DisplayRows[i]
                 b == Repos!DisplayRows[j]
                 o == Repos!state.order
             IN  IF o.field \in ClientFields
                 THEN \/ Value[b] = NoValue
                      \/ /\ Value[a] # NoValue
                         /\ IF o.desc THEN Value[a] >= Value[b] ELSE Value[a] <= Value[b]
                 ELSE IF o.desc THEN a > b ELSE a < b
  <2>. DEFINE o == Repos!state.order
              q == Repos!BuildParams(Repos!state)
              rows == Repos!Rows
  <2>0. o \in Repos!OrdersOver(ServerFields \cup ClientFields)
    BY ReposDerived DEF ReposP!PageInv, ReposP!AddressInv, RepoStates
  <2>1. PICK S : /\ S \in SUBSET Items /\ Cardinality(S) \in Nat
                 /\ rows \in [1..Cardinality(S) -> S]
                 /\ \A k, l \in 1..Cardinality(S) : k < l =>
                      IF q.order.desc THEN rows[k] > rows[l] ELSE rows[k] < rows[l]
    BY <1>3, ReposRows
  <2>2. CASE o.field \in ClientFields
    <3>1. rows \in Seq(Items) /\ Len(rows) = Cardinality(S)
      <4>. HIDE DEF rows
      <4>. QED
        BY <2>1
    <3>2. o.desc \in BOOLEAN /\ \A x \in Items : Value[x] \in Nat \cup {NoValue}
      BY <2>0, PagesAssumption, ReposDerived, ReposP!OrdersAreKept
    <3>3. Repos!DisplayRows = ReposP!SortRows(rows, Value, o.desc)
      BY Zenon, <2>2, ReposOrders DEF Repos!DisplayRows
    <3>. HIDE DEF o, rows
    <3>4. LET d == Repos!DisplayRows IN
          /\ d \in Seq(Items) /\ Len(d) = Len(rows)
          /\ \A k, l \in 1..Len(rows) : k < l =>
               \/ Value[d[l]] = NoValue
               \/ /\ Value[d[k]] # NoValue
                  /\ IF o.desc THEN Value[d[k]] >= Value[d[l]] ELSE Value[d[k]] <= Value[d[l]]
      <4>1. \A desc \in BOOLEAN :
             LET d == ReposP!SortRows(rows, Value, desc) IN
             /\ d \in Seq(Items) /\ Len(d) = Len(rows)
             /\ \A k, l \in 1..Len(rows) : k < l =>
               \/ Value[d[l]] = NoValue
               \/ /\ Value[d[k]] # NoValue
                  /\ IF desc THEN Value[d[k]] >= Value[d[l]] ELSE Value[d[k]] <= Value[d[l]]
        BY <3>1, <3>2, ReposP!SortedRows
      <4>. QED
        BY Zenon, <3>2, <3>3, <4>1
    <3>. QED
      BY <1>3, <2>2, <3>4 DEF o
  <2>3. CASE o.field \notin ClientFields
    <3>1. Repos!DisplayRows = rows
      BY <2>3 DEF Repos!DisplayRows
    <3>2. q.order.desc = o.desc
      <4>1. o.field \in ServerFields \/ o = Repos!NoOrder
        BY <2>0, <2>3 DEF Repos!OrdersOver
      <4>. QED
        BY <4>1 DEF Repos!BuildParams, Repos!NoOrder
    <3>. HIDE DEF o, q, rows
    <3>3. DOMAIN rows = 1..Cardinality(S)
      BY <2>1
    <3>. QED
      BY <1>3, <2>1, <2>3, <3>1, <3>2, <3>3 DEF o
  <2>. QED
    BY <2>2, <2>3
<1>. QED
  BY <1>1, <1>2, <1>3 DEF Repos!NoEmptyPage, Repos!SortedAsShown
-----------------------------------------------------------------------------
(* The list of needs.                                                      *)

\* What the page is built from is what its proofs are about.
LEMMA NeedsDerived ==
  /\ Needs!state = NeedsP!state
  /\ Needs!Total = IF rowsOf = NoRequest THEN 0 ELSE NeedsP!Cardinality(Filtered(rowsOf))
  /\ \A p, t, z : Needs!Reachable(p, t, z) = NeedsP!Reachable(p, t, z)
  /\ \A S, p, z, d : Needs!PageRows(S, p, z, d) = NeedsP!PageRows(S, p, z, d)
  /\ \A s : Needs!P!Refill(s) = NeedsP!Refill(s)
  /\ \A F : Needs!OrdersOver(F) = NeedsP!OrdersOver(F)
  /\ \A o, f : Needs!NextOrder(o, f) = NeedsP!NextOrder(o, f)
  /\ Needs!NoOrder = NeedsP!NoOrder
  /\ \A q : Needs!Matching(q) = Filtered(q)
BY SameCounts
DEF Needs!state, Needs!P!state, NeedsP!state, Needs!Total, Needs!Matching, Filtered,
    Needs!Reachable, Needs!PageCount, Needs!Neighbours,
    NeedsP!Reachable, NeedsP!PageCount, NeedsP!Neighbours,
    Needs!PageRows, Needs!Rank, Needs!ByNumber, NeedsP!PageRows, NeedsP!Rank, NeedsP!ByNumber,
    Needs!P!Refill, NeedsP!Refill, FieldsF,
    Needs!OrdersOver, Needs!NextOrder, Needs!NoOrder, Needs!By,
    NeedsP!OrdersOver, NeedsP!NextOrder, NeedsP!NoOrder, NeedsP!By

\* No page read from an address is larger than the backend serves.
LEMMA NeedsClamp ==
  ASSUME NEW s \in NeedStates
  PROVE  [s EXCEPT !.size = IF @ > MaxSize THEN MaxSize ELSE @] = s
BY PagesAssumption DEF NeedStates

LEMMA NeedsSuits == NeedsP!Suits /\ NeedsP!Paged
<1>0. DefaultSize \in 1..MaxSize /\ MaxSize \in Nat
  BY PagesAssumption
<1>1. Needs!Defaults \in NeedStates /\ Needs!Defaults.size <= MaxSize
  BY <1>0, PageNumbers, PagesAssumption DEF Needs!Defaults, NeedStates, Needs!OrdersOver
<1>2. Needs!StateFromParams(<<>>) = Needs!Defaults
  <2>1. [k \in DOMAIN Needs!Defaults |->
           IF k \in DOMAIN <<>> THEN <<>>[k] ELSE Needs!Defaults[k]] = Needs!Defaults
    BY NeedsP!NothingRead DEF Needs!Defaults
  <2>. QED
    BY <1>0, <1>1, <2>1, NeedsClamp DEF Needs!StateFromParams, NeedStates
<1>3. ASSUME NEW s \in NeedStates
      PROVE  Needs!StateFromParams(Needs!BuildQuery(s)) = s
  <2>. DEFINE u == Needs!BuildQuery(s)
  <2>1. DOMAIN s = DOMAIN Needs!Defaults /\ s = [k \in DOMAIN s |-> s[k]]
    BY DEF NeedStates, Needs!Defaults
  <2>2. [k \in DOMAIN Needs!Defaults |->
           IF k \in DOMAIN u THEN u[k] ELSE Needs!Defaults[k]] = s
    BY <2>1, NeedsP!RoundTrip DEF Needs!BuildQuery
  <2>. QED
    BY <2>2, NeedsClamp DEF Needs!StateFromParams
<1>4. ASSUME NEW s \in NeedStates
      PROVE  Needs!BuildParams(s) \in Needs!Requests /\ NeedsP!Refill(s) \in DraftsF
  <2>1. NeedsP!Refill(s) \in DraftsF
    BY DEF NeedStates, NeedsP!Refill, FieldsF, DraftsF
  <2>2. Needs!Cardinality(Items) = N
    BY SameCounts DEF N
  <2>. QED
    BY <2>1, <2>2 DEF NeedStates, Needs!BuildParams, Needs!Requests
<1>5. ASSUME NEW q \in Needs!Requests
      PROVE  Filtered(q) \in SUBSET Items
  BY PageNumbers, PagesAssumption DEF Needs!Requests, Filtered
<1>6. NeedsP!Suits
  BY <1>1, <1>2, <1>3, <1>4, NoRequestAssumption DEF NeedsP!Suits
<1>7. Needs!Defaults.page = 1 /\ "range" \in FieldsF
  BY DEF Needs!Defaults, FieldsF
<1>8. \A s \in NeedStates : s.page \in 1..N /\ s.size \in Nat \ {0}
  BY <1>0 DEF NeedStates
<1>9. NeedsP!Paged
  BY <1>5, <1>7, <1>8, SomeRows, MatchingCount, SameCounts DEF NeedsP!Paged
<1>. QED
  BY <1>6, <1>9

\* The steps of the page are those its proofs are about.
LEMMA NeedsGoto ==
  ASSUME NEW u, NEW s, NEW d, NEW e, Needs!P!Goto(u, s, d, e)
  PROVE  NeedsP!Goto(u, s, d, e)
BY SameCounts
DEF Needs!P!Goto, Needs!P!Rerun, Needs!P!load, Needs!P!Refill, Needs!P!Load!Ask,
    Needs!P!Load!Call, Needs!P!Asked, Needs!P!state,
    NeedsP!Goto, NeedsP!Rerun, NeedsP!load, NeedsP!Refill, NeedsP!Load!Ask, NeedsP!Load!Call,
    NeedsP!Asked, NeedsP!state, FieldsF

LEMMA NeedsReload == Needs!P!Reload => NeedsP!Reload
BY DEF Needs!P!Reload, Needs!P!Load!Open, Needs!P!Load!Call, Needs!P!Asked, Needs!P!state,
       Needs!P!Refill, NeedsP!Reload, NeedsP!Load!Open, NeedsP!Load!Call, NeedsP!Asked,
       NeedsP!state, NeedsP!Refill, FieldsF

LEMMA NeedsLoadEnds ==
  ASSUME NEW c \in calls, Needs!P!LoadEnds(c)
  PROVE  NeedsP!LoadEnds(c)
BY DEF Needs!P!LoadEnds, Needs!P!Load!End, Needs!P!Load!Answer, Needs!P!Load!Refuse,
       Needs!P!Asked, Needs!P!state, NeedsP!LoadEnds, NeedsP!Load!End, NeedsP!Load!Answer,
       NeedsP!Load!Refuse, NeedsP!Asked, NeedsP!state

LEMMA NeedsInit == Needs!P!Init => NeedsP!Init
BY DEF Needs!P!Init, Needs!P!Load!Init, Needs!P!Load!Call, Needs!P!Refill, Needs!P!Asked,
       Needs!P!state, NeedsP!Init, NeedsP!Load!Init, NeedsP!Load!Call, NeedsP!Refill,
       NeedsP!Asked, NeedsP!state, FieldsF

\* The fields hold the dates of the address, and perhaps another filter.
LEMMA NeedsDrafted ==
  ASSUME NeedsP!PageInv
  PROVE  LET dr == Needs!P!Drafted
             s == NeedsP!state
         IN  /\ dr \in NeedStates
             /\ dr.range = draft.range /\ dr.filter = draft.filter
             /\ dr.page = s.page /\ dr.size = s.size
             /\ ~Needs!Draftless => draft.filter = s.filter
<1>. DEFINE s == NeedsP!state
<1>1. s \in NeedStates /\ draft \in DraftsF /\ draft.range = s.range
  BY DEF NeedsP!PageInv, NeedsP!AddressInv
<1>2. Needs!P!Drafted = [k \in DOMAIN s |-> IF k \in {"range", "filter"} THEN draft[k] ELSE s[k]]
  BY DEF Needs!P!Drafted, NeedsP!state, Needs!P!state
<1>3. ~Needs!Draftless => draft = NeedsP!Refill(s)
  BY NeedsDerived DEF Needs!Draftless
<1>. HIDE DEF s
<1>4. Needs!P!Drafted \in NeedStates
  BY <1>1, <1>2 DEF NeedStates, DraftsF
<1>5. ~Needs!Draftless => draft.filter = s.filter
  BY <1>3 DEF NeedsP!Refill, FieldsF
<1>. QED
  BY <1>1, <1>2, <1>4, <1>5 DEF s, NeedStates, DraftsF

\* The address changes to one with rows on its page, or picked on other rows, and the
\* fields hold what they are to hold, refilled or not.
LEMMA NeedsMove ==
  ASSUME NeedsP!PageInv, NEW u, NEW s \in NeedStates, NEW d \in DraftsF, NEW e,
         Needs!P!Goto(u, s, d, e), Needs!StateFromParams(u) = s,
         d.range = s.range, d.filter = s.filter,
         e \/ s.page = 1 \/ NeedsP!Filled(NeedsP!Cardinality(s.range \cap s.filter), s.size, s.page)
  PROVE  NeedsP!PageInv' /\ NeedsP!Loads /\ draft' = d
<1>1. NeedsP!Goto(u, s, d, e)
  BY NeedsGoto
<1>2. Filtered(Needs!BuildParams(s)) = s.range \cap s.filter
  BY DEF Filtered, Needs!BuildParams
<1>3. NeedsP!PageInv' /\ NeedsP!Loads
  BY <1>1, <1>2, NeedsSuits, NeedsP!PageMove
<1>4. NeedsP!Refill(s) = d
  BY DEF NeedsP!Refill, FieldsF, DraftsF
<1>5. draft' = d
  BY <1>1, <1>4 DEF NeedsP!Goto
<1>. QED
  BY <1>3, <1>5

LEMMA NeedsCommit ==
  ASSUME NeedsP!PageInv, NEW s \in NeedStates, NEW d \in DraftsF, NEW e,
         Needs!P!Commit(s, d, e), d.range = s.range, d.filter = s.filter,
         e \/ s.page = 1 \/ NeedsP!Filled(NeedsP!Cardinality(s.range \cap s.filter), s.size, s.page)
  PROVE  NeedsP!PageInv' /\ NeedsP!Loads /\ draft' = d
BY NeedsSuits, NeedsMove DEF Needs!P!Commit, NeedsP!Suits

\* The fields hold what was typed, whatever the refill does.
NeedsInv == NeedsP!PageInv /\ draft = typed

LEMMA NeedsUserStep ==
  ASSUME NeedsInv, Needs!UserEvents
  PROVE  NeedsInv' /\ NeedsP!Loads
<1>. DEFINE s == NeedsP!state
            dr == Needs!P!Drafted
            d0 == NeedsP!Refill(Needs!Defaults)
            Goal == NeedsInv' /\ NeedsP!Loads
<1>0. /\ NeedsP!PageInv /\ draft = typed
      /\ s \in NeedStates /\ s.page \in 1..N /\ 1 \in 1..N /\ draft \in DraftsF
      /\ dr \in NeedStates /\ draft.range = s.range
      /\ dr.range = draft.range /\ dr.filter = draft.filter /\ dr.page = s.page /\ dr.size = s.size
      /\ ~Needs!Draftless => draft.filter = s.filter
  <2>1. s \in NeedStates /\ draft \in DraftsF /\ draft.range = s.range
    BY DEF NeedsInv, NeedsP!PageInv, NeedsP!AddressInv
  <2>2. s.page \in 1..N /\ 1 \in 1..N
    BY <2>1, PageNumbers DEF NeedStates
  <2>. QED
    BY <2>1, <2>2, NeedsDrafted DEF NeedsInv
<1>01. /\ Needs!Defaults \in NeedStates /\ Needs!Defaults.page = 1 /\ d0 \in DraftsF
       /\ d0.range = Needs!Defaults.range /\ d0.filter = Needs!Defaults.filter
       /\ d0 = Needs!P!Refill(Needs!Defaults)
  <2>1. Needs!Defaults \in NeedStates /\ Needs!Defaults.page = 1 /\ d0 \in DraftsF
    BY NeedsSuits DEF NeedsP!Suits, NeedsP!Paged
  <2>2. d0.range = Needs!Defaults.range /\ d0.filter = Needs!Defaults.filter
    BY DEF NeedsP!Refill, FieldsF
  <2>. QED
    BY <2>1, <2>2, NeedsDerived
<1>. HIDE DEF s, dr, d0
<1>1. ASSUME NEW f \in Names, Needs!TypeFilter(f) PROVE Goal
  <2>1. /\ draft' = [draft EXCEPT !.filter = f] /\ typed' = [typed EXCEPT !.filter = f]
        /\ UNCHANGED <<url, NeedsP!load, meant, early>>
    BY <1>1 DEF Needs!TypeFilter, Needs!P!Type, Needs!P!load, NeedsP!load
  <2>2. draft' \in DraftsF /\ draft'.range = draft.range
    BY <1>0, <2>1 DEF DraftsF
  <2>3. NeedsP!PageInv' /\ NeedsP!Loads
    BY <1>0, <2>1, <2>2, NeedsP!PageFields
  <2>. QED
    BY <1>0, <2>1, <2>3 DEF NeedsInv
<1>2. CASE Needs!ApplyFilters
  <2>. DEFINE t == [dr EXCEPT !.page = 1]
  <2>1. t \in NeedStates /\ t.range = draft.range /\ t.filter = draft.filter /\ t.page = 1
    BY <1>0 DEF NeedStates
  <2>2. Needs!P!Commit(t, draft, FALSE) /\ typed' = typed
    BY <1>2 DEF Needs!ApplyFilters, Needs!KeepTyped, dr
  <2>. HIDE DEF t
  <2>. QED
    BY <1>0, <2>1, <2>2, NeedsCommit DEF NeedsInv
<1>3. CASE Needs!ResetFilters
  <2>1. Needs!P!Commit(Needs!Defaults, d0, FALSE) /\ typed' = d0
    BY <1>3, <1>01 DEF Needs!ResetFilters
  <2>. QED
    BY <1>0, <1>01, <2>1, NeedsCommit DEF NeedsInv
<1>4. CASE Needs!OpenFromMenu
  <2>1. NeedsP!OpenFromMenu /\ typed' = IF url = <<>> THEN typed ELSE d0
    BY <1>4, <1>01, NeedsGoto
    DEF Needs!OpenFromMenu, Needs!P!OpenFromMenu, NeedsP!OpenFromMenu
  <2>2. NeedsP!PageInv' /\ NeedsP!Loads
    BY <1>0, <2>1, NeedsSuits, NeedsP!PageOpened
  <2>3. draft' = IF url = <<>> THEN draft ELSE d0
    BY <2>1, NeedsSuits DEF NeedsP!OpenFromMenu, NeedsP!Goto, NeedsP!Suits, d0
  <2>. QED
    BY <1>0, <2>1, <2>2, <2>3 DEF NeedsInv
<1>5. CASE Needs!Reload
  <2>1. NeedsP!Reload /\ typed' = NeedsP!Refill(s)
    BY <1>5, NeedsReload, NeedsDerived DEF Needs!Reload, s
  <2>2. NeedsP!PageInv' /\ NeedsP!Loads
    BY <1>0, <2>1, NeedsSuits, NeedsP!PageReloaded
  <2>3. draft' = NeedsP!Refill(s)
    BY <2>1 DEF NeedsP!Reload, s
  <2>. QED
    BY <2>1, <2>2, <2>3 DEF NeedsInv
<1>6. ASSUME NEW r \in Ranges, Needs!OnDateChange(r) PROVE Goal
  <2>. DEFINE t == [dr EXCEPT !.range = r, !.page = 1]
              d == [draft EXCEPT !.range = r]
  <2>1. /\ t \in NeedStates /\ t.range = r /\ t.filter = draft.filter /\ t.page = 1
        /\ d \in DraftsF /\ d.range = r /\ d.filter = draft.filter
    BY <1>0 DEF NeedStates, DraftsF
  <2>2. Needs!P!Commit(t, d, FALSE) /\ typed' = d
    BY <1>0, <1>6 DEF Needs!OnDateChange, dr
  <2>. HIDE DEF t, d
  <2>. QED
    BY <1>0, <2>1, <2>2, NeedsCommit DEF NeedsInv
<1>7. ASSUME NEW n \in Sizes, Needs!HandleSizeChange(n) PROVE Goal
  <2>. DEFINE t == [dr EXCEPT !.size = n, !.page = 1]
  <2>1. n \in 1..MaxSize
    BY PagesAssumption
  <2>2. t \in NeedStates /\ t.range = draft.range /\ t.filter = draft.filter /\ t.page = 1
    BY <1>0, <2>1 DEF NeedStates
  <2>3. Needs!P!Commit(t, draft, FALSE) /\ typed' = typed
    BY <1>7 DEF Needs!HandleSizeChange, Needs!KeepTyped, dr
  <2>. HIDE DEF t
  <2>. QED
    BY <1>0, <2>2, <2>3, NeedsCommit DEF NeedsInv
<1>8. ASSUME NEW p, Needs!HandlePageChange(p) PROVE Goal
  <2>. DEFINE t == [dr EXCEPT !.page = p]
              e == loading \/ Needs!Draftless \/ early
  <2>1. p \in NeedsP!Reachable(s.page, Needs!Total, s.size)
    BY <1>8, NeedsDerived DEF Needs!HandlePageChange, s
  <2>2. /\ p \in 1..N
        /\ loading \/ early \/ NeedsP!Filled(NeedsP!Cardinality(s.range \cap s.filter), s.size, p)
    BY <1>0, <2>1, NeedsDerived, NeedsSuits, NeedsP!BarLeadsToRows
    DEF s, NeedsP!Asked, Needs!BuildParams, Filtered
  <2>3. /\ t \in NeedStates /\ t.range = draft.range /\ t.filter = draft.filter
        /\ t.size = s.size /\ t.page = p
    BY <1>0, <2>2 DEF NeedStates
  <2>4. Needs!P!Commit(t, draft, e) /\ typed' = typed
    BY <1>8 DEF Needs!HandlePageChange, Needs!KeepTyped, dr
  <2>. HIDE DEF t
  <2>5. e \/ NeedsP!Filled(NeedsP!Cardinality(t.range \cap t.filter), t.size, t.page)
    BY <1>0, <2>2, <2>3
  <2>. HIDE DEF e
  <2>. QED
    BY <1>0, <2>3, <2>4, <2>5, NeedsCommit DEF NeedsInv
<1>9. ASSUME NEW f \in ServerFields, Needs!OnSortChange(f) PROVE Goal
  <2>. DEFINE o == Needs!NextOrder(s.order, f)
              t == [dr EXCEPT !.order = o, !.page = 1]
  <2>1. o \in Needs!OrdersOver(ServerFields)
    BY <1>0, NeedsDerived, NeedsP!OrdersAreKept DEF NeedStates
  <2>2. Needs!P!Commit(t, draft, FALSE) /\ typed' = typed
    BY <1>9, NeedsDerived DEF Needs!OnSortChange, Needs!KeepTyped, dr, s
  <2>. HIDE DEF o
  <2>3. t \in NeedStates /\ t.range = draft.range /\ t.filter = draft.filter /\ t.page = 1
    BY <1>0, <2>1 DEF NeedStates
  <2>. HIDE DEF t
  <2>. QED
    BY <1>0, <2>2, <2>3, NeedsCommit DEF NeedsInv
<1>10. ASSUME NEW n \in LinkSizes, Needs!FollowLink(n) PROVE Goal
  <2>. DEFINE u == [range |-> DefaultRange, size |-> n]
              t == Needs!StateFromParams(u)
  <2>1. /\ t \in NeedStates /\ t.page = 1
        /\ t.range = Needs!Defaults.range /\ t.filter = Needs!Defaults.filter
    <3>1. n \in Nat \ {0} /\ MaxSize \in Nat /\ 1 \in 1..MaxSize
      BY PagesAssumption
    <3>2. PICK m : m = IF n > MaxSize THEN MaxSize ELSE n
      OBVIOUS
    <3>3. m \in 1..MaxSize
      BY <3>1, <3>2
    <3>4. PICK w : w = [k \in DOMAIN Needs!Defaults |->
                          IF k \in DOMAIN u THEN u[k] ELSE Needs!Defaults[k]]
      OBVIOUS
    <3>5. w = [range |-> DefaultRange, page |-> 1, size |-> n,
               order |-> Needs!NoOrder, filter |-> Items]
      BY <3>4 DEF Needs!Defaults
    <3>6. t = [w EXCEPT !.size = m]
      BY <3>2, <3>4, <3>5 DEF Needs!StateFromParams
    <3>7. t = [range |-> DefaultRange, page |-> 1, size |-> m,
               order |-> Needs!NoOrder, filter |-> Items]
      BY <3>5, <3>6
    <3>. HIDE DEF t
    <3>. QED
      BY <1>01, <3>3, <3>7 DEF NeedStates, Needs!Defaults
  <2>2. Needs!P!Goto(u, t, d0, FALSE) /\ typed' = d0
    BY <1>10, <1>01 DEF Needs!FollowLink
  <2>3. t = Needs!StateFromParams(u)
    OBVIOUS
  <2>. HIDE DEF t, u
  <2>. QED
    BY <1>0, <1>01, <2>1, <2>2, <2>3, NeedsMove DEF NeedsInv
<1>. QED
  BY <1>1, <1>2, <1>3, <1>4, <1>5, <1>6, <1>7, <1>8, <1>9, <1>10 DEF Needs!UserEvents

LEMMA NeedsNext == NeedsInv /\ Needs!Next => NeedsInv' /\ NeedsP!Loads
<1>1. ASSUME NeedsInv, NEW c \in calls, Needs!LoadEnds(c)
      PROVE  NeedsInv' /\ NeedsP!Loads
  <2>1. NeedsP!LoadEnds(c) /\ typed' = typed
    BY <1>1, NeedsLoadEnds DEF Needs!LoadEnds, Needs!KeepTyped
  <2>2. draft' = draft
    BY <2>1 DEF NeedsP!LoadEnds
  <2>. QED
    BY <1>1, <2>1, <2>2, NeedsP!PageLoaded DEF NeedsInv
<1>. QED
  BY <1>1, NeedsUserStep DEF Needs!Next

LEMMA NeedsStart == Needs!Init => NeedsInv
<1>1. ASSUME Needs!Init PROVE NeedsP!PageInv
  BY <1>1, NeedsSuits, NeedsInit, NeedsP!PageStart DEF Needs!Init
<1>2. ASSUME Needs!Init PROVE draft = typed
  BY <1>2 DEF Needs!Init, Needs!P!Init
<1>. QED
  BY <1>1, <1>2 DEF NeedsInv

LEMMA NeedsSafe ==
  ASSUME NeedsInv
  PROVE  /\ Needs!TypeOK /\ Needs!TypedIsKept /\ Needs!NoEmptyPage /\ Needs!BackLeadsToRows
<1>0. NeedsP!PageInv /\ Needs!TypedIsKept
  BY DEF NeedsInv, Needs!TypedIsKept
<1>1. Needs!TypeOK
  <2>1. Needs!P!Load!TypeOK
    BY <1>0 DEF NeedsP!PageInv, NeedsP!AddressInv, NeedsP!LoadP!Inv, NeedsP!LoadP!TypeOK,
       NeedsP!Asked, NeedsP!state, Needs!P!Load!TypeOK, Needs!P!Asked, Needs!P!state
  <2>2. NeedsP!state \in NeedStates /\ draft \in DraftsF
    BY <1>0 DEF NeedsP!PageInv, NeedsP!AddressInv
  <2>. QED
    BY <2>1, <2>2, NeedsDerived, SameCounts DEF Needs!TypeOK, Needs!Requests, NeedStates, DraftsF, N
<1>2. ASSUME ~loading, ~failed
      PROVE  LET s == NeedsP!state IN
             /\ s \in NeedStates /\ rowsOf = s
             /\ Needs!Rows = NeedsP!PageRows(Filtered(s), s.page, s.size, s.order.desc)
  <2>1. rowsOf = NeedsP!state /\ rowsOf # NoRequest
    BY <1>0, <1>2, NeedsSuits, NeedsP!PageShowsRows DEF NeedsP!Asked, Needs!BuildParams
  <2>2. NeedsP!state \in NeedStates
    BY <1>0 DEF NeedsP!PageInv, NeedsP!AddressInv
  <2>. QED
    BY <2>1, <2>2, NeedsDerived DEF Needs!Rows
<1>3. ASSUME ~loading, ~failed, ~early, Needs!state.page > 1 PROVE Needs!Rows # {}
  <2>. DEFINE s == NeedsP!state
  <2>1. \A desc \in BOOLEAN : NeedsP!PageRows(Filtered(s), s.page, s.size, desc) # {}
    BY <1>0, <1>3, NeedsSuits, NeedsDerived, NeedsP!PageShowsRows DEF NeedsP!Asked, Needs!BuildParams
  <2>2. s.order \in NeedsP!OrdersOver(ServerFields)
    BY <1>2, <1>3, NeedsDerived DEF NeedStates
  <2>. HIDE DEF s
  <2>3. s.order.desc \in BOOLEAN
    BY <2>2, NeedsP!OrdersAreKept
  <2>4. Needs!Rows = NeedsP!PageRows(Filtered(s), s.page, s.size, s.order.desc)
    BY <1>2, <1>3 DEF s
  <2>. QED
    BY Zenon, <2>1, <2>3, <2>4
<1>4. ASSUME NEW l \in Needs!GoToDetail
      PROVE  LET s == Needs!StateFromParams(l.back)
             IN  l.need \in Needs!PageRows(Needs!Matching(s), s.page, s.size, s.order.desc)
  <2>. DEFINE s == NeedsP!state
  <2>1. ~loading /\ l.need \in Needs!Rows /\ l.back = Needs!BuildQuery(s)
    BY NeedsDerived DEF Needs!GoToDetail
  <2>2. ~failed
    <3>1. rowsOf # NoRequest
      BY <2>1 DEF Needs!Rows
    <3>. QED
      BY <1>0, <2>1, <3>1, NeedsP!PageSettled DEF NeedsP!PageInv
  <2>3. /\ s \in NeedStates
        /\ Needs!Rows = NeedsP!PageRows(Filtered(s), s.page, s.size, s.order.desc)
    BY <1>2, <2>1, <2>2
  <2>. HIDE DEF s
  <2>4. Needs!StateFromParams(l.back) = s
    BY <2>1, <2>3, NeedsSuits DEF NeedsP!Suits
  <2>. QED
    BY <2>1, <2>3, <2>4, NeedsDerived
<1>. QED
  BY <1>0, <1>1, <1>3, <1>4 DEF Needs!NoEmptyPage, Needs!BackLeadsToRows
-----------------------------------------------------------------------------
(* The list of users.                                                      *)

\* What the page is built from is what its proofs are about.
LEMMA UsersDerived ==
  /\ Users!state = UsersP!state
  /\ \A p, t, z : Users!Reachable(p, t, z) = UsersP!Reachable(p, t, z)
  /\ \A s : Users!P!Refill(s) = UsersP!Refill(s)
  /\ \A F : Users!OrdersOver(F) = UsersP!OrdersOver(F)
  /\ \A o, f : Users!NextOrder(o, f) = UsersP!NextOrder(o, f)
  /\ Users!NoOrder = UsersP!NoOrder
BY SameCounts
DEF Users!state, Users!P!state, UsersP!state,
    Users!Reachable, Users!PageCount, Users!Neighbours,
    UsersP!Reachable, UsersP!PageCount, UsersP!Neighbours,
    Users!P!Refill, UsersP!Refill, Fields1,
    Users!OrdersOver, Users!NextOrder, Users!NoOrder, Users!By,
    UsersP!OrdersOver, UsersP!NextOrder, UsersP!NoOrder, UsersP!By

\* So are the orders of its rows.
LEMMA UsersOrders ==
  /\ \A S, R : Users!InOrder(S, R) = UsersP!InOrder(S, R)
  /\ \A S, d : Users!ByNumber(S, d) = UsersP!ByNumber(S, d)
  /\ \A r, v, d : Users!SortRows(r, v, d) = UsersP!SortRows(r, v, d)
BY Zenon
DEF Users!InOrder, Users!Rank, Users!ByNumber, Users!ByValue, Users!SortRows,
    Users!Cardinality, UsersP!InOrder, UsersP!Rank, UsersP!ByNumber, UsersP!ByValue,
    UsersP!SortRows, UsersP!Cardinality

LEMMA UsersSuits == UsersP!Suits
<1>1. Users!Defaults \in UserStates
  BY PagesAssumption DEF Users!Defaults, UserStates, Users!OrdersOver
<1>2. Users!StateFromParams(<<>>) = Users!Defaults
  BY UsersP!NothingRead DEF Users!Defaults, Users!StateFromParams
<1>3. ASSUME NEW s \in UserStates
      PROVE  Users!StateFromParams(Users!BuildQuery(s)) = s
  <2>1. DOMAIN s = DOMAIN Users!Defaults /\ s = [k \in DOMAIN s |-> s[k]]
    BY DEF UserStates, Users!Defaults
  <2>. QED
    BY <2>1, UsersP!RoundTrip DEF Users!StateFromParams, Users!BuildQuery
<1>4. ASSUME NEW s \in UserStates
      PROVE  Users!BuildParams(s) \in Users!Requests /\ UsersP!Refill(s) \in Drafts1
  BY DEF UserStates, UsersP!Refill, Fields1, Drafts1, Users!BuildParams, Users!Requests
<1>. QED
  BY <1>1, <1>2, <1>3, <1>4, NoRequestAssumption DEF UsersP!Suits

\* The steps of the page are those its proofs are about.
LEMMA UsersGoto ==
  ASSUME NEW u, NEW s, NEW d, NEW e, Users!P!Goto(u, s, d, e)
  PROVE  UsersP!Goto(u, s, d, e)
BY SameCounts
DEF Users!P!Goto, Users!P!Rerun, Users!P!load, Users!P!Refill, Users!P!Load!Ask,
    Users!P!Load!Call, Users!P!Asked, Users!P!state,
    UsersP!Goto, UsersP!Rerun, UsersP!load, UsersP!Refill, UsersP!Load!Ask, UsersP!Load!Call,
    UsersP!Asked, UsersP!state, Fields1

LEMMA UsersReload == Users!P!Reload => UsersP!Reload
BY DEF Users!P!Reload, Users!P!Load!Open, Users!P!Load!Call, Users!P!Asked, Users!P!state,
       Users!P!Refill, UsersP!Reload, UsersP!Load!Open, UsersP!Load!Call, UsersP!Asked,
       UsersP!state, UsersP!Refill, Fields1

LEMMA UsersLoadEnds ==
  ASSUME NEW c \in calls, Users!P!LoadEnds(c)
  PROVE  UsersP!LoadEnds(c)
BY DEF Users!P!LoadEnds, Users!P!Load!End, Users!P!Load!Answer, Users!P!Load!Refuse,
       Users!P!Asked, Users!P!state, UsersP!LoadEnds, UsersP!Load!End, UsersP!Load!Answer,
       UsersP!Load!Refuse, UsersP!Asked, UsersP!state

LEMMA UsersInit == Users!P!Init => UsersP!Init
BY DEF Users!P!Init, Users!P!Load!Init, Users!P!Load!Call, Users!P!Refill, Users!P!Asked,
       Users!P!state, UsersP!Init, UsersP!Load!Init, UsersP!Load!Call, UsersP!Refill,
       UsersP!Asked, UsersP!state, Fields1

\* Address and fields suit each other, and rows are left for the page the browser
\* cuts, unless it was picked on rows being replaced or kept through the menu.
UsersInv ==
  /\ UsersP!AddressInv
  /\ keyword \in Names /\ page \in 1..N /\ pageSize \in Sizes
  /\ early \/ UsersP!Filled(Cardinality(UsersP!state.range \cap keyword), pageSize, page)

LEMMA UsersStart == Users!Init => UsersInv
<1>. SUFFICES ASSUME Users!Init PROVE UsersInv
  OBVIOUS
<1>1. UsersP!Init
  BY UsersInit DEF Users!Init
<1>2. UsersP!state = Users!Defaults /\ UsersP!Asked \in Users!Requests
  BY <1>1, UsersSuits DEF UsersP!Init, UsersP!Suits, UsersP!state, UsersP!Asked
<1>3. UsersP!LoadP!Init
  BY <1>1, <1>2
  DEF UsersP!Init, UsersP!Load!Init, UsersP!Load!Call, UsersP!LoadP!Init, UsersP!LoadP!Call
<1>4. UsersP!AddressInv
  BY <1>1, <1>2, <1>3, UsersSuits, UsersP!LoadP!InvInit
  DEF UsersP!AddressInv, UsersP!Init, UsersP!Suits
<1>. QED
  BY <1>4, PageNumbers, PagesAssumption DEF Users!Init, UsersInv, UsersP!Filled

\* The address changes, and with it the page goes back to 1 or counts as kept.
LEMMA UsersMove ==
  ASSUME UsersInv, NEW u, NEW s \in UserStates, NEW d \in Drafts1, NEW e,
         Users!P!Goto(u, s, d, e), Users!StateFromParams(u) = s,
         keyword' \in Names, page' \in 1..N, pageSize' \in Sizes,
         e \/ page' = 1
  PROVE  UsersInv' /\ UsersP!Loads
<1>1. UsersP!Goto(u, s, d, e)
  BY UsersGoto
<1>2. UsersP!AddressInv' /\ UsersP!Loads
  BY <1>1, UsersSuits, UsersP!AddressMove DEF UsersInv
<1>3. early' = e
  BY <1>1 DEF UsersP!Goto
<1>. QED
  BY <1>2, <1>3 DEF UsersInv, UsersP!Filled

LEMMA UsersCommit ==
  ASSUME UsersInv, NEW s \in UserStates, NEW d \in Drafts1,
         Users!P!Commit(s, d, FALSE),
         keyword' \in Names, page' = 1, pageSize' \in Sizes
  PROVE  UsersInv' /\ UsersP!Loads
<1>1. page' \in 1..N
  BY PageNumbers
<1>. QED
  BY <1>1, UsersSuits, UsersMove DEF Users!P!Commit, UsersP!Suits

\* What the component keeps to itself changes, and perhaps the dates noted.
LEMMA UsersLocal ==
  ASSUME UsersInv, UNCHANGED <<url, UsersP!load>>, draft' \in Drafts1,
         keyword' \in Names, page' \in 1..N, pageSize' \in Sizes,
         early' \/ UsersP!Filled(Cardinality(UsersP!state.range \cap keyword'), pageSize', page')
  PROVE  UsersInv' /\ UsersP!Loads
<1>1. UsersP!state' = UsersP!state /\ UsersP!Asked' = UsersP!Asked
  BY DEF UsersP!state, UsersP!Asked
<1>2. UsersP!Loads
  BY <1>1 DEF UsersP!Loads, UsersP!load, UsersP!LoadP!vars
<1>3. UsersP!LoadP!Inv'
  BY <1>2, UsersP!LoadsKeep DEF UsersInv, UsersP!AddressInv
<1>. QED
  BY <1>1, <1>2, <1>3 DEF UsersInv, UsersP!AddressInv

LEMMA UsersUserStep ==
  ASSUME UsersInv, Users!UserEvents
  PROVE  UsersInv' /\ UsersP!Loads
<1>. DEFINE s == UsersP!state
            dr == Users!P!Drafted
            Goal == UsersInv' /\ UsersP!Loads
<1>0. /\ s \in UserStates /\ draft \in Drafts1 /\ 1 \in 1..N /\ Items \in Names
      /\ keyword \in Names /\ page \in 1..N /\ pageSize \in Sizes
      /\ dr \in UserStates
      /\ Users!Defaults \in UserStates /\ Users!P!Refill(Users!Defaults) \in Drafts1
      /\ Users!StateFromParams(<<>>) = Users!Defaults
      /\ early \/ UsersP!Filled(Cardinality(s.range \cap keyword), pageSize, page)
  <2>1. /\ s \in UserStates /\ draft \in Drafts1 /\ 1 \in 1..N /\ Items \in Names
        /\ keyword \in Names /\ page \in 1..N /\ pageSize \in Sizes
        /\ early \/ UsersP!Filled(Cardinality(s.range \cap keyword), pageSize, page)
    BY PageNumbers, PagesAssumption DEF UsersInv, UsersP!AddressInv
  <2>2. dr = [k \in DOMAIN s |-> IF k \in {"range"} THEN draft[k] ELSE s[k]]
    BY DEF Users!P!Drafted, UsersP!state, Users!P!state
  <2>3. /\ Users!Defaults \in UserStates /\ Users!P!Refill(Users!Defaults) \in Drafts1
        /\ Users!StateFromParams(<<>>) = Users!Defaults
    BY UsersSuits, UsersDerived DEF UsersP!Suits
  <2>. HIDE DEF s, dr
  <2>4. dr \in UserStates
    BY <2>1, <2>2 DEF UserStates, Drafts1
  <2>. QED
    BY <2>1, <2>3, <2>4
<1>. HIDE DEF s, dr
<1>1. ASSUME NEW kw \in Names, Users!SetKeyword(kw) PROVE Goal
  <2>1. /\ keyword' = kw /\ page' = 1 /\ pageSize' = pageSize /\ draft' = draft
        /\ UNCHANGED <<url, UsersP!load>>
    BY <1>1 DEF Users!SetKeyword, Users!load, UsersP!load
  <2>. QED
    BY <1>0, <2>1, UsersLocal DEF UsersP!Filled
<1>2. ASSUME NEW r \in Ranges, Users!OnDateChange(r) PROVE Goal
  <2>1. /\ draft' = [draft EXCEPT !.range = r] /\ early' = early
        /\ UNCHANGED <<url, UsersP!load>> /\ UNCHANGED <<keyword, page, pageSize>>
    BY <1>2 DEF Users!OnDateChange, Users!P!Type, Users!P!load, UsersP!load, Users!local
  <2>2. draft' \in Drafts1
    BY <1>0, <2>1 DEF Drafts1
  <2>. QED
    BY <1>0, <2>1, <2>2, UsersLocal DEF s
<1>3. CASE Users!ApplyFilters
  BY <1>0, <1>3, UsersCommit DEF Users!ApplyFilters, Users!FirstPage, dr
<1>4. CASE Users!ResetFilters
  BY <1>0, <1>4, UsersCommit DEF Users!ResetFilters
<1>5. CASE Users!OpenFromMenu
  <2>1. Users!P!Goto(<<>>, Users!Defaults, draft, TRUE) /\ UNCHANGED <<keyword, page, pageSize>>
    BY <1>5 DEF Users!OpenFromMenu, Users!local
  <2>. QED
    BY <1>0, <2>1, UsersMove
<1>6. CASE Users!Reload
  <2>1. UsersP!Reload /\ keyword' = Items /\ page' = 1 /\ pageSize' = DefaultSize
    BY <1>6, UsersReload DEF Users!Reload
  <2>2. UsersP!Asked \in Users!Requests /\ UsersP!Refill(s) \in Drafts1
    BY <1>0, UsersSuits DEF UsersP!Suits, UsersP!Asked, s
  <2>3. /\ UsersP!state' = s /\ draft' \in Drafts1 /\ UsersP!Loads
    BY <2>1, <2>2, UsersP!ReloadStep DEF s
  <2>4. UsersP!LoadP!Inv'
    BY <2>3, UsersP!LoadsKeep DEF UsersInv, UsersP!AddressInv
  <2>. QED
    BY <1>0, <2>1, <2>3, <2>4, PagesAssumption DEF UsersInv, UsersP!AddressInv, UsersP!Filled
<1>7. ASSUME NEW f \in ClientFields, Users!OnSortChange(f) PROVE Goal
  <2>. DEFINE o == Users!NextOrder(s.order, f)
              t == [dr EXCEPT !.order = o]
  <2>1. o \in Users!OrdersOver(ClientFields)
    BY <1>0, UsersDerived, UsersP!OrdersAreKept DEF UserStates
  <2>2. Users!P!Commit(t, draft, FALSE) /\ page' = 1 /\ UNCHANGED <<keyword, pageSize>>
    BY <1>7, UsersDerived DEF Users!OnSortChange, Users!FirstPage, dr, s
  <2>. HIDE DEF o
  <2>3. t \in UserStates
    BY <1>0, <2>1 DEF UserStates
  <2>. HIDE DEF t
  <2>. QED
    BY <1>0, <2>2, <2>3, UsersCommit
<1>8. ASSUME NEW p, Users!SetPage(p) PROVE Goal
  <2>. DEFINE n == Cardinality(s.range \cap keyword)
              total == Cardinality(Users!FilteredRows)
  <2>1. /\ p \in UsersP!Reachable(page, total, pageSize)
        /\ page' = p /\ early' = (loading \/ early) /\ draft' = draft
        /\ UNCHANGED <<url, UsersP!load>> /\ UNCHANGED <<keyword, pageSize>>
    BY <1>8, UsersDerived, SameCounts DEF Users!SetPage, Users!load, UsersP!load
  <2>2. n \in 0..N
    <3>1. s.range \cap keyword \in SUBSET Items
      BY <1>0, PageNumbers DEF UserStates
    <3>. QED
      BY <3>1, MatchingCount
  <2>3. total \in 0..N
    <3>1. Users!FilteredRows \in SUBSET Items
      <4>1. rowsOf \in Users!Requests \cup {NoRequest}
        BY DEF UsersInv, UsersP!AddressInv, UsersP!LoadP!Inv, UsersP!LoadP!TypeOK
      <4>. QED
        BY <4>1, PageNumbers DEF Users!FilteredRows, Users!AllRows, Users!Requests
    <3>. QED
      BY <3>1, MatchingCount
  <2>4. loading \/ total = n \/ total = 0
    <3>1. ASSUME ~loading, failed PROVE Users!FilteredRows = {}
      BY <3>1, UsersP!PageSettled DEF UsersInv, Users!FilteredRows, Users!AllRows
    <3>2. ASSUME ~loading, ~failed PROVE Users!FilteredRows = s.range \cap keyword
      <4>1. rowsOf = UsersP!Asked /\ UsersP!Asked.range = s.range
        BY <3>2, UsersP!PageSettled DEF UsersInv, UsersP!Asked, Users!BuildParams, s
      <4>2. rowsOf # NoRequest
        <5>1. UsersP!Asked \in Users!Requests
          BY <1>0, UsersSuits DEF UsersP!Suits, UsersP!Asked, s
        <5>. QED
          BY <4>1, <5>1, NoRequestAssumption
      <4>. QED
        BY <4>1, <4>2 DEF Users!FilteredRows, Users!AllRows
    <3>3. total = 0 \/ total = n \/ loading
      BY <3>1, <3>2, FS_EmptySet
    <3>. QED
      BY <3>3
  <2>5. pageSize \in Nat \ {0} /\ N \in Nat
    BY <1>0, PageNumbers, SomeRows
  <2>. HIDE DEF n, total
  <2>6. /\ p \in 1..N
        /\ (total = n \/ total = 0) /\ UsersP!Filled(n, pageSize, page) => UsersP!Filled(n, pageSize, p)
    BY <1>0, <2>1, <2>2, <2>3, <2>5, UsersP!PageChosen
  <2>7. early' \/ UsersP!Filled(n, pageSize, p)
    BY <1>0, <2>1, <2>4, <2>6 DEF n
  <2>. QED
    BY <1>0, <2>1, <2>6, <2>7, UsersLocal DEF n, s
<1>9. ASSUME NEW n \in Sizes, Users!OnSizeChange(n) PROVE Goal
  <2>1. /\ pageSize' = n /\ page' = 1 /\ keyword' = keyword /\ draft' = draft
        /\ UNCHANGED <<url, UsersP!load>>
    BY <1>9 DEF Users!OnSizeChange, Users!load, UsersP!load
  <2>. QED
    BY <1>0, <2>1, UsersLocal DEF UsersP!Filled
<1>. QED
  BY <1>1, <1>2, <1>3, <1>4, <1>5, <1>6, <1>7, <1>8, <1>9 DEF Users!UserEvents

LEMMA UsersNext == UsersInv /\ Users!Next => UsersInv' /\ UsersP!Loads
<1>1. ASSUME UsersInv, NEW c \in calls, Users!LoadEnds(c)
      PROVE  UsersInv' /\ UsersP!Loads
  <2>1. UsersP!LoadEnds(c) /\ UNCHANGED <<keyword, page, pageSize>>
    BY <1>1, UsersLoadEnds DEF Users!LoadEnds, Users!local
  <2>2. /\ UsersP!state' = UsersP!state /\ early' = early /\ draft' = draft
        /\ UsersP!Loads
    BY <2>1, UsersP!LoadEndsStep
  <2>3. UsersP!LoadP!Inv'
    BY <1>1, <2>2, UsersP!LoadsKeep DEF UsersInv, UsersP!AddressInv
  <2>. QED
    BY <1>1, <2>1, <2>2, <2>3 DEF UsersInv, UsersP!AddressInv
<1>. QED
  BY <1>1, UsersUserStep DEF Users!Next

\* The rows held: none yet, or the users of the dates that match the keyword, in
\* one order or another, of which the browser cuts out the page.
LEMMA UsersRows ==
  ASSUME UsersInv
  PROVE  LET S == Users!FilteredRows
             n == Cardinality(S)
             rows == Users!SortedRows
         IN  /\ n \in Nat
             /\ rows \in Seq(S) /\ Len(rows) = n
             /\ Users!PagedRows \in Seq(S)
             /\ (page - 1) * pageSize < n => Users!PagedRows # <<>>
<1>. DEFINE S == Users!FilteredRows
            n == Cardinality(S)
            rows == Users!SortedRows
            o == UsersP!state.order
            held == UsersP!InOrder(S, UsersP!ByNumber(S, FALSE))
            value == [r \in S |-> Users!GetterFor(r)]
<1>1. S \in SUBSET Items
  <2>1. rowsOf \in Users!Requests \cup {NoRequest}
    BY DEF UsersInv, UsersP!AddressInv, UsersP!LoadP!Inv, UsersP!LoadP!TypeOK
  <2>. QED
    BY <2>1, PageNumbers DEF Users!FilteredRows, Users!AllRows, Users!Requests
<1>2. o \in UsersP!OrdersOver(ClientFields)
  BY UsersDerived DEF UsersInv, UsersP!AddressInv, UserStates
<1>3. o.desc \in BOOLEAN
  <2>. HIDE DEF o
  <2>. QED
    BY <1>2, UsersP!OrdersAreKept
<1>4. rows = IF o = UsersP!NoOrder THEN held ELSE UsersP!SortRows(held, value, o.desc)
  BY Zenon, UsersDerived, UsersOrders DEF Users!SortedRows
<1>. HIDE DEF S, o
<1>5. S \in SUBSET Int /\ IsFiniteSet(S) /\ n \in Nat /\ UsersP!Cardinality(S) = n
  <2>1. S \in SUBSET Int /\ IsFiniteSet(S) /\ Cardinality(S) \in 0..N
    BY <1>1, MatchingCount
  <2>. QED
    BY <2>1, SomeRows, SameCounts
<1>6. held \in Seq(S) /\ Len(held) = n
  <2>1. UsersP!StrictOrder(S, UsersP!ByNumber(S, FALSE))
    BY <1>5, UsersP!NumbersAreOrdered
  <2>2. held \in [1..n -> S]
    BY <1>5, <2>1, SameCounts, UsersP!InOrderIs
  <2>. HIDE DEF held, n
  <2>. QED
    BY <1>5, <2>2
<1>7. \A x \in S : value[x] \in Nat \cup {NoValue}
  <2>1. \A x \in S : Users!GetterFor(x) \in Nat
    BY <1>1, PagesAssumption DEF Users!GetterFor
  <2>. QED
    BY <2>1
<1>. HIDE DEF held, value, n, rows
<1>8. rows \in Seq(S) /\ Len(rows) = n
  <2>1. \A desc \in BOOLEAN : /\ UsersP!SortRows(held, value, desc) \in Seq(S)
                              /\ Len(UsersP!SortRows(held, value, desc)) = n
    BY <1>6, <1>7, UsersP!SortedRows
  <2>2. CASE o = UsersP!NoOrder
    BY Zenon, <1>4, <1>6, <2>2
  <2>3. CASE o # UsersP!NoOrder
    BY Zenon, <1>3, <1>4, <2>1, <2>3
  <2>. QED
    BY <2>2, <2>3
<1>9. page \in Nat \ {0} /\ pageSize \in Nat \ {0}
  BY PageNumbers, SomeRows DEF UsersInv
<1>. DEFINE a == (page - 1) * pageSize
            b == page * pageSize
            last == IF b < n THEN b ELSE n
<1>10. a \in Nat /\ b \in Nat /\ a < b
  <2>1. b = a + pageSize
    BY <1>9
  <2>2. a \in Nat /\ b \in Nat
    BY <1>9
  <2>. QED
    BY <1>9, <2>1, <2>2
<1>11. Users!PagedRows = SubSeq(rows, a + 1, last)
  BY <1>8 DEF Users!PagedRows, rows
<1>. HIDE DEF a, b
<1>12. /\ Users!PagedRows \in Seq(S)
       /\ a < n => Len(Users!PagedRows) > 0
  <2>1. last \in Nat /\ last <= n /\ (a < n => a + 1 <= last)
    BY <1>5, <1>10
  <2>. HIDE DEF last
  <2>2. \A i \in a + 1 .. last : rows[i] \in S
    BY <1>5, <1>8, <1>10, <2>1
  <2>3. /\ Users!PagedRows \in Seq(S)
        /\ Len(Users!PagedRows) = IF a + 1 <= last THEN last - (a + 1) + 1 ELSE 0
    BY <1>10, <1>11, <2>1, <2>2, UsersP!SubSeqProperties
  <2>. QED
    BY <1>10, <2>1, <2>3
<1>13. a < n => Users!PagedRows # <<>>
  BY <1>12
<1>. QED
  BY <1>5, <1>8, <1>12, <1>13 DEF S, n, rows, a

LEMMA UsersSafe ==
  ASSUME UsersInv
  PROVE  Users!TypeOK /\ Users!NoEmptyPage /\ Users!LinksLeadToWhatIsShown
<1>1. Users!TypeOK
  <2>1. Users!P!Load!TypeOK
    BY DEF UsersInv, UsersP!AddressInv, UsersP!LoadP!Inv, UsersP!LoadP!TypeOK,
       UsersP!Asked, UsersP!state, Users!P!Load!TypeOK, Users!P!Asked, Users!P!state
  <2>. QED
    BY <2>1, UsersDerived, SameCounts
    DEF Users!TypeOK, Users!Orders, UsersInv, UsersP!AddressInv, UserStates, Drafts1, N
<1>2. UsersP!Asked.range = UsersP!state.range /\ UsersP!Asked # NoRequest
  <2>1. UsersP!Asked \in Users!Requests
    BY UsersSuits DEF UsersP!Suits, UsersP!Asked, UsersInv, UsersP!AddressInv
  <2>. QED
    BY <2>1, NoRequestAssumption DEF UsersP!Asked, Users!BuildParams
<1>3. ASSUME ~loading, ~failed, ~early, page > 1 PROVE Users!PagedRows # <<>>
  <2>1. Users!FilteredRows = UsersP!state.range \cap keyword
    BY <1>2, <1>3, UsersP!PageSettled DEF UsersInv, Users!FilteredRows, Users!AllRows
  <2>2. (page - 1) * pageSize < Cardinality(Users!FilteredRows)
    BY <1>3, <2>1 DEF UsersInv, UsersP!Filled
  <2>. QED
    BY <2>2, UsersRows
<1>4. ASSUME NEW l \in Users!GoToDetail PROVE l.user \in l.range
  <2>1. /\ ~loading /\ l.range = UsersP!state.range
        /\ \E i \in DOMAIN Users!PagedRows : l.user = Users!PagedRows[i]
    BY UsersDerived DEF Users!GoToDetail, Users!Range
  <2>2. l.user \in Users!FilteredRows
    <3>1. Users!PagedRows \in Seq(Users!FilteredRows)
      BY UsersRows
    <3>. QED
      BY <2>1, <3>1
  <2>3. rowsOf # NoRequest /\ l.user \in rowsOf.range
    BY <2>2 DEF Users!FilteredRows, Users!AllRows
  <2>4. rowsOf = UsersP!Asked
    BY <2>1, <2>3, UsersP!PageSettled DEF UsersInv
  <2>. QED
    BY <1>2, <2>1, <2>3, <2>4
<1>. QED
  BY <1>1, <1>3, <1>4 DEF Users!NoEmptyPage, Users!LinksLeadToWhatIsShown
-----------------------------------------------------------------------------
(* The organisation page.                                                  *)

\* While a department is chosen the effect loads its members like any page; without
\* one no request counts and no member is held.
OrgsInv ==
  /\ Orgs!TypeOK /\ loading \in BOOLEAN /\ failed \in BOOLEAN
  /\ IF Orgs!Chosen THEN OrgsP!Inv
     ELSE rowsOf = NoRequest /\ \A c \in calls : ~c.live

LEMMA OrgsStart == Orgs!Init => OrgsInv
<1>. SUFFICES ASSUME Orgs!Init PROVE OrgsInv
  OBVIOUS
<1>1. DefaultRange \in Ranges
  BY PagesAssumption
<1>2. url \in [dept : Depts \cup {NoDept}, range : Ranges] /\ ~Orgs!Chosen
  BY <1>1 DEF Orgs!Init, Orgs!Chosen
<1>. QED
  BY <1>2 DEF Orgs!Init, OrgsInv, Orgs!TypeOK

\* What the address stands for when a department is chosen may be asked for.
LEMMA OrgsChosen ==
  ASSUME Orgs!TypeOK
  PROVE  Orgs!Chosen <=> url \in Orgs!Requests
BY PagesAssumption DEF Orgs!TypeOK, Orgs!Chosen, Orgs!Requests

\* Departments are chosen, left and chosen again.
LEMMA OrgsGoto ==
  ASSUME OrgsInv, NEW u \in [dept : Depts \cup {NoDept}, range : Ranges], Orgs!Goto(u)
  PROVE  OrgsInv'
<1>1. url' = u /\ expanded' = expanded
  BY DEF Orgs!Goto, Orgs!branches
<1>2. CASE u = url
  <2>1. UNCHANGED <<url, expanded, calls, loading, failed, rowsOf>>
    BY <1>1, <1>2 DEF Orgs!Goto, Orgs!load
  <2>. QED
    BY <2>1 DEF OrgsInv, Orgs!TypeOK, Orgs!Chosen, OrgsP!Inv, OrgsP!TypeOK,
       OrgsP!SkeletonIffLive, OrgsP!ShownIsAsked
<1>. DEFINE old == {Orgs!Load!Call(c.of, FALSE) : c \in calls}
<1>3. \A d \in old : d \in [of : Orgs!Requests, live : {FALSE}]
  <2>. SUFFICES ASSUME NEW d \in old PROVE d \in [of : Orgs!Requests, live : {FALSE}]
    OBVIOUS
  <2>1. PICK c \in calls : d = Orgs!Load!Call(c.of, FALSE)
    OBVIOUS
  <2>2. c.of \in Orgs!Requests
    BY DEF OrgsInv, Orgs!TypeOK
  <2>. QED
    BY <2>1, <2>2 DEF Orgs!Load!Call
<1>4. CASE u # url /\ u.dept = NoDept
  <2>1. calls' = old /\ rowsOf' = NoRequest /\ UNCHANGED <<loading, failed>>
    BY <1>4 DEF Orgs!Goto, Orgs!Clear
  <2>. HIDE DEF old
  <2>. QED
    BY <1>1, <1>3, <1>4, <2>1 DEF OrgsInv, Orgs!TypeOK, Orgs!Chosen
<1>5. CASE u # url /\ u.dept # NoDept
  <2>1. /\ calls' = old \cup {OrgsP!Call(u, TRUE)} /\ loading' = TRUE /\ failed' = FALSE
        /\ rowsOf' = rowsOf
    BY <1>5 DEF Orgs!Goto, Orgs!Load!Ask, Orgs!Load!Call, OrgsP!Call
  <2>2. u \in Orgs!Requests /\ rowsOf' \in Orgs!Requests \cup {NoRequest}
    BY <1>5, <2>1 DEF Orgs!Requests, OrgsInv, Orgs!TypeOK
  <2>. HIDE DEF old
  <2>3. OrgsP!Inv'
    BY <1>1, <1>3, <2>1, <2>2, OrgsP!AskInv
  <2>. QED
    BY <1>1, <1>5, <2>3 DEF OrgsP!Inv, OrgsP!TypeOK, OrgsInv, Orgs!TypeOK, Orgs!Chosen
<1>. QED
  BY <1>2, <1>4, <1>5

\* A request ends: nothing happens if it does not count.
LEMMA OrgsLoadEnds ==
  ASSUME OrgsInv, NEW c \in calls, Orgs!LoadEnds(c)
  PROVE  OrgsInv' /\ (Orgs!Chosen => OrgsP!End(c))
<1>1. OrgsP!End(c) /\ url' = url /\ expanded' = expanded
  BY DEF Orgs!LoadEnds, Orgs!Load!End, Orgs!Load!Answer, Orgs!Load!Refuse, Orgs!branches,
     OrgsP!End, OrgsP!Answer, OrgsP!Refuse
<1>2. CASE Orgs!Chosen
  <2>1. OrgsP!Inv'
    BY <1>1, <1>2, OrgsP!EndInv DEF OrgsInv
  <2>. QED
    BY <1>1, <1>2, <2>1 DEF OrgsInv, Orgs!TypeOK, Orgs!Chosen, OrgsP!Inv, OrgsP!TypeOK
<1>3. CASE ~Orgs!Chosen
  <2>1. ~c.live
    BY <1>3 DEF OrgsInv
  <2>2. calls' = calls \ {c} /\ UNCHANGED <<loading, failed, rowsOf>>
    BY <1>1, <2>1 DEF OrgsP!End, OrgsP!Answer, OrgsP!Refuse
  <2>. QED
    BY <1>1, <1>3, <2>2 DEF OrgsInv, Orgs!TypeOK, Orgs!Chosen
<1>. QED
  BY <1>1, <1>2, <1>3

\* The branches opened are departments, and nobody but the address loads members.
LEMMA OrgsNext == OrgsInv /\ Orgs!Next => OrgsInv'
<1>. SUFFICES ASSUME OrgsInv, Orgs!Next PROVE OrgsInv'
  OBVIOUS
<1>0. url \in [dept : Depts \cup {NoDept}, range : Ranges]
  BY DEF OrgsInv, Orgs!TypeOK
<1>1. ASSUME expanded' \in SUBSET Depts, UNCHANGED <<url, calls, loading, failed, rowsOf>>
      PROVE  OrgsInv'
  BY <1>1 DEF OrgsInv, Orgs!TypeOK, Orgs!Chosen, OrgsP!Inv, OrgsP!TypeOK,
     OrgsP!SkeletonIffLive, OrgsP!ShownIsAsked
<1>2. ASSUME NEW t \in Trees, Orgs!TreeArrives(t) PROVE OrgsInv'
  <2>1. Orgs!FirstBranchIds(t) \in SUBSET Depts
    BY DEF Orgs!FirstBranchIds
  <2>2. expanded' \in SUBSET Depts /\ UNCHANGED <<url, calls, loading, failed, rowsOf>>
    BY <1>2, <2>1 DEF Orgs!TreeArrives, Orgs!load, OrgsInv, Orgs!TypeOK
  <2>. QED
    BY <1>1, <2>2
<1>3. ASSUME NEW d \in Depts, Orgs!Toggle(d) PROVE OrgsInv'
  <2>1. expanded' \in SUBSET Depts /\ UNCHANGED <<url, calls, loading, failed, rowsOf>>
    BY <1>3 DEF Orgs!Toggle, Orgs!load, OrgsInv, Orgs!TypeOK
  <2>. QED
    BY <1>1, <2>1
<1>4. ASSUME NEW d \in Depts, Orgs!Select(d) PROVE OrgsInv'
  <2>1. [url EXCEPT !.dept = d] \in [dept : Depts \cup {NoDept}, range : Ranges]
    BY <1>0
  <2>. QED
    BY <1>4, <2>1, OrgsGoto DEF Orgs!Select
<1>5. ASSUME NEW r \in Ranges, Orgs!OnDateChange(r) PROVE OrgsInv'
  <2>1. [url EXCEPT !.range = r] \in [dept : Depts \cup {NoDept}, range : Ranges]
    BY <1>0
  <2>. QED
    BY <1>5, <2>1, OrgsGoto DEF Orgs!OnDateChange
<1>6. CASE Orgs!OpenFromMenu
  BY <1>6, OrgsGoto, PagesAssumption DEF Orgs!OpenFromMenu
<1>7. ASSUME NEW c \in calls, Orgs!LoadEnds(c) PROVE OrgsInv'
  BY <1>7, OrgsLoadEnds
<1>. QED
  BY <1>2, <1>3, <1>4, <1>5, <1>6, <1>7 DEF Orgs!Next, Orgs!UserEvents

\* With a department chosen before and after, the page moves as any page does; from
\* none to one it starts with a request under way.
LEMMA OrgsPromise ==
  ASSUME OrgsInv, OrgsInv', Orgs!Next, Orgs!Chosen'
  PROVE  /\ url' \in Orgs!Requests
         /\ \/ OrgsP!Seen' = Pending
            \/ /\ Orgs!Chosen /\ url \in Orgs!Requests
               /\ \/ UNCHANGED <<url, OrgsP!Seen>>
                  \/ /\ OrgsP!Seen = Pending /\ OrgsP!Seen' \in OrgsP!View!Answers(url)
                     /\ url' = url
<1>1. url' \in Orgs!Requests
  BY PagesAssumption DEF OrgsInv, Orgs!TypeOK, Orgs!Chosen, Orgs!Requests
<1>2. ASSUME UNCHANGED <<url, calls, loading, failed, rowsOf>>
      PROVE  Orgs!Chosen /\ UNCHANGED <<url, OrgsP!Seen>>
  BY <1>2 DEF Orgs!Chosen, OrgsP!Seen
<1>3. ASSUME NEW u, Orgs!Goto(u)
      PROVE  OrgsP!Seen' = Pending \/ UNCHANGED <<url, calls, loading, failed, rowsOf>>
  BY <1>3 DEF Orgs!Goto, Orgs!Load!Ask, Orgs!load, Orgs!Chosen, OrgsP!Seen
<1>4. ASSUME NEW c \in calls, Orgs!LoadEnds(c)
      PROVE  /\ Orgs!Chosen
             /\ \/ OrgsP!Seen' = Pending \/ UNCHANGED <<url, OrgsP!Seen>>
                \/ /\ OrgsP!Seen = Pending /\ OrgsP!Seen' \in OrgsP!View!Answers(url)
                   /\ url' = url
  <2>1. Orgs!Chosen /\ OrgsP!Inv /\ url' = url
    BY <1>4 DEF Orgs!LoadEnds, Orgs!Chosen, OrgsInv
  <2>2. OrgsP!Next
    BY <1>4, <2>1, OrgsLoadEnds DEF OrgsP!Next
  <2>3. [OrgsP!View!Next]_<<url, OrgsP!Seen>>
    BY <2>1, <2>2, NoRequestAssumption, OrgsP!PromiseStep
  <2>4. url' # NoRequest
    BY <1>1, NoRequestAssumption
  <2>. QED
    <3>1. OrgsP!View!Cover => OrgsP!Seen' = Pending
      BY <2>4 DEF OrgsP!View!Cover, OrgsP!Seen
    <3>. QED
      BY <2>1, <2>3, <2>4, <3>1
      DEF OrgsP!View!Next, OrgsP!View!Go, OrgsP!View!Settle, OrgsP!View!AtFirst
<1>5. ASSUME NEW d, Orgs!Toggle(d) PROVE UNCHANGED <<url, calls, loading, failed, rowsOf>>
  BY <1>5 DEF Orgs!Toggle, Orgs!load
<1>6. ASSUME NEW t, Orgs!TreeArrives(t) PROVE UNCHANGED <<url, calls, loading, failed, rowsOf>>
  BY <1>6 DEF Orgs!TreeArrives, Orgs!load
<1>7. \/ OrgsP!Seen' = Pending
      \/ /\ Orgs!Chosen
         /\ \/ UNCHANGED <<url, OrgsP!Seen>>
            \/ /\ OrgsP!Seen = Pending /\ OrgsP!Seen' \in OrgsP!View!Answers(url)
               /\ url' = url
  BY <1>2, <1>3, <1>4, <1>5, <1>6
  DEF Orgs!Next, Orgs!UserEvents, Orgs!Select, Orgs!OnDateChange, Orgs!OpenFromMenu
<1>8. Orgs!Chosen => url \in Orgs!Requests
  BY OrgsChosen DEF OrgsInv
<1>. QED
  BY <1>1, <1>7, <1>8
-----------------------------------------------------------------------------
(* The page that is shown.                                                 *)

PagesInv ==
  /\ shown \in {"tasks", "commits", "repos", "needs", "users", "orgs"}
  /\ shown = "tasks" => TasksInv
  /\ shown # "tasks" => covered = FALSE
  /\ shown = "commits" => CommitsP!PageInv
  /\ shown = "repos" => ReposP!PageInv
  /\ shown = "needs" => NeedsInv
  /\ shown = "users" => UsersInv
  /\ shown = "orgs" => OrgsInv

LEMMA PagesStart == Init => PagesInv
BY TasksStart, CommitsStart, ReposStart, NeedsStart, UsersStart, OrgsStart DEF Init, PagesInv, NotTasks

LEMMA PagesStep == PagesInv /\ [Next]_vars => PagesInv'
<1>1. ASSUME PagesInv, Next PROVE PagesInv'
  BY <1>1, TasksNext, CommitsNext, ReposNext, NeedsNext, UsersNext, OrgsNext
  DEF Next, PagesInv, ofTasks
<1>2. ASSUME PagesInv, UNCHANGED vars PROVE PagesInv'
  <2>. USE DEF vars, urlPage, ofTasks, ofUsers, ofOrgs
  <2>1. ASSUME shown = "tasks" PROVE TasksInv'
    <3>1. TasksP!PageInv /\ TicksInv
      BY <1>2, <2>1 DEF PagesInv, TasksInv
    <3>2. draft \in Drafts2
      BY <3>1 DEF TasksP!PageInv, TasksP!AddressInv
    <3>3. TasksP!PageInv'
      BY <1>2, <3>1, <3>2, TasksP!PageFields DEF TasksP!load
    <3>. QED
      BY <1>2, <3>1, <3>3 DEF TasksInv, TicksInv
  <2>2. ASSUME shown = "commits" PROVE CommitsP!PageInv'
    <3>1. CommitsP!PageInv
      BY <1>2, <2>2 DEF PagesInv
    <3>2. draft \in Drafts2
      BY <3>1 DEF CommitsP!PageInv, CommitsP!AddressInv
    <3>. QED
      BY <1>2, <3>1, <3>2, CommitsP!PageFields DEF CommitsP!load
  <2>3. ASSUME shown = "repos" PROVE ReposP!PageInv'
    <3>1. ReposP!PageInv
      BY <1>2, <2>3 DEF PagesInv
    <3>2. draft \in Drafts1
      BY <3>1 DEF ReposP!PageInv, ReposP!AddressInv
    <3>. QED
      BY <1>2, <3>1, <3>2, ReposP!PageFields DEF ReposP!load
  <2>4. ASSUME shown = "needs" PROVE NeedsInv'
    <3>1. NeedsP!PageInv /\ draft = typed
      BY <1>2, <2>4 DEF PagesInv, NeedsInv
    <3>2. draft \in DraftsF
      BY <3>1 DEF NeedsP!PageInv, NeedsP!AddressInv
    <3>3. NeedsP!PageInv'
      BY <1>2, <3>1, <3>2, NeedsP!PageFields DEF NeedsP!load
    <3>. QED
      BY <1>2, <3>1, <3>3 DEF NeedsInv
  <2>5. ASSUME shown = "users" PROVE UsersInv'
    <3>1. UsersInv
      BY <1>2, <2>5 DEF PagesInv
    <3>2. /\ draft \in Drafts1 /\ keyword \in Names /\ page \in 1..N /\ pageSize \in Sizes
          /\ early \/ UsersP!Filled(Cardinality(UsersP!state.range \cap keyword), pageSize, page)
      BY <3>1 DEF UsersInv, UsersP!AddressInv
    <3>. QED
      BY <1>2, <3>1, <3>2, UsersLocal DEF UsersP!load
  <2>6. ASSUME shown = "orgs" PROVE OrgsInv'
    <3>1. OrgsInv
      BY <1>2, <2>6 DEF PagesInv
    <3>2. UNCHANGED <<url, expanded, calls, loading, failed, rowsOf>>
      BY <1>2
    <3>. QED
      BY <3>1, <3>2 DEF OrgsInv, Orgs!TypeOK, Orgs!Chosen, OrgsP!Inv, OrgsP!TypeOK,
         OrgsP!SkeletonIffLive, OrgsP!ShownIsAsked
  <2>. QED
    BY <1>2, <2>1, <2>2, <2>3, <2>4, <2>5, <2>6 DEF PagesInv
<1>. QED
  BY <1>1, <1>2

\* On every page the address, the fields and the request under way suit each other.
THEOREM Invariance == Spec => []PagesInv
BY PagesStart, PagesStep, PTL DEF Spec

\* Whatever is clicked, every page reads from its address what it can ask the backend
\* for, no page beyond the number of rows and no size beyond what was offered.
THEOREM Typed == Spec => []TypeOK
<1>1. PagesInv => TypeOK
  BY TasksSafe, CommitsSafe, ReposSafe, NeedsSafe, UsersSafe DEF PagesInv, TypeOK, OrgsInv
<1>. QED
  BY <1>1, Invariance, PTL

\* The address of tasks and commits holds what was set last, and the fields of the
\* needs what was typed, whatever the refill does (NeedList.tsx:221).
THEOREM InputKept == Spec => []InputIsKept
<1>1. PagesInv => InputIsKept
  BY TasksSafe, CommitsSafe, NeedsSafe DEF PagesInv, InputIsKept
<1>. QED
  BY <1>1, Invariance, PTL

\* A settled page after the first shows rows, unless it was picked on the total of
\* other rows: what matches changes only together with a return to page 1.
THEOREM PagesFilled == Spec => []NoEmptyPage
<1>1. PagesInv => NoEmptyPage
  BY TasksSafe, CommitsSafe, ReposSafe, NeedsSafe, UsersSafe DEF PagesInv, NoEmptyPage
<1>. QED
  BY <1>1, Invariance, PTL

\* Links are drawn for the dates of the rows held, and the way back from a need leads
\* to the row that was clicked.
THEOREM LinksLead == Spec => []LinksLeadToWhatIsShown
<1>1. PagesInv => LinksLeadToWhatIsShown
  BY CommitsSafe, NeedsSafe, UsersSafe DEF PagesInv, LinksLeadToWhatIsShown
<1>. QED
  BY <1>1, Invariance, PTL

\* The repositories stand in the order the header shows, sorted by the backend or in
\* the browser, those without a value last (RepoList.tsx:5-7).
THEOREM Sorted == Spec => []SortedAsShown
<1>1. PagesInv => SortedAsShown
  BY ReposSafe DEF PagesInv, SortedAsShown
<1>. QED
  BY <1>1, Invariance, PTL
-----------------------------------------------------------------------------
(* What is on the screen.                                                  *)

All == Tasks!Requests \cup Commits!Requests \cup Repos!Requests
       \cup Needs!Requests \cup Users!Requests \cup Orgs!Requests
Screen == IF loading THEN Pending
          ELSE IF failed THEN [of |-> Asked, ok |-> FALSE]
          ELSE [of |-> rowsOf, ok |-> TRUE]

\* A page moves as PageLoad does, unless it is the organisation without a department.
Moves ==
  /\ Asked' \in All
  /\ \/ Screen' = Pending
     \/ /\ Asked \in All
        /\ \/ UNCHANGED <<Asked, Screen>>
           \/ Screen = Pending /\ Screen' \in View!Answers(Asked) /\ Asked' = Asked

LEMMA PagesMove ==
  ASSUME PagesInv, Next
  PROVE  Moves \/ Asked' = NoRequest
<1>1. PagesInv /\ PagesInv' /\ shown' = shown
  BY PagesStep DEF Next
<1>2. ASSUME shown = "tasks", Tasks!Next PROVE Moves
  <2>1. TasksP!Suits /\ TasksP!AddressInv /\ TasksP!AddressInv' /\ TasksP!Loads
    BY <1>1, <1>2, TasksSuits, TasksNext DEF PagesInv, TasksP!PageInv, TasksInv
  <2>2. /\ Asked = TasksP!Asked /\ Screen = TasksP!LoadP!Seen
        /\ Asked' = TasksP!Asked' /\ Screen' = TasksP!LoadP!Seen'
    BY <1>1, <1>2
    DEF Asked, Screen, TasksP!Asked, TasksP!state, Tasks!P!Asked, Tasks!P!state, TasksP!LoadP!Seen
  <2>. QED
    BY <2>1, <2>2, TasksP!PageKeepsPromise DEF Moves, All, View!Answers, TasksP!LoadP!View!Answers
<1>3. ASSUME shown = "commits", Commits!Next PROVE Moves
  <2>1. CommitsP!Suits /\ CommitsP!AddressInv /\ CommitsP!AddressInv' /\ CommitsP!Loads
    BY <1>1, <1>3, CommitsSuits, CommitsNext DEF PagesInv, CommitsP!PageInv
  <2>2. /\ Asked = CommitsP!Asked /\ Screen = CommitsP!LoadP!Seen
        /\ Asked' = CommitsP!Asked' /\ Screen' = CommitsP!LoadP!Seen'
    BY <1>1, <1>3
    DEF Asked, Screen, CommitsP!Asked, CommitsP!state, Commits!P!Asked, Commits!P!state, CommitsP!LoadP!Seen
  <2>. QED
    BY <2>1, <2>2, CommitsP!PageKeepsPromise DEF Moves, All, View!Answers, CommitsP!LoadP!View!Answers
<1>4. ASSUME shown = "repos", Repos!Next PROVE Moves
  <2>1. ReposP!Suits /\ ReposP!AddressInv /\ ReposP!AddressInv' /\ ReposP!Loads
    BY <1>1, <1>4, ReposSuits, ReposNext DEF PagesInv, ReposP!PageInv
  <2>2. /\ Asked = ReposP!Asked /\ Screen = ReposP!LoadP!Seen
        /\ Asked' = ReposP!Asked' /\ Screen' = ReposP!LoadP!Seen'
    BY <1>1, <1>4
    DEF Asked, Screen, ReposP!Asked, ReposP!state, Repos!P!Asked, Repos!P!state, ReposP!LoadP!Seen
  <2>. QED
    BY <2>1, <2>2, ReposP!PageKeepsPromise DEF Moves, All, View!Answers, ReposP!LoadP!View!Answers
<1>5. ASSUME shown = "needs", Needs!Next PROVE Moves
  <2>1. NeedsP!Suits /\ NeedsP!AddressInv /\ NeedsP!AddressInv' /\ NeedsP!Loads
    BY <1>1, <1>5, NeedsSuits, NeedsNext DEF PagesInv, NeedsP!PageInv, NeedsInv
  <2>2. /\ Asked = NeedsP!Asked /\ Screen = NeedsP!LoadP!Seen
        /\ Asked' = NeedsP!Asked' /\ Screen' = NeedsP!LoadP!Seen'
    BY <1>1, <1>5
    DEF Asked, Screen, NeedsP!Asked, NeedsP!state, Needs!P!Asked, Needs!P!state, NeedsP!LoadP!Seen
  <2>. QED
    BY <2>1, <2>2, NeedsP!PageKeepsPromise DEF Moves, All, View!Answers, NeedsP!LoadP!View!Answers
<1>6. ASSUME shown = "users", Users!Next PROVE Moves
  <2>1. UsersP!Suits /\ UsersP!AddressInv /\ UsersP!AddressInv' /\ UsersP!Loads
    BY <1>1, <1>6, UsersSuits, UsersNext DEF PagesInv, UsersInv
  <2>2. /\ Asked = UsersP!Asked /\ Screen = UsersP!LoadP!Seen
        /\ Asked' = UsersP!Asked' /\ Screen' = UsersP!LoadP!Seen'
    BY <1>1, <1>6
    DEF Asked, Screen, UsersP!Asked, UsersP!state, Users!P!Asked, Users!P!state, UsersP!LoadP!Seen
  <2>. QED
    BY <2>1, <2>2, UsersP!PageKeepsPromise DEF Moves, All, View!Answers, UsersP!LoadP!View!Answers
<1>7. ASSUME shown = "orgs", Orgs!Next PROVE Moves \/ Asked' = NoRequest
  <2>1. OrgsInv /\ OrgsInv'
    BY <1>1, <1>7 DEF PagesInv
  <2>2. /\ Asked = IF Orgs!Chosen THEN url ELSE NoRequest
        /\ Asked' = IF Orgs!Chosen' THEN url' ELSE NoRequest
    BY <1>1, <1>7 DEF Asked
  <2>3. /\ Orgs!Chosen => Screen = OrgsP!Seen
        /\ Orgs!Chosen' => Screen' = OrgsP!Seen'
    BY <2>2 DEF Screen, OrgsP!Seen
  <2>. QED
    BY <1>7, <2>1, <2>2, <2>3, OrgsPromise DEF All, Moves, View!Answers, OrgsP!View!Answers
<1>. QED
  BY <1>1, <1>2, <1>3, <1>4, <1>5, <1>6, <1>7 DEF Next

\* What View takes for the screen.
Seen == IF Asked = NoRequest THEN NoRequest
        ELSE IF failed /\ ~loading /\ covered THEN [of |-> NoRequest, ok |-> FALSE] ELSE Screen

LEMMA AskedIs ==
  /\ shown = "tasks" => Asked = TasksP!Asked
  /\ shown = "commits" => Asked = CommitsP!Asked
  /\ shown = "repos" => Asked = ReposP!Asked
  /\ shown = "needs" => Asked = NeedsP!Asked
  /\ shown = "users" => Asked = UsersP!Asked
  /\ shown = "orgs" => Asked = IF Orgs!Chosen THEN url ELSE NoRequest
BY DEF Asked, TasksP!Asked, TasksP!state, Tasks!P!Asked, Tasks!P!state,
       CommitsP!Asked, CommitsP!state, Commits!P!Asked, Commits!P!state,
       ReposP!Asked, ReposP!state, Repos!P!Asked, Repos!P!state,
       NeedsP!Asked, NeedsP!state, Needs!P!Asked, Needs!P!state,
       UsersP!Asked, UsersP!state, Users!P!Asked, Users!P!state

\* At first every list is pending, and no department is chosen.
LEMMA ViewStart == ASSUME Init PROVE View!Init
<1>1. PagesInv
  BY PagesStart
<1>2. Asked \in All \cup {NoRequest}
  BY <1>1, AskedIs, TasksSuits, CommitsSuits, ReposSuits, NeedsSuits, UsersSuits, OrgsChosen
  DEF PagesInv, TasksInv, NeedsInv, UsersInv, OrgsInv, All,
      TasksP!PageInv, TasksP!AddressInv, TasksP!Suits, TasksP!Asked,
      CommitsP!PageInv, CommitsP!AddressInv, CommitsP!Suits, CommitsP!Asked,
      ReposP!PageInv, ReposP!AddressInv, ReposP!Suits, ReposP!Asked,
      NeedsP!PageInv, NeedsP!AddressInv, NeedsP!Suits, NeedsP!Asked,
      UsersP!AddressInv, UsersP!Suits, UsersP!Asked
<1>3. shown # "orgs" => loading
  BY DEF Init, Tasks!Init, Tasks!P!Init, Tasks!P!Load!Init, Commits!Init, Commits!P!Init,
      Commits!P!Load!Init, Repos!Init, Repos!P!Init, Repos!P!Load!Init, Needs!Init,
      Needs!P!Init, Needs!P!Load!Init, Users!Init, Users!P!Init, Users!P!Load!Init
<1>4. shown = "orgs" => Asked = NoRequest
  <2>1. shown = "orgs" => url.dept = NoDept
    BY DEF Init, Orgs!Init
  <2>. QED
    BY <2>1, AskedIs DEF Orgs!Chosen
<1>. QED
  BY <1>2, <1>3, <1>4 DEF View!Init, View!AtFirst, All

\* Whichever page is shown, only the message of a failure is replaced by another.
LEMMA SeenMoves ==
  ASSUME PagesInv, Next
  PROVE  \/ /\ UNCHANGED <<Asked, loading, failed, rowsOf>>
            /\ covered \in BOOLEAN /\ failed \in BOOLEAN
            /\ covered' \in {covered, failed} /\ covered \in {FALSE, failed}
         \/ loading'
         \/ ~covered /\ ~covered'
<1>1. CASE shown # "tasks"
  BY <1>1, PagesStep DEF PagesInv, Next
<1>2. CASE shown = "tasks" /\ Tasks!Next
  <2>1. Messages /\ covered \in BOOLEAN /\ covered \in {FALSE, failed} /\ shown' = "tasks"
    BY <1>2, TasksMessages DEF PagesInv, TasksInv, TicksInv, Next
  <2>3. failed \in BOOLEAN
    BY <1>2 DEF PagesInv, TasksInv, TasksP!PageInv, TasksP!AddressInv, TasksP!LoadP!Inv,
       TasksP!LoadP!TypeOK
  <2>2. url' = url => Asked' = Asked
    BY <1>2, <2>1 DEF Asked, Tasks!P!Asked, Tasks!P!state
  <2>. QED
    BY <2>1, <2>2, <2>3 DEF Messages
<1>. QED
  BY <1>1, <1>2 DEF Next

LEMMA ViewStep == ASSUME PagesInv, [Next]_vars PROVE [View!Next]_<<Asked, Seen>>
<1>1. CASE Next
  <2>1. NoRequest \notin All
    BY NoRequestAssumption DEF All
  <2>2. Asked' = NoRequest => View!Go
    BY DEF View!Go, View!AtFirst
  <2>3. ASSUME Moves, loading' PROVE View!Go
    BY <2>1, <2>3 DEF Moves, All, View!Go, View!AtFirst
  <2>4. ASSUME Moves, ~covered, ~covered' PROVE View!Next \/ UNCHANGED <<Asked, Seen>>
    <3>1. ASSUME Screen' = Pending PROVE View!Go
      BY <2>1, <2>4, <3>1 DEF Moves, All, Screen, View!Go, View!AtFirst
    <3>2. ASSUME Screen' # Pending PROVE View!Settle \/ UNCHANGED <<Asked, Seen>>
      BY <2>1, <2>4, <3>2 DEF Moves, Screen, Seen, View!Settle, View!Answers
    <3>. QED
      BY <3>1, <3>2 DEF View!Next
  <2>5. ASSUME Moves, UNCHANGED <<Asked, loading, failed, rowsOf>>,
               covered \in BOOLEAN, failed \in BOOLEAN, covered' \in {covered, failed},
               covered \in {FALSE, failed}
        PROVE  View!Cover \/ UNCHANGED <<Asked, Seen>>
    <3>1. CASE loading \/ covered' = covered
      BY <2>5, <3>1 DEF Seen, Screen
    <3>2. CASE ~loading /\ covered' # covered
      <4>0. covered = FALSE /\ failed = TRUE /\ covered' = TRUE
        BY <2>5, <3>2
      <4>1. ~covered /\ failed /\ covered' /\ Asked # NoRequest
        BY <2>1, <2>5, <4>0 DEF Moves
      <4>. QED
        BY <2>5, <3>2, <4>1 DEF View!Cover
    <3>. QED
      BY <3>1, <3>2
  <2>. QED
    BY <1>1, <2>2, <2>3, <2>4, <2>5, PagesMove, SeenMoves DEF View!Next
<1>2. CASE UNCHANGED vars
  <2>1. shown' = shown /\ url' = url /\ UNCHANGED <<loading, failed, rowsOf, covered>>
    BY <1>2 DEF vars, urlPage, ofTasks
  <2>2. Asked' = Asked
    BY <2>1
    DEF Asked, Tasks!P!Asked, Tasks!P!state, Commits!P!Asked, Commits!P!state, Repos!P!Asked,
        Repos!P!state, Needs!P!Asked, Needs!P!state, Users!P!Asked, Users!P!state, Orgs!Chosen
  <2>. QED
    BY <2>1, <2>2 DEF Seen, Screen
<1>. QED
  BY <1>1, <1>2

\* A page shows what PageView promises: pending, then the answer or the failure of the
\* request its address stands for, or nothing when it stands for none.
THEOREM PromiseKept == Spec => View!Init /\ [][View!Next]_<<Asked, Seen>>
BY ViewStart, ViewStep, Invariance, PTL DEF Spec
=============================================================================
