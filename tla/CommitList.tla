------------------------------ MODULE CommitList ------------------------------
(***************************************************************************)
(* The commit list (frontend-react pages/commits/CommitList.tsx): dates,   *)
(* page and the order of server columns go to the backend, the filter by   *)
(* user name and the order of client columns work on the page of rows held.*)
(* The filters by organisation, which only an address written by hand sets,*)
(* are left out. A commit is a number, a date range or a name the set of   *)
(* commits it matches.                                                     *)
(***************************************************************************)
EXTENDS ListOrder

CONSTANTS
  Commits, Ranges, DefaultRange, Names,   \* Commits as a name: no filter
  Sizes, DefaultSize, ServerFields, ClientFields,
  NoRequest, Pending, MaxCommits, MaxCalls

VARIABLES url, draft, calls, loading, failed, rowsOf, commits, meant, early  \* see UrlPage

vars == <<url, draft, calls, loading, failed, rowsOf, commits, meant, early>>

Defaults == [range |-> DefaultRange, page |-> 1, size |-> DefaultSize,
             order |-> NoOrder, name |-> Commits]

StateFromParams(u) ==
  [k \in DOMAIN Defaults |-> IF k \in DOMAIN u THEN u[k] ELSE Defaults[k]]

BuildQueryNoName(s) ==      \* faulty: the name is not kept in the address
  [k \in {p \in DOMAIN s : p = "range" \/ (p # "name" /\ s[p] # Defaults[p])} |-> s[k]]
BuildQuery(s) ==
  [k \in {p \in DOMAIN s : p = "range" \/ s[p] # Defaults[p]} |-> s[k]]

BuildParams(s) ==
  [range |-> s.range, page |-> s.page, size |-> s.size,
   order |-> IF s.order.field \in ServerFields THEN s.order ELSE NoOrder]

Requests ==
  [range : Ranges, page : 1..Cardinality(Commits), size : Sizes,
   order : OrdersOver(ServerFields)]

P == INSTANCE UrlPage WITH Read <- StateFromParams, Write <- BuildQuery,
       Params <- BuildParams, Fields <- {"range", "name"}
state == P!state

-----------------------------------------------------------------------------
Rows == IF rowsOf = NoRequest THEN {}
        ELSE PageRows(rowsOf.range, rowsOf.page, rowsOf.size, rowsOf.order.desc)
Total == IF rowsOf = NoRequest THEN 0 ELSE Cardinality(rowsOf.range)
FilteredRows == Rows \cap state.name

TypeName(n) == P!Type("name", n)

ApplyFilters == ~loading /\ P!Commit([P!Drafted EXCEPT !.page = 1], draft, FALSE)

ResetFilters == P!Commit(Defaults, P!Refill(Defaults), FALSE)

OnDateChange(r) ==
  P!Commit([P!Drafted EXCEPT !.range = r, !.page = 1], [draft EXCEPT !.range = r], FALSE)

HandleSizeChange(n) == P!Commit([P!Drafted EXCEPT !.size = n, !.page = 1], draft, FALSE)

HandlePageChange(p) ==
  /\ p \in Reachable(state.page, Total, state.size)
  /\ P!Commit([P!Drafted EXCEPT !.page = p], draft, loading \/ early)

OnSortChange(field) ==
  P!Commit([P!Drafted EXCEPT !.order = NextOrder(state.order, field),
                             !.page = IF field \in ServerFields THEN 1 ELSE @],
           draft, early /\ field \notin ServerFields)

LoadEnds(c) == P!LoadEnds(c)

\* A row links to its author and to its repository, for the dates of the page; the
\* commit itself is opened without dates. Only rows that pass the filter are there.
Links == IF loading THEN {} ELSE {[row |-> k, range |-> state.range] : k \in FilteredRows}

\* What the element tree of the page offers.
UserEvents ==
  \/ \E n \in Names : TypeName(n)
  \/ ApplyFilters \/ ResetFilters \/ P!OpenFromMenu \/ P!Reload
  \/ \E r \in Ranges : OnDateChange(r)
  \/ \E n \in Sizes : HandleSizeChange(n)
  \/ \E p \in 0..Cardinality(Commits) + 1 : HandlePageChange(p)
  \/ \E f \in ServerFields \cup ClientFields : OnSortChange(f)

Init == P!Init
Next == UserEvents \/ \E c \in calls : LoadEnds(c)
Spec == Init /\ [][Next]_vars
-----------------------------------------------------------------------------

TypeOK ==
  /\ state \in [range : Ranges, page : 1..Cardinality(Commits), size : Sizes,
               order : OrdersOver(ServerFields \cup ClientFields), name : Names]
  /\ draft \in [range : Ranges, name : Names]
  /\ P!Load!TypeOK

\* A link carries the dates of the rows it is drawn in: the page of an author or of
\* a repository that is opened from a row covers the commit of that row.
LinksLeadToWhatIsShown == \A l \in Links : l.row \in l.range

\* A page that shows no row is the first one, unless it was picked on the total
\* of rows that were being replaced (see TaskList).
NoEmptyPage ==
  (~loading /\ ~failed /\ ~early /\ state.page > 1) => Rows # {}
=============================================================================
