------------------------------- MODULE RepoList -------------------------------
(***************************************************************************)
(* The repository list (frontend-react pages/repos/RepoList.tsx). The rows *)
(* the backend sorts are fetched again on a click on a server column; the  *)
(* other columns are sorted in the browser, on the rows of the page held.  *)
(* A repository is a number, a date range the set of those active in it;   *)
(* Value is what the client columns show, NoValue where there is nothing.  *)
(***************************************************************************)
EXTENDS ListOrder

CONSTANTS
  Repos, Ranges, DefaultRange, Value,
  Sizes, DefaultSize, ServerFields, ClientFields,
  NoRequest, Pending, MaxCommits, MaxCalls

VARIABLES url, draft, calls, loading, failed, rowsOf, commits, meant, early  \* see UrlPage

vars == <<url, draft, calls, loading, failed, rowsOf, commits, meant, early>>

Defaults == [range |-> DefaultRange, page |-> 1, size |-> DefaultSize, order |-> NoOrder]

StateFromParams(u) ==
  [k \in DOMAIN Defaults |-> IF k \in DOMAIN u THEN u[k] ELSE Defaults[k]]

BuildQuery(s) ==
  [k \in {p \in DOMAIN s : p = "range" \/ s[p] # Defaults[p]} |-> s[k]]

BuildParamsNoOrder(s) ==      \* faulty: the column is missing from the list of server columns
  [range |-> s.range, page |-> s.page, size |-> s.size, order |-> NoOrder]
BuildParams(s) ==
  [range |-> s.range, page |-> s.page, size |-> s.size,
   order |-> IF s.order.field \in ServerFields THEN s.order ELSE NoOrder]

Requests ==
  [range : Ranges, page : 1..Cardinality(Repos), size : Sizes,
   order : OrdersOver(ServerFields)]

P == INSTANCE UrlPage WITH Read <- StateFromParams, Write <- BuildQuery,
       Params <- BuildParams, Fields <- {"range"}
state == P!state

-----------------------------------------------------------------------------
\* The rows held, in the order of the answer.
Rows ==
  IF rowsOf = NoRequest THEN <<>>
  ELSE LET rows == PageRows(rowsOf.range, rowsOf.page, rowsOf.size, rowsOf.order.desc)
       IN  InOrder(rows, ByNumber(rows, rowsOf.order.desc))
Total == IF rowsOf = NoRequest THEN 0 ELSE Cardinality(rowsOf.range)

\* A client column is sorted in the browser, a server column comes sorted.
DisplayRows ==
  IF state.order.field \in ClientFields
  THEN SortRows(Rows, Value, state.order.desc)
  ELSE Rows

OnDateChange(r) ==
  P!Commit([P!Drafted EXCEPT !.range = r, !.page = 1], [draft EXCEPT !.range = r], FALSE)

HandleSizeChange(n) == P!Commit([P!Drafted EXCEPT !.size = n, !.page = 1], draft, FALSE)

HandlePageChange(p) ==
  /\ p \in Reachable(state.page, Total, state.size)
  /\ P!Commit([P!Drafted EXCEPT !.page = p], draft, loading \/ early)

OnSortChange(field) ==
  P!Commit([P!Drafted EXCEPT !.order = NextOrder(state.order, field),
                             !.page = IF field \in ServerFields THEN 1 ELSE @],
           draft, early /\ field \notin ServerFields)

LoadEnds(c) == P!LoadEnds(c)

\* What the element tree of the page offers.
UserEvents ==
  \/ P!OpenFromMenu \/ P!Reload
  \/ \E r \in Ranges : OnDateChange(r)
  \/ \E n \in Sizes : HandleSizeChange(n)
  \/ \E p \in 0..Cardinality(Repos) + 1 : HandlePageChange(p)
  \/ \E f \in ServerFields \cup ClientFields : OnSortChange(f)

Init == P!Init
Next == UserEvents \/ \E c \in calls : LoadEnds(c)
Spec == Init /\ [][Next]_vars
-----------------------------------------------------------------------------

TypeOK ==
  /\ state \in [range : Ranges, page : 1..Cardinality(Repos), size : Sizes,
               order : OrdersOver(ServerFields \cup ClientFields)]
  /\ draft \in [range : Ranges]
  /\ P!Load!TypeOK

\* Once the page is settled the rows stand in the order its header shows,
\* whether the backend or the browser sorts the column, and rows without a
\* value stand last in a client column (RepoList.tsx:5-7).
SortedAsShown ==
  (~loading /\ ~failed) =>
    \A i, j \in DOMAIN DisplayRows : i < j =>
      LET a == DisplayRows[i]
          b == DisplayRows[j]
          o == state.order
      IN  IF o.field \in ClientFields
          THEN \/ Value[b] = NoValue
               \/ Value[a] # NoValue /\ IF o.desc THEN Value[a] >= Value[b] ELSE Value[a] <= Value[b]
          ELSE IF o.desc THEN a > b ELSE a < b

\* A page that shows no row is the first one, unless it was picked on the total
\* of rows that were being replaced (see TaskList).
NoEmptyPage ==
  (~loading /\ ~failed /\ ~early /\ state.page > 1) => Rows # <<>>
=============================================================================
