------------------------------- MODULE UserList -------------------------------
(***************************************************************************)
(* The list of users (frontend-react pages/users/UserList.tsx). Only dates *)
(* and order are in the address; every change of it fetches all users of   *)
(* the dates (endpoints.ts getAllUsersV2), and keyword, order, page and    *)
(* page size, the component's own state, work on the rows held.            *)
(*                                                                         *)
(* A user is a number; a date range is the set of users active in it, a    *)
(* keyword the set of users it matches. Ratio is the value of the columns, *)
(* NoValue where the backend sends null.                                   *)
(***************************************************************************)
EXTENDS ListOrder, Functions

CONSTANTS
  Users, Ranges, DefaultRange, Keywords,   \* Users as a keyword: none typed
  Ratio, Sizes, DefaultSize, Fields,
  NoRequest, Pending, MaxCommits, MaxCalls

VARIABLES
  url, draft, calls, loading, failed, rowsOf, commits, meant, early,  \* see UrlPage
  keyword, page, pageSize

local == <<keyword, page, pageSize>>
load == <<calls, loading, failed, rowsOf>>
vars == <<url, draft, load, commits, meant, early, local>>

Orders == OrdersOver(Fields)
Defaults == [range |-> DefaultRange, order |-> NoOrder]
StateFromParams(u) ==
  [k \in DOMAIN Defaults |-> IF k \in DOMAIN u THEN u[k] ELSE Defaults[k]]
BuildQuery(s) == [k \in {p \in DOMAIN s : p = "range" \/ s[p] # Defaults[p]} |-> s[k]]

\* The order is part of the address but not of the request.
BuildParams(s) == [range |-> s.range]

Requests == [range : Ranges]

P == INSTANCE UrlPage WITH Read <- StateFromParams, Write <- BuildQuery,
       Params <- BuildParams, Fields <- {"range"}
state == P!state

-----------------------------------------------------------------------------
\* Number(null) is 0.
GetterFor(r) == IF Ratio[r] = NoValue THEN 0 ELSE Ratio[r]

AllRows == IF rowsOf = NoRequest THEN {} ELSE rowsOf.range
FilteredRows == AllRows \cap keyword
SortedRows ==
  LET rows == InOrder(FilteredRows, ByNumber(FilteredRows, FALSE))
  IN  IF state.order = NoOrder THEN rows
      ELSE SortRows(rows, [r \in FilteredRows |-> GetterFor(r)], state.order.desc)
PagedRows == SubSeq(SortedRows, (page - 1) * pageSize + 1,
                    IF page * pageSize < Len(SortedRows) THEN page * pageSize ELSE Len(SortedRows))

FirstPage == page' = 1 /\ UNCHANGED <<keyword, pageSize>>

SetKeyword(kw) ==
  /\ keyword' = kw /\ page' = 1 /\ UNCHANGED pageSize
  /\ UNCHANGED <<url, draft, load, commits, meant, early>>

\* A date is only noted, for the next query.
OnDateChange(r) == P!Type("range", r) /\ UNCHANGED local

ApplyFilters == ~loading /\ P!Commit(P!Drafted, draft, FALSE) /\ FirstPage

ResetFilters ==
  /\ P!Commit(Defaults, P!Refill(Defaults), FALSE)
  /\ keyword' = Users /\ page' = 1 /\ UNCHANGED pageSize

OnSortChange(field) ==
  /\ P!Commit([P!Drafted EXCEPT !.order = NextOrder(state.order, field)], draft, FALSE)
  /\ FirstPage

SetPage(p) ==
  /\ p \in Reachable(page, Cardinality(FilteredRows), pageSize)
  /\ page' = p /\ early' = (loading \/ early)
  /\ UNCHANGED <<keyword, pageSize, url, draft, load, commits, meant>>

OnSizeChange(n) ==
  /\ pageSize' = n /\ page' = 1
  /\ UNCHANGED <<keyword, url, draft, load, commits, meant, early>>

\* The entry of the navigation bar changes the dates under keyword and page.
OpenFromMenu == P!Goto(<<>>, Defaults, draft, TRUE) /\ UNCHANGED local

Reload ==
  /\ P!Reload
  /\ keyword' = Users /\ page' = 1 /\ pageSize' = DefaultSize

LoadEnds(c) == P!LoadEnds(c) /\ UNCHANGED local

GoToDetailDraft ==    \* faulty: the dates noted, not those of the rows
  IF loading THEN {} ELSE {[user |-> u, range |-> draft.range] : u \in Range(PagedRows)}
GoToDetail ==
  IF loading THEN {} ELSE {[user |-> u, range |-> state.range] : u \in Range(PagedRows)}

\* What the element tree of the page offers.
UserEvents ==
  \/ \E kw \in Keywords : SetKeyword(kw)
  \/ \E r \in Ranges : OnDateChange(r)
  \/ ApplyFilters \/ ResetFilters \/ OpenFromMenu \/ Reload
  \/ \E f \in Fields : OnSortChange(f)
  \/ \E p \in 0..Cardinality(Users) + 1 : SetPage(p)
  \/ \E n \in Sizes : OnSizeChange(n)

Init == P!Init /\ keyword = Users /\ page = 1 /\ pageSize = DefaultSize
Next == UserEvents \/ \E c \in calls : LoadEnds(c)
Spec == Init /\ [][Next]_vars /\ WF_vars(\E c \in calls : c.live /\ LoadEnds(c))
-----------------------------------------------------------------------------

TypeOK ==
  /\ state \in [range : Ranges, order : Orders]
  /\ draft \in [range : Ranges]
  /\ keyword \in Keywords /\ page \in 1..Cardinality(Users) /\ pageSize \in Sizes
  /\ P!Load!TypeOK

\* A page that shows no row is the first one: keyword, order, page size and
\* dates go back to it. The exceptions are a page picked on rows that were
\* being replaced and one kept while the menu changed the dates.
NoEmptyPage ==
  (~loading /\ ~failed /\ ~early /\ page > 1) => PagedRows # <<>>

\* A click on a user opens the user for dates in which the row was active, not
\* for dates only noted in the field.
LinksLeadToWhatIsShown == \A l \in GoToDetail : l.user \in l.range
=============================================================================
