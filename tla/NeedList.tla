------------------------------- MODULE NeedList -------------------------------
(***************************************************************************)
(* The list of needs (frontend-react pages/needs/NeedList.tsx): filters,   *)
(* dates, order and page all go to the backend. Filters typed but not yet  *)
(* applied ride along with every change of the address, so that the refill *)
(* of the fields that follows does not wipe them.                          *)
(*                                                                         *)
(* A need is a number; a date range and a filter are the sets of needs they*)
(* match, one filter standing for the six of the page.                     *)
(***************************************************************************)
EXTENDS ListOrder

CONSTANTS
  Needs, Ranges, DefaultRange, Filters,    \* Needs as a filter: no filter
  Sizes, DefaultSize, MaxSize, LinkSizes,  \* offered; default; largest taken from
                                           \*   an address; sizes found in links
  Fields, NoRequest, Pending, MaxCommits, MaxCalls

VARIABLES
  url, draft, calls, loading, failed, rowsOf, commits, meant, early,  \* see UrlPage
  typed          \* history: what the user has put into the fields

vars == <<url, draft, calls, loading, failed, rowsOf, commits, meant, early, typed>>

Defaults == [range |-> DefaultRange, page |-> 1, size |-> DefaultSize,
             order |-> NoOrder, filter |-> Needs]

StateFromParams(u) ==
  LET s == [k \in DOMAIN Defaults |-> IF k \in DOMAIN u THEN u[k] ELSE Defaults[k]]
  IN  [s EXCEPT !.size = IF @ > MaxSize THEN MaxSize ELSE @]

BuildQuery(s) ==
  [k \in {p \in DOMAIN s : p = "range" \/ s[p] # Defaults[p]} |-> s[k]]

\* Everything in the address goes to the backend, page and size always.
BuildParams(s) == s

Requests ==
  [range : Ranges, page : 1..Cardinality(Needs), size : 1..MaxSize,
   order : OrdersOver(Fields), filter : Filters]

P == INSTANCE UrlPage WITH Read <- StateFromParams, Write <- BuildQuery,
       Params <- BuildParams, Fields <- {"range", "filter"}
state == P!state

-----------------------------------------------------------------------------
Matching(q) == q.range \cap q.filter
Rows == IF rowsOf = NoRequest THEN {}
        ELSE PageRows(Matching(rowsOf), rowsOf.page, rowsOf.size, rowsOf.order.desc)
Total == IF rowsOf = NoRequest THEN 0 ELSE Cardinality(Matching(rowsOf))

\* The refill follows every change of the address.
Draftless == draft # P!Refill(state)
KeepTyped == typed' = typed

TypeFilter(f) ==
  /\ P!Type("filter", f)
  /\ typed' = [typed EXCEPT !.filter = f]

ApplyFilters ==
  /\ ~loading
  /\ P!Commit([P!Drafted EXCEPT !.page = 1], draft, FALSE) /\ KeepTyped

ResetFilters ==
  /\ P!Commit(Defaults, P!Refill(Defaults), FALSE)
  /\ typed' = P!Refill(Defaults)

OnDateChange(r) ==
  /\ P!Commit([P!Drafted EXCEPT !.range = r, !.page = 1], [draft EXCEPT !.range = r], FALSE)
  /\ typed' = [typed EXCEPT !.range = r]

HandleSizeChange(n) ==
  P!Commit([P!Drafted EXCEPT !.size = n, !.page = 1], draft, FALSE) /\ KeepTyped

\* Typed filters are applied by this too, at the page chosen for the old ones.
HandlePageChange(p) ==
  /\ p \in Reachable(state.page, Total, state.size)
  /\ P!Commit([P!Drafted EXCEPT !.page = p], draft, loading \/ Draftless \/ early)
  /\ KeepTyped

OnSortChange(field) ==
  /\ P!Commit([P!Drafted EXCEPT !.order = NextOrder(state.order, field), !.page = 1], draft, FALSE)
  /\ KeepTyped

OpenFromMenu ==
  /\ P!OpenFromMenu
  /\ typed' = IF url = <<>> THEN typed ELSE P!Refill(Defaults)

\* A link of an old address, whose redirect keeps the query string: it may ask
\* for any page size.
FollowLink(n) ==
  LET u == [range |-> DefaultRange, size |-> n]
  IN  /\ u # url
      /\ P!Goto(u, StateFromParams(u), P!Refill(Defaults), FALSE)
      /\ typed' = P!Refill(Defaults)

Reload == P!Reload /\ typed' = P!Refill(state)

LoadEnds(c) == P!LoadEnds(c) /\ KeepTyped

\* What the element tree of the page offers.
UserEvents ==
  \/ \E f \in Filters : TypeFilter(f)
  \/ ApplyFilters \/ ResetFilters \/ OpenFromMenu \/ Reload
  \/ \E r \in Ranges : OnDateChange(r)
  \/ \E n \in Sizes : HandleSizeChange(n)
  \/ \E p \in 0..Cardinality(Needs) + 1 : HandlePageChange(p)
  \/ \E f \in Fields : OnSortChange(f)
  \/ \E n \in LinkSizes : FollowLink(n)

\* A row leads to its need, taking the whole state of the list along for the way back.
GoToDetail == IF loading THEN {} ELSE {[need |-> r, back |-> BuildQuery(state)] : r \in Rows}

Init == P!Init /\ typed = P!Refill(Defaults)
Next == UserEvents \/ \E c \in calls : LoadEnds(c)
Spec == Init /\ [][Next]_vars /\ WF_vars(\E c \in calls : c.live /\ LoadEnds(c))
-----------------------------------------------------------------------------

\* In particular no page is larger than the backend serves (NeedList.tsx:91, 97).
TypeOK ==
  /\ state \in Requests
  /\ draft \in [range : Ranges, filter : Filters]
  /\ P!Load!TypeOK

\* What the user typed stays in the fields, whatever else is clicked, until
\* the page is reset or opened anew (NeedList.tsx:221): the refill never
\* wipes a filter that was not applied yet.
TypedIsKept == draft = typed

\* A page that shows no row is the first one, but for a page picked on the total
\* of other rows: rows being replaced, or rows of filters since changed.
NoEmptyPage ==
  (~loading /\ ~failed /\ ~early /\ state.page > 1) => Rows # {}

\* The way back from a need leads to the page of the list it was opened from.
BackLeadsToRows ==
  \A l \in GoToDetail : LET s == StateFromParams(l.back)
                        IN  l.need \in PageRows(Matching(s), s.page, s.size, s.order.desc)
=============================================================================
