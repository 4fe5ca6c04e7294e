------------------------------- MODULE UrlPage -------------------------------
(***************************************************************************)
(* A list page whose state is its query string, the pattern the list pages *)
(* of frontend-react repeat: handlers write the string (replacing it in the*)
(* history), a new string reruns the effect that loads the rows and refills*)
(* the fields, and the same string written again does nothing              *)
(* (NeedList.tsx:165-168). What a page reads from the string, writes to it *)
(* and asks the backend for are its parameters.                            *)
(***************************************************************************)
EXTENDS Naturals, FiniteSets

CONSTANTS
  Read(_), Write(_),      \* query string to state and back
  Params(_),              \* state to request
  Defaults,               \* the state of an empty string
  Fields,                 \* the parts of the state the fields hold until "query"
  Requests, NoRequest, Pending,
  MaxCommits, MaxCalls    \* bounds of the model on changes of the string and on
                          \*   requests under way

VARIABLES
  url,                            \* the query string
  draft,                          \* what the fields hold
  calls, loading, failed, rowsOf, \* see PageLoad
  commits,
  meant,                          \* history: the state last written
  early                           \* history: the page was reached on the total of
                                  \*   rows that were being replaced

load == <<calls, loading, failed, rowsOf>>

state == Read(url)
Asked == Params(state)
Load == INSTANCE PageLoad WITH asked <- Asked

Refill(s) == [k \in Fields |-> s[k]]
Drafted == [k \in DOMAIN state |-> IF k \in Fields THEN draft[k] ELSE state[k]]

Init ==
  /\ url = <<>>
  /\ draft = Refill(Defaults)
  /\ Load!Init
  /\ commits = 0 /\ meant = Defaults /\ early = FALSE

\* Dependencies of the effect: the string.
Rerun(u) == IF u = url THEN UNCHANGED load ELSE Load!Ask(Params(Read(u)))

\* The address becomes u, which stands for the state s.
Goto(u, s, d, pickedEarly) ==
  /\ commits < MaxCommits /\ Cardinality(calls) < MaxCalls
  /\ commits' = commits + 1
  /\ url' = u
  /\ Rerun(u)
  /\ draft' = IF u = url THEN d ELSE Refill(Read(u))
  /\ meant' = s
  /\ early' = pickedEarly

\* setSearchParams(buildQuery(s)), with the fields holding d.
Commit(s, d, pickedEarly) == Goto(Write(s), s, d, pickedEarly)

\* The entry of the navigation bar leads to the page without parameters.
OpenFromMenu == Goto(<<>>, Defaults, draft, FALSE)

Type(k, v) ==
  /\ k \in Fields
  /\ draft' = [draft EXCEPT ![k] = v]
  /\ UNCHANGED <<url, load, commits, meant, early>>

\* Reloading the tab forgets everything but the address.
Reload ==
  /\ commits < MaxCommits
  /\ commits' = commits + 1
  /\ url' = url
  /\ draft' = Refill(state)
  /\ Load!Open(Asked)
  /\ UNCHANGED <<meant, early>>

LoadEnds(c) == url' = url /\ Load!End(c) /\ UNCHANGED <<draft, commits, meant, early>>

-----------------------------------------------------------------------------

\* The address holds all that the user has set: a reload or a bookmark brings
\* the page up as it was left.
UrlHoldsState == state = meant
=============================================================================
