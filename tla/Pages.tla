--------------------------------- MODULE Pages ---------------------------------
(***************************************************************************)
(* The pages of frontend-react that load from the address, as the router   *)
(* shows them (router.tsx): one at a time, which begins anew whenever it is*)
(* opened and whose requests no longer count when it is left, so that      *)
(* `shown` never has to change. In                                         *)
(* the lists of tasks, commits, repositories and needs the backend cuts out*)
(* the page of rows, in that of the users the browser does, and the page of*)
(* the organisation shows the members of the department in the address.    *)
(***************************************************************************)
EXTENDS Naturals, FiniteSets, Sequences

CONSTANTS
  Items, Ranges, DefaultRange,  \* rows of a page; dates, the sets of rows they match
  Names,                        \* what is typed to filter; Items: nothing
  Value, NoValue,               \* of a row in the columns sorted in the browser
  Sizes, DefaultSize, MaxSize, LinkSizes,
  ServerFields, ClientFields,
  Depts, NoDept, Trees, NoTree, \* see OrgTree
  NoRequest, Pending,
  MaxCommits, MaxCalls, MaxTrees \* bounds of the model, see UrlPage and OrgTree

ASSUME PagesAssumption ==
  /\ Items \subseteq Nat /\ IsFiniteSet(Items) /\ Items # {}
  /\ DefaultRange \in Ranges /\ Ranges \subseteq SUBSET Items
  /\ Items \in Names /\ Names \subseteq SUBSET Items
  /\ \A r \in Items : Value[r] \in Nat \cup {NoValue}
  /\ DefaultSize \in Sizes /\ Sizes \subseteq 1..MaxSize /\ MaxSize \in Nat
  /\ LinkSizes \subseteq Nat \ {0}
  /\ ServerFields \cap ClientFields = {}
  /\ \A t \in Trees : t.roots \in Seq(Depts) /\ t.kids \in [Depts -> Seq(Depts)]
  /\ NoDept \notin Depts

VARIABLES
  shown,                                                \* the page
  url, draft, calls, loading, failed, rowsOf, commits, meant, early, \* see UrlPage
  lacking, covered, selected, addOpen, adding, estimate, estimates, \* see TaskList
  typed,                                                \* see NeedList
  keyword, page, pageSize,                              \* see UserList
  tree, expanded, trees                                 \* see OrgTree

urlPage == <<url, draft, calls, loading, failed, rowsOf, commits, meant, early>>
ofTasks == <<lacking, covered, selected, addOpen, adding, estimate, estimates>>
ofUsers == <<keyword, page, pageSize>>
ofOrgs == <<tree, expanded, trees>>
vars == <<shown, urlPage, ofTasks, typed, ofUsers, ofOrgs>>

Tasks   == INSTANCE TaskList WITH Tasks <- Items, MaxEstimates <- 0
Commits == INSTANCE CommitList WITH Commits <- Items
Repos   == INSTANCE RepoList WITH Repos <- Items
Needs   == INSTANCE NeedList WITH Needs <- Items, Filters <- Names, Fields <- ServerFields
Users   == INSTANCE UserList WITH Users <- Items, Keywords <- Names, Ratio <- Value,
             Fields <- ClientFields
Orgs    == INSTANCE OrgTree

\* An answer that is not held is none of those asked for.
ASSUME NoRequestAssumption ==
  NoRequest \notin Tasks!Requests \cup Commits!Requests \cup Repos!Requests
                   \cup Needs!Requests \cup Users!Requests \cup Orgs!Requests

\* The state of the pages that are not shown.
NotTasks == lacking = FALSE /\ covered = FALSE /\ selected = {} /\ addOpen = FALSE
            /\ adding = <<>> /\ estimate = <<>> /\ estimates = 0
NotNeeds == typed = <<>>
NotUsers == keyword = Items /\ page = 1 /\ pageSize = DefaultSize
NotOrgs  == tree = NoTree /\ expanded = {} /\ trees = 0
NotList  == draft = <<>> /\ meant = <<>> /\ early = FALSE

Init ==
  \/ shown = "tasks"   /\ Tasks!Init   /\ NotNeeds /\ NotUsers /\ NotOrgs
  \/ shown = "commits" /\ Commits!Init /\ NotTasks /\ NotNeeds /\ NotUsers /\ NotOrgs
  \/ shown = "repos"   /\ Repos!Init   /\ NotTasks /\ NotNeeds /\ NotUsers /\ NotOrgs
  \/ shown = "needs"   /\ Needs!Init   /\ NotTasks /\ NotUsers /\ NotOrgs
  \/ shown = "users"   /\ Users!Init   /\ NotTasks /\ NotNeeds /\ NotOrgs
  \/ shown = "orgs"    /\ Orgs!Init    /\ NotList /\ NotTasks /\ NotNeeds /\ NotUsers

Next ==
  \/ shown = "tasks"   /\ Tasks!Next   /\ UNCHANGED <<shown, typed, ofUsers, ofOrgs>>
  \/ shown = "commits" /\ Commits!Next /\ UNCHANGED <<shown, ofTasks, typed, ofUsers, ofOrgs>>
  \/ shown = "repos"   /\ Repos!Next   /\ UNCHANGED <<shown, ofTasks, typed, ofUsers, ofOrgs>>
  \/ shown = "needs"   /\ Needs!Next   /\ UNCHANGED <<shown, ofTasks, ofUsers, ofOrgs>>
  \/ shown = "users"   /\ Users!Next   /\ UNCHANGED <<shown, ofTasks, typed, ofOrgs>>
  \/ shown = "orgs"    /\ Orgs!Next    /\ UNCHANGED <<shown, draft, meant, early, ofTasks, typed, ofUsers>>

\* A request that counts ends, answered or timed out.
Settle ==
  \E c \in calls :
    /\ c.live
    /\ \/ shown = "tasks"   /\ Tasks!LoadEnds(c)   /\ UNCHANGED <<shown, typed, ofUsers, ofOrgs>>
       \/ shown = "commits" /\ Commits!LoadEnds(c) /\ UNCHANGED <<shown, ofTasks, typed, ofUsers, ofOrgs>>
       \/ shown = "repos"   /\ Repos!LoadEnds(c)   /\ UNCHANGED <<shown, ofTasks, typed, ofUsers, ofOrgs>>
       \/ shown = "needs"   /\ Needs!LoadEnds(c)   /\ UNCHANGED <<shown, ofTasks, ofUsers, ofOrgs>>
       \/ shown = "users"   /\ Users!LoadEnds(c)   /\ UNCHANGED <<shown, ofTasks, typed, ofOrgs>>
       \/ shown = "orgs"    /\ Orgs!LoadEnds(c)
                            /\ UNCHANGED <<shown, draft, meant, early, ofTasks, typed, ofUsers>>

Spec == Init /\ [][Next]_vars /\ WF_vars(Settle)
-----------------------------------------------------------------------------

TypeOK ==
  /\ shown = "tasks" => Tasks!TypeOK
  /\ shown = "commits" => Commits!TypeOK
  /\ shown = "repos" => Repos!TypeOK
  /\ shown = "needs" => Needs!TypeOK
  /\ shown = "users" => Users!TypeOK
  /\ shown = "orgs" => Orgs!TypeOK

\* The request the address stands for.
Asked ==
  CASE shown = "tasks" -> Tasks!P!Asked
    [] shown = "commits" -> Commits!P!Asked
    [] shown = "repos" -> Repos!P!Asked
    [] shown = "needs" -> Needs!P!Asked
    [] shown = "users" -> Users!P!Asked
    [] shown = "orgs" -> IF Orgs!Chosen THEN url ELSE NoRequest

View == INSTANCE PageView WITH
          Requests <- Tasks!Requests \cup Commits!Requests \cup Repos!Requests
                      \cup Needs!Requests \cup Users!Requests \cup Orgs!Requests,
          Nothing <- NoRequest,
          asked <- Asked,
          seen <- IF Asked = NoRequest THEN NoRequest
                  ELSE IF loading THEN Pending
                  ELSE IF failed THEN [of |-> IF covered THEN NoRequest ELSE Asked, ok |-> FALSE]
                  ELSE [of |-> rowsOf, ok |-> TRUE]

\* What a page shows is what a page promises (PageView): pending, then the
\* answer of the request its address stands for, or the failure of that very
\* request, and every load ends. In the list of tasks the outcome of an addition to a
\* project may replace the failure (TaskList.tsx:261), and the table is empty then.
KeepsPromise == View!Spec

\* What the user has set is not lost. On the pages that keep everything in the
\* address a reload, a bookmark or a link brings up the page as it was left; what is
\* typed into a field of the list of needs stays there, whatever else is clicked,
\* until the page is reset or opened anew (NeedList.tsx:221).
InputIsKept ==
  /\ shown = "tasks" => Tasks!P!UrlHoldsState
  /\ shown = "commits" => Commits!P!UrlHoldsState
  /\ shown = "needs" => Needs!TypedIsKept

\* A page that shows no row is the first one: every handler that changes what
\* matches goes back to page 1. The exception is a page picked while other rows
\* were still being replaced: its button was drawn for their total.
NoEmptyPage ==
  /\ shown = "tasks" => Tasks!NoEmptyPage
  /\ shown = "commits" => Commits!NoEmptyPage
  /\ shown = "repos" => Repos!NoEmptyPage
  /\ shown = "needs" => Needs!NoEmptyPage
  /\ shown = "users" => Users!NoEmptyPage

\* A link carries the dates of the rows it is drawn in, not those noted in a
\* field, and the page of a need the way back to the list it was in: the detail page
\* opened from a row covers what was clicked, and its way back leads to that row.
LinksLeadToWhatIsShown ==
  /\ shown = "needs" => Needs!BackLeadsToRows
  /\ shown = "commits" => Commits!LinksLeadToWhatIsShown
  /\ shown = "users" => Users!LinksLeadToWhatIsShown

\* Once the page is settled the rows stand in the order its header shows,
\* whether the backend or the browser sorts the column (RepoList.tsx:5-7).
SortedAsShown == shown = "repos" => Repos!SortedAsShown
=============================================================================
