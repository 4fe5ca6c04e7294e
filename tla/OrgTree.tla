-------------------------------- MODULE OrgTree --------------------------------
(***************************************************************************)
(* The organisation page of frontend-react: the tree of departments        *)
(* (pages/orgs/OrgTree.tsx), of which only opened branches are drawn, and  *)
(* the members of the department chosen (DeptMembersPanel.tsx), loaded by  *)
(* an effect of its own (PageLoad) for the department and the dates in the *)
(* address, and dimmed while they load. Without a department the effect    *)
(* clears the members and returns before it touches anything else.         *)
(***************************************************************************)
EXTENDS Naturals, FiniteSets, Sequences

CONSTANTS
  Depts, NoDept,
  Trees,            \* what the backend may answer: roots and children, in order
  NoTree,
  Ranges, DefaultRange,
  NoRequest, Pending,
  MaxCommits, MaxCalls, MaxTrees    \* bounds of the model

VARIABLES
  url,                              \* [dept, range]
  tree, expanded,
  calls, loading, failed, rowsOf,   \* see PageLoad; rowsOf stands for the members
  commits, trees

load == <<calls, loading, failed, rowsOf>>
branches == <<tree, expanded, trees>>
vars == <<url, branches, load, commits>>

Requests == [dept : Depts, range : Ranges]
Load == INSTANCE PageLoad WITH asked <- url

InSeq(s) == {s[i] : i \in DOMAIN s}

\* The root of the first branch with children and the first child all the way down:
\* what every set holds that has the root and with a department its first child.
FirstBranchIds(t) ==
  LET inner == {i \in DOMAIN t.roots : t.kids[t.roots[i]] # <<>>}
      root == t.roots[IF inner = {} THEN 1 ELSE CHOOSE i \in inner : \A j \in inner : i <= j]
      closed == {S \in SUBSET Depts :
                   root \in S /\ \A d \in S : t.kids[d] # <<>> => Head(t.kids[d]) \in S}
  IN  IF t.roots = <<>> THEN {} ELSE {d \in Depts : \A S \in closed : d \in S}

\* TreeNode: the children of a closed node are not drawn.
Drawn ==
  LET below[d \in Depts] ==
        {d} \cup (IF d \in expanded THEN UNION {below[c] : c \in InSeq(tree.kids[d])} ELSE {})
  IN  IF tree = NoTree THEN {} ELSE UNION {below[d] : d \in InSeq(tree.roots)}

-----------------------------------------------------------------------------
\* The first tree, or another one later (a fetch after the network came back).
\* Nothing open: the first branch is opened, its leaf included, which has no
\* button to be closed by.
TreeArrives(t) ==
  /\ trees < MaxTrees /\ t # tree
  /\ trees' = trees + 1
  /\ tree' = t
  /\ expanded' = IF expanded = {} THEN FirstBranchIds(t) ELSE expanded
  /\ UNCHANGED <<url, load, commits>>

Toggle(d) ==
  /\ d \in Drawn /\ tree.kids[d] # <<>>
  /\ expanded' = IF d \in expanded THEN expanded \ {d} ELSE expanded \cup {d}
  /\ UNCHANGED <<url, tree, trees, load, commits>>

\* No department: the run before is aborted, and the answer it held is dropped;
\* the dimming, not seen without a department, stays as it is.
Clear ==
  /\ calls' = {Load!Call(c.of, FALSE) : c \in calls}
  /\ rowsOf' = NoRequest
  /\ UNCHANGED <<loading, failed>>

Goto(u) ==
  /\ commits < MaxCommits /\ Cardinality(calls) < MaxCalls
  /\ commits' = commits + 1
  /\ url' = u
  /\ IF u = url THEN UNCHANGED load ELSE IF u.dept = NoDept THEN Clear ELSE Load!Ask(u)
  /\ UNCHANGED branches

Select(d) == d \in Drawn /\ Goto([url EXCEPT !.dept = d])
OnDateChange(r) == Goto([url EXCEPT !.range = r])
OpenFromMenu == Goto([dept |-> NoDept, range |-> DefaultRange])

LoadEnds(c) == url' = url /\ Load!End(c) /\ UNCHANGED <<branches, commits>>

Settle == \E c \in calls : c.live /\ LoadEnds(c)

\* What the tree and the header offer.
UserEvents ==
  \/ \E d \in Depts : Toggle(d) \/ Select(d)
  \/ \E r \in Ranges : OnDateChange(r)
  \/ OpenFromMenu

Init ==
  /\ url = [dept |-> NoDept, range |-> DefaultRange]
  /\ tree = NoTree /\ expanded = {} /\ trees = 0
  /\ calls = {} /\ loading = FALSE /\ failed = FALSE /\ rowsOf = NoRequest
  /\ commits = 0

Next == UserEvents \/ (\E t \in Trees : TreeArrives(t)) \/ (\E c \in calls : LoadEnds(c))

\* Requests end, answered or timed out.
Spec == Init /\ [][Next]_vars /\ WF_vars(Settle)
-----------------------------------------------------------------------------

Chosen == url.dept # NoDept

TypeOK ==
  /\ url \in [dept : Depts \cup {NoDept}, range : Ranges]
  /\ calls \subseteq [of : Requests, live : BOOLEAN]
  /\ rowsOf \in Requests \cup {NoRequest}
  /\ expanded \subseteq Depts

=============================================================================
