------------------------------- MODULE MCFlows -------------------------------
(* Instance of Flows for model checking.                                   *)
EXTENDS Flows

CONSTANTS p1, c1, r1, r2, r3, t1, t2

\* Three tasks, and dates that leave one of them.
MCItems == 1..3
MCRanges == {1..3, {3}}
MCDefault == 1..3
MCNames == {1..3, {2, 3}}

\* One project exists and has one of the commits.
MCMembers == [p \in {p1} |-> {c1}]

\* Two repositories at first; one task comes with the first of them.
MCTasksOf == [r \in {r1, r2, r3} |-> IF r = r1 THEN {t1} ELSE {}]
MCFirstRepos == <<r1, r2>>
=============================================================================
