------------------------------ MODULE PagedFetch ------------------------------
(***************************************************************************)
(* How the frontend fetches all needs or all users from endpoints that     *)
(* answer page by page (frontend-react api/endpoints.ts, getAllNeedsV2 and *)
(* getAllUsersV2): one request after the other, until as many rows are     *)
(* there as the last answer counts, a page is empty, or MAX_PAGES were     *)
(* asked for. The endpoint sorts the rows and cuts the page out of the     *)
(* table as it is then, counting first; kbcli computes the table anew      *)
(* meanwhile. A request that fails fails the fetch, which the query client *)
(* repeats once.                                                           *)
(***************************************************************************)
EXTENDS Naturals, Sequences, FiniteSets, FiniteSetsExt

CONSTANTS
  NumRows,              \* that can be in the table, numbered as they are sorted
  PageSize, MaxPages,
  Retries,              \* of the query client
  MaxChanges            \* bound of the model

VARIABLES
  table,                \* set of rows
  page, all,            \* of the loop
  call,                 \* the request: none, asked, counted, or answered
  state, tries,
  changes

loop == <<page, all>>
vars == <<table, loop, call, state, tries, changes>>

Rows == 1..NumRows
Rank(rows, r) == Cardinality({x \in rows : x <= r})
Sorted(rows) == [i \in 1..Cardinality(rows) |-> CHOOSE r \in rows : Rank(rows, r) = i]
PageOf(rows, p) == SubSeq(Sorted(rows), (p - 1) * PageSize + 1, Min({p * PageSize, Cardinality(rows)}))
-----------------------------------------------------------------------------
\* The handler counts the rows, then selects those of the page.
Count ==
  /\ call = <<"asked">> /\ call' = <<"counted", Cardinality(table)>>
  /\ UNCHANGED <<table, loop, state, tries, changes>>

Select ==
  /\ call[1] = "counted"
  /\ call' = <<"answered", call[2], PageOf(table, page)>>
  /\ UNCHANGED <<table, loop, state, tries, changes>>

\* The body of the loop.
ReceiveTotalOnce ==           \* faulty: one page too few
  /\ call[1] = "answered"
  /\ all' = all \o call[3]
  /\ IF call[3] = <<>> \/ Len(all') + 1 >= call[2] \/ page = MaxPages
     THEN state' = "done" /\ call' = <<"none">> /\ page' = page
     ELSE state' = state /\ call' = <<"asked">> /\ page' = page + 1
  /\ UNCHANGED <<table, tries, changes>>
ReceiveSamePage ==            \* faulty: the page is not counted up
  /\ call[1] = "answered"
  /\ all' = call[3]
  /\ IF call[3] = <<>> \/ Len(all') >= call[2] \/ page = MaxPages
     THEN state' = "done" /\ call' = <<"none">> /\ page' = page
     ELSE state' = state /\ call' = <<"asked">> /\ page' = page
  /\ UNCHANGED <<table, tries, changes>>
Receive ==
  /\ call[1] = "answered"
  /\ all' = all \o call[3]
  /\ IF call[3] = <<>> \/ Len(all') >= call[2] \/ page = MaxPages
     THEN state' = "done" /\ call' = <<"none">> /\ page' = page
     ELSE state' = state /\ call' = <<"asked">> /\ page' = page + 1
  /\ UNCHANGED <<table, tries, changes>>

\* A new try starts over, with nothing of the rows fetched before.
Fail ==
  /\ call # <<"none">>
  /\ IF tries < Retries
     THEN /\ tries' = tries + 1 /\ state' = state
          /\ page' = 1 /\ all' = <<>> /\ call' = <<"asked">>
     ELSE /\ state' = "failed" /\ call' = <<"none">> /\ UNCHANGED <<tries, loop>>
  /\ UNCHANGED <<table, changes>>

\* kbcli inserts a row or deletes one.
Change ==
  /\ state = "fetching" /\ changes < MaxChanges /\ changes' = changes + 1
  /\ \E r \in Rows :
       table' = IF r \in table THEN table \ {r} ELSE table \cup {r}
  /\ UNCHANGED <<loop, call, state, tries>>

FetchStep == Count \/ Select \/ Receive \/ Fail
Finished == state # "fetching" /\ UNCHANGED vars
Next == FetchStep \/ Change \/ Finished

Init ==
  /\ table \in SUBSET Rows
  /\ page = 1 /\ all = <<>> /\ call = <<"asked">>
  /\ state = "fetching" /\ tries = 0 /\ changes = 0

Spec == Init /\ [][Next]_vars

\* Every request is answered or times out.
FairSpec == Spec /\ WF_vars(FetchStep)
-----------------------------------------------------------------------------

\* The loop counts no further than MAX_PAGES and keeps rows of the table.
TypeOK ==
  /\ table \subseteq Rows /\ page \in 1..MaxPages
  /\ all \in Seq(Rows) /\ Len(all) <= MaxPages * PageSize
  /\ state \in {"fetching", "done", "failed"} /\ tries \in 0..Retries

\* Of a table that does not change the fetch returns every row once, in order,
\* up to MAX_PAGES pages, whatever was tried before (endpoints.ts:57).
StillTableWhole ==
  state = "done" /\ changes = 0 => all = SubSeq(Sorted(table), 1, Min({Cardinality(table), MaxPages * PageSize}))

\* The fetch comes to an end.
FetchEnds == <>(state # "fetching")
=============================================================================
