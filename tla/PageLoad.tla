------------------------------ MODULE PageLoad ------------------------------
(***************************************************************************)
(* The effect by which the pages of frontend-react load their content: run *)
(* on every change of the query string, it starts a request, and its clean-*)
(* up marks the request of the previous run as aborted. The request itself *)
(* is not cancelled: answers arrive in any order, or not before the client *)
(* gives up (the 30 s timeout of api/client.ts), and the callbacks of an   *)
(* aborted run do nothing. Written from pages/tasks/TaskList.tsx; the other*)
(* pages hold a copy of the same effect.                                   *)
(*                                                                         *)
(* Two aborted requests for the same content are not told apart: neither   *)
(* has any effect when it ends.                                            *)
(***************************************************************************)
CONSTANTS
  Requests,   \* what may be asked of the backend
  NoRequest,  \* no answer is held: before the first, and after a failure
  Pending

VARIABLES
  asked,    \* the request of the latest run of the effect
  calls,    \* requests under way: [of |-> request, live |-> not aborted]
  loading,  \* the skeleton is shown
  failed,   \* errMsg is shown
  rowsOf    \* the request the rows in the component's state answer

vars == <<asked, calls, loading, failed, rowsOf>>

Call(q, b) == [of |-> q, live |-> b]

Init ==
  /\ asked \in Requests
  /\ calls = {Call(asked, TRUE)}
  /\ loading = TRUE
  /\ failed = FALSE
  /\ rowsOf = NoRequest

\* The effect: abort the run before, show the skeleton, send the request.
\* The rows stay in the state until an answer replaces them.
Ask(q) ==
  /\ asked' = q
  /\ calls' = {Call(c.of, FALSE) : c \in calls} \cup {Call(q, TRUE)}
  /\ loading' = TRUE
  /\ failed' = FALSE
  /\ UNCHANGED rowsOf

\* The page is opened, or reloaded: its former state and requests are gone.
Open(q) ==
  /\ asked' = q
  /\ calls' = {Call(q, TRUE)}
  /\ loading' = TRUE
  /\ failed' = FALSE
  /\ rowsOf' = NoRequest

AnswerUnchecked(c) ==  \* faulty: `aborted` is not looked at
  /\ c \in calls
  /\ calls' = calls \ {c}
  /\ rowsOf' = c.of
  /\ loading' = FALSE
  /\ UNCHANGED <<asked, failed>>

\* The request ends: a late answer of an aborted run is dropped.
Answer(c) ==
  /\ c \in calls
  /\ calls' = calls \ {c}
  /\ IF c.live
     THEN rowsOf' = c.of /\ loading' = FALSE
     ELSE UNCHANGED <<rowsOf, loading>>
  /\ UNCHANGED <<asked, failed>>

Refuse(c) ==
  /\ c \in calls
  /\ calls' = calls \ {c}
  /\ IF c.live
     THEN rowsOf' = NoRequest /\ failed' = TRUE /\ loading' = FALSE
     ELSE UNCHANGED <<rowsOf, failed, loading>>
  /\ UNCHANGED asked

End(c) == Answer(c) \/ Refuse(c)

Next == (\E q \in Requests : Ask(q) \/ Open(q)) \/ (\E c \in calls : End(c))

\* Every request ends, answered or timed out; nobody has to navigate.
Spec == Init /\ [][Next]_vars /\ WF_vars(\E c \in calls : c.live /\ End(c))

-----------------------------------------------------------------------------
TypeOK ==
  /\ asked \in Requests
  /\ calls \subseteq [of : Requests, live : BOOLEAN]
  /\ loading \in BOOLEAN
  /\ failed \in BOOLEAN
  /\ rowsOf \in Requests \cup {NoRequest}

\* The skeleton is shown exactly while the request of the current address is
\* under way: it cannot outlive it (an endless spinner) nor vanish before it
\* (old rows under a new address).
SkeletonIffLive ==
  /\ loading <=> \E c \in calls : c.live
  /\ \A c \in calls : c.live => c.of = asked

\* Once the skeleton is gone the rows are those of the current address, or
\* the failure of that very request is reported, whatever the order in which
\* the answers of earlier addresses came in.
ShownIsAsked ==
  ~loading => IF failed THEN rowsOf = NoRequest ELSE rowsOf = asked

\* What is on the screen, in the terms of PageView.
Seen == IF loading THEN Pending
        ELSE IF failed THEN [of |-> asked, ok |-> FALSE]
        ELSE [of |-> rowsOf, ok |-> TRUE]

View == INSTANCE PageView WITH seen <- Seen, Nothing <- NoRequest

\* The page as loaded keeps the promise of PageView.
KeepsPromise == View!Spec
=============================================================================
