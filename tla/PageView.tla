------------------------------ MODULE PageView ------------------------------
(***************************************************************************)
(* What a page of the dashboard that loads its content from the address    *)
(* bar promises: once the user stops navigating it shows the answer to the *)
(* request the address stands for, or that this request failed - never the *)
(* answer to a request the user has left. An address may also stand for    *)
(* nothing, as when no department is chosen. The one thing that may take   *)
(* the place of a failure is a message about something else the user does. *)
(***************************************************************************)
CONSTANTS Requests, Nothing, Pending

VARIABLES
  asked,   \* the request the address stands for, or Nothing
  seen     \* Nothing, Pending, or the answered request and whether it succeeded

Answers(q) == {[of |-> q, ok |-> b] : b \in BOOLEAN}

AtFirst(q) == IF q = Nothing THEN Nothing ELSE Pending

Init == asked \in Requests \cup {Nothing} /\ seen = AtFirst(asked)

\* The address changes, or is loaded again: what was on the screen is no longer
\* the answer.
Go == asked' \in Requests \cup {Nothing} /\ seen' = AtFirst(asked')

Settle == seen = Pending /\ seen' \in Answers(asked) /\ asked' = asked

\* The failure is no longer told, and there is no answer.
Cover == seen = [of |-> asked, ok |-> FALSE] /\ seen' = [of |-> Nothing, ok |-> FALSE] /\ asked' = asked

Next == Go \/ Settle \/ Cover

Spec == Init /\ [][Next]_<<asked, seen>> /\ WF_<<asked, seen>>(Settle)
=============================================================================
