--------------------------- MODULE TaskLifecycle ---------------------------
(***************************************************************************)
(* What the asynchronous task API of `kbcli serve` promises about a task,  *)
(* with no queue, no worker and no lock: a task is accepted once, its      *)
(* function is started at most once and only from `pending`, the reported  *)
(* outcome is the outcome of the function, and a cancellation only changes *)
(* what is reported -- it never stops a function that has been started.    *)
(* TaskQueue is shown to implement this module.                            *)
(***************************************************************************)

CONSTANT Tasks        \* the ids generateTaskID can return

VARIABLES status,     \* status[t]: AsyncTask.Status, "absent" before Submit
          fn          \* fn[t]: how far the task's callback has come

vars == <<status, fn>>

Terminal == {"completed", "failed", "cancelled"}
Statuses == {"absent", "pending", "running"} \cup Terminal
Returned == {"ok", "err"}
FnStates == {"none", "running"} \cup Returned

TypeOK == /\ status \in [Tasks -> Statuses]
          /\ fn \in [Tasks -> FnStates]

Init == /\ status = [t \in Tasks |-> "absent"]
        /\ fn = [t \in Tasks |-> "none"]

\* Submit makes the task visible to Get, List and Cancel.
Accept(t) == /\ status[t] = "absent"
             /\ status' = [status EXCEPT ![t] = "pending"]
             /\ UNCHANGED fn

\* A worker claims the task and starts its callback.
Begin(t) == /\ status[t] = "pending"
            /\ fn[t] = "none"
            /\ status' = [status EXCEPT ![t] = "running"]
            /\ fn' = [fn EXCEPT ![t] = "running"]

\* The callback returns nil or an error, whatever the task's status is by now.
Return(t) == /\ fn[t] = "running"
             /\ \E r \in Returned : fn' = [fn EXCEPT ![t] = r]
             /\ UNCHANGED status

\* What the callback returned becomes the outcome of the task.
Settle(t) == /\ status[t] = "running"
             /\ fn[t] \in Returned
             /\ status' = [status EXCEPT ![t] = IF fn[t] = "ok" THEN "completed"
                                                               ELSE "failed"]
             /\ UNCHANGED fn

\* A cancellation, by a client or because the queue is being stopped.
Abort(t) == /\ status[t] \in {"pending", "running"}
            /\ status' = [status EXCEPT ![t] = "cancelled"]
            /\ UNCHANGED fn

Next == \E t \in Tasks : \/ Accept(t) \/ Begin(t) \/ Return(t)
                         \/ Settle(t) \/ Abort(t)

Spec == Init /\ [][Next]_vars
=============================================================================
