----------------------------- MODULE TaskQueue -----------------------------
(***************************************************************************)
(* The in-process task queue of `kbcli serve` (kbcli/task_queue.go): HTTP  *)
(* handlers, the cron scheduler and the init command call Submit and       *)
(* Cancel from their own goroutines, a fixed pool of workers receives task *)
(* ids from a bounded channel and runs the callbacks, and Stop shuts the   *)
(* pool down.                                                              *)
(*                                                                         *)
(* A step is one critical section (q.mu or task.mu), one channel           *)
(* operation, or one choice of a select statement merged with the critical *)
(* section that follows it where nothing can tell the two apart.           *)
(***************************************************************************)
EXTENDS Naturals, Sequences, FiniteSets

CONSTANTS Tasks,     \* ids of the Submit calls that may be made
          Workers,   \* worker goroutines of NewTaskQueue
          Cap,       \* capacity of taskCh (100 in the code)
          NoTask     \* job[w] while worker w holds no id

ASSUME CapAssumption == Cap \in Nat \ {0}
ASSUME NoTaskAssumption == NoTask \notin Tasks

VARIABLES
  status,   \* status[t]: AsyncTask.Status; "absent" while t is not in q.tasks
  stamps,   \* stamps[t]: how often task.CompletedAt has been written
  ctxDone,  \* the tasks whose own cancelFunc has been called
  fn,       \* fn[t]: the goroutine that runs task.fn
  submit,   \* submit[t]: program counter of the Submit call that creates t
  taskCh,   \* the ids buffered in q.taskCh
  wpc, job, \* wpc[w], job[w]: program counter and current id of worker w
  stop      \* program counter of the one Stop call

taskVars   == <<status, stamps, ctxDone>>
workerVars == <<wpc, job>>
vars == <<status, stamps, ctxDone, fn, submit, taskCh, wpc, job, stop>>

Terminal  == {"completed", "failed", "cancelled"}
Statuses  == {"absent", "pending", "running"} \cup Terminal
Returned  == {"ok", "err"}
FnStates  == {"none", "running"} \cup Returned
SubmitPcs == {"idle", "sending", "refused", "accepted", "rejected"}
WorkerPcs == {"idle", "fetched", "waiting", "draining", "exited"}
StopPcs   == {"no", "cancelled", "closed", "returned"}

QueueDone   == stop # "no"                       \* <-q.ctx.Done()
ChanClosed  == stop \in {"closed", "returned"}   \* close(q.taskCh) has run
\* task.ctx is a child of q.ctx.
TaskDone(t) == t \in ctxDone \/ QueueDone

Init == /\ status  = [t \in Tasks |-> "absent"]
        /\ stamps  = [t \in Tasks |-> 0]
        /\ ctxDone = {}
        /\ fn      = [t \in Tasks |-> "none"]
        /\ submit  = [t \in Tasks |-> "idle"]
        /\ taskCh  = <<>>
        /\ wpc     = [w \in Workers |-> "idle"]
        /\ job     = [w \in Workers |-> NoTask]
        /\ stop    = "no"

\* task.Status = s together with task.CompletedAt = &now.
Finalise(t, s) == /\ status' = [status EXCEPT ![t] = s]
                  /\ stamps' = [stamps EXCEPT ![t] = @ + 1]

-----------------------------------------------------------------------------
(* Submit: register, then either send the id or give up.                   *)

Register(t) ==
  /\ submit[t] = "idle"
  /\ submit' = [submit EXCEPT ![t] = "sending"]
  /\ status' = [status EXCEPT ![t] = "pending"]
  /\ UNCHANGED <<stamps, ctxDone, fn, taskCh, workerVars, stop>>

\* Faulty variants of Enqueue, never part of Next: a channel without a limit, a
\* send that drops the id when the channel is full, a retry after a send.
EnqueueUnbounded(t) ==
  /\ submit[t] = "sending"
  /\ ~ChanClosed
  /\ taskCh' = Append(taskCh, t)
  /\ submit' = [submit EXCEPT ![t] = "accepted"]
  /\ UNCHANGED <<taskVars, fn, workerVars, stop>>

EnqueueOrDrop(t) ==
  /\ submit[t] = "sending"
  /\ ~ChanClosed
  /\ taskCh' = IF Len(taskCh) < Cap THEN Append(taskCh, t) ELSE taskCh
  /\ submit' = [submit EXCEPT ![t] = "accepted"]
  /\ UNCHANGED <<taskVars, fn, workerVars, stop>>

EnqueueTwice(t) ==
  /\ submit[t] = "sending"
  /\ ~ChanClosed
  /\ Len(taskCh) < Cap
  /\ taskCh' = Append(taskCh, t)
  /\ UNCHANGED <<taskVars, fn, submit, workerVars, stop>>

\* The send case of the select. It may be chosen although the task's context
\* is done, and it blocks while the channel is full.
Enqueue(t) ==
  /\ submit[t] = "sending"
  /\ ~ChanClosed
  /\ Len(taskCh) < Cap
  /\ taskCh' = Append(taskCh, t)
  /\ submit' = [submit EXCEPT ![t] = "accepted"]
  /\ UNCHANGED <<taskVars, fn, workerVars, stop>>

\* Faulty variants of GiveUp: the context is also tested after the send; the
\* task's context is not a child of the queue's and the panic is not recovered.
GiveUpAfterSend(t) ==
  /\ submit[t] \in {"sending", "accepted"}
  /\ TaskDone(t) \/ ChanClosed
  /\ submit' = [submit EXCEPT ![t] = "refused"]
  /\ UNCHANGED <<taskVars, fn, taskCh, workerVars, stop>>

GiveUpOwnContext(t) ==
  /\ submit[t] = "sending"
  /\ t \in ctxDone
  /\ submit' = [submit EXCEPT ![t] = "refused"]
  /\ UNCHANGED <<taskVars, fn, taskCh, workerVars, stop>>

\* The other ways out of the select: the context is done, or the send panics
\* because the channel was closed.
GiveUp(t) ==
  /\ submit[t] = "sending"
  /\ TaskDone(t) \/ ChanClosed
  /\ submit' = [submit EXCEPT ![t] = "refused"]
  /\ UNCHANGED <<taskVars, fn, taskCh, workerVars, stop>>

\* Both ways lead to the same critical section.
Refuse(t) ==
  /\ submit[t] = "refused"
  /\ Finalise(t, "cancelled")
  /\ submit' = [submit EXCEPT ![t] = "rejected"]
  /\ UNCHANGED <<ctxDone, fn, taskCh, workerVars, stop>>

-----------------------------------------------------------------------------
(* Cancel: holds q.mu and task.mu throughout. A task that is unknown or    *)
(* terminal is left as it is.                                              *)

\* Faulty variant: a finished task is cancelled all the same.
CancelFinished(t) ==
  /\ status[t] # "absent"
  /\ ctxDone' = ctxDone \cup {t}
  /\ Finalise(t, "cancelled")
  /\ UNCHANGED <<fn, submit, taskCh, workerVars, stop>>

Cancel(t) ==
  /\ status[t] \in {"pending", "running"}
  /\ ctxDone' = ctxDone \cup {t}
  /\ Finalise(t, "cancelled")
  /\ UNCHANGED <<fn, submit, taskCh, workerVars, stop>>

-----------------------------------------------------------------------------
(* worker and runTask.                                                     *)

Step(w, from, to) == /\ wpc[w] = from
                     /\ wpc' = [wpc EXCEPT ![w] = to]

Release(w) == job' = [job EXCEPT ![w] = NoTask]

\* The select of worker takes the Done case, or finds the channel closed and
\* drained.
Exit(w) ==
  /\ Step(w, "idle", "exited")
  /\ QueueDone \/ (ChanClosed /\ taskCh = <<>>)
  /\ UNCHANGED <<taskVars, fn, submit, taskCh, job, stop>>

\* The receive case; a closed channel still delivers what is buffered.
Receive(w) ==
  /\ Step(w, "idle", "fetched")
  /\ taskCh # <<>>
  /\ job' = [job EXCEPT ![w] = Head(taskCh)]
  /\ taskCh' = Tail(taskCh)
  /\ UNCHANGED <<taskVars, fn, submit, stop>>

\* runTask returns at once for a task that is no longer pending.
Skip(w) ==
  /\ Step(w, "fetched", "idle")
  /\ status[job[w]] # "pending"
  /\ Release(w)
  /\ UNCHANGED <<taskVars, fn, submit, taskCh, stop>>

\* runTask marks the task running and spawns the goroutine of its callback.
Start(w) ==
  /\ Step(w, "fetched", "waiting")
  /\ status[job[w]] = "pending"
  /\ status' = [status EXCEPT ![job[w]] = "running"]
  /\ fn' = [fn EXCEPT ![job[w]] = "running"]
  /\ UNCHANGED <<stamps, ctxDone, submit, taskCh, job, stop>>

\* The callback takes no context: neither Cancel nor Stop is visible to it.
FnReturn(t) ==
  /\ fn[t] = "running"
  /\ \E r \in Returned : fn' = [fn EXCEPT ![t] = r]
  /\ UNCHANGED <<taskVars, submit, taskCh, workerVars, stop>>

\* The <-done case. Only a task that is still running gets the outcome.
Finish(w) ==
  /\ Step(w, "waiting", "idle")
  /\ fn[job[w]] \in Returned
  /\ IF status[job[w]] = "running"
     THEN Finalise(job[w], IF fn[job[w]] = "err" THEN "failed" ELSE "completed")
     ELSE UNCHANGED <<status, stamps>>
  /\ Release(w)
  /\ UNCHANGED <<ctxDone, fn, submit, taskCh, stop>>

\* Faulty variant: the worker does not wait for the callback it abandons.
ObserveDoneNoWait(w) ==
  /\ Step(w, "waiting", "idle")
  /\ TaskDone(job[w])
  /\ Finalise(job[w], "cancelled")
  /\ Release(w)
  /\ UNCHANGED <<ctxDone, fn, submit, taskCh, stop>>

\* The <-taskCtx.Done() case: the status is overwritten without a test, then
\* the worker waits for the callback.
ObserveDone(w) ==
  /\ Step(w, "waiting", "draining")
  /\ TaskDone(job[w])
  /\ Finalise(job[w], "cancelled")
  /\ UNCHANGED <<ctxDone, fn, submit, taskCh, job, stop>>

Drain(w) ==
  /\ Step(w, "draining", "idle")
  /\ fn[job[w]] \in Returned
  /\ Release(w)
  /\ UNCHANGED <<taskVars, fn, submit, taskCh, stop>>

-----------------------------------------------------------------------------
(* Stop, called once when serveCmd returns.                                *)

StopCancel == /\ stop = "no"
              /\ stop' = "cancelled"
              /\ UNCHANGED <<taskVars, fn, submit, taskCh, workerVars>>

StopClose  == /\ stop = "cancelled"
              /\ stop' = "closed"
              /\ UNCHANGED <<taskVars, fn, submit, taskCh, workerVars>>

\* Faulty variant: no wg.Wait.
StopReturnNoWait == /\ stop = "closed"
                    /\ stop' = "returned"
                    /\ UNCHANGED <<taskVars, fn, submit, taskCh, workerVars>>

StopReturn == /\ stop = "closed"
              /\ \A w \in Workers : wpc[w] = "exited"
              /\ stop' = "returned"
              /\ UNCHANGED <<taskVars, fn, submit, taskCh, workerVars>>

-----------------------------------------------------------------------------
SubmitStep(t) == Enqueue(t) \/ GiveUp(t) \/ Refuse(t)

WorkerStep(w) == \/ Exit(w) \/ Receive(w) \/ Skip(w) \/ Start(w)
                 \/ Finish(w) \/ ObserveDone(w) \/ Drain(w)

Next == \/ \E t \in Tasks : Register(t) \/ SubmitStep(t) \/ Cancel(t) \/ FnReturn(t)
        \/ \E w \in Workers : WorkerStep(w)
        \/ StopCancel \/ StopClose \/ StopReturn

Spec == Init /\ [][Next]_vars

\* Goroutines that can run do run, callbacks return, and a Stop that has begun
\* continues. Nobody is obliged to call Submit, Cancel or Stop.
Fairness == /\ \A t \in Tasks : WF_vars(SubmitStep(t)) /\ WF_vars(FnReturn(t))
            /\ \A w \in Workers : WF_vars(WorkerStep(w))
            /\ WF_vars(StopClose) /\ WF_vars(StopReturn)

FairSpec == Spec /\ Fairness

-----------------------------------------------------------------------------
TypeOK == /\ status \in [Tasks -> Statuses]
          /\ stamps \in [Tasks -> Nat]
          /\ ctxDone \subseteq Tasks
          /\ fn \in [Tasks -> FnStates]
          /\ submit \in [Tasks -> SubmitPcs]
          /\ taskCh \in Seq(Tasks)
          /\ Len(taskCh) <= Cap
          /\ wpc \in [Workers -> WorkerPcs]
          /\ job \in [Workers -> Tasks \cup {NoTask}]
          /\ stop \in StopPcs

\* The outcome a client reads is what the callback returned: `completed` only
\* after nil, `failed` only after an error, and a task that has not been
\* claimed has no callback running (runTask, Finish).
OutcomeIsHonest ==
  \A t \in Tasks : /\ status[t] = "completed" => fn[t] = "ok"
                   /\ status[t] = "failed" => fn[t] = "err"
                   /\ status[t] = "pending" => fn[t] = "none"

\* A task whose Submit gave up never reaches a worker: the caller that was
\* told `cancelled` by Submit is told the truth (task_queue.go, the select
\* and the recover of Submit).
RefusedNeverRuns ==
  \A t \in Tasks : submit[t] \in {"refused", "rejected"} =>
    /\ fn[t] = "none"
    /\ \A i \in 1..Len(taskCh) : taskCh[i] # t

\* A pending task is never forgotten: its Submit call is still about to send
\* it or to refuse it, or its id is in the channel or in a worker's hands.
PendingIsHeld ==
  \A t \in Tasks : status[t] = "pending" =>
    \/ submit[t] \in {"sending", "refused"}
    \/ \E i \in 1..Len(taskCh) : taskCh[i] = t
    \/ \E w \in Workers : wpc[w] = "fetched" /\ job[w] = t

\* The pool is the only limit on concurrent pipeline runs, and it is one: a
\* callback that is running occupies a worker of its own until it returns,
\* also after its task was cancelled (the `<-done` of the Done case).
RunningHoldsWorker ==
  \A t \in Tasks : fn[t] = "running" =>
    \E w \in Workers : wpc[w] \in {"waiting", "draining"} /\ job[w] = t

\* No id is held twice: once in the channel, or by one worker.
HeldOnce ==
  /\ \A i, j \in 1..Len(taskCh) : taskCh[i] = taskCh[j] => i = j
  /\ \A v, w \in Workers : job[v] = job[w] /\ job[v] # NoTask => v = w
  /\ \A w \in Workers, i \in 1..Len(taskCh) : job[w] # taskCh[i]

\* No accepted id is lost between Submit, the channel and the workers or held twice,
\* although the send races a cancellation, a Stop and the close of the channel.
IdsConserved == PendingIsHeld /\ HeldOnce

\* Once Stop has returned no callback is running, so the process may exit
\* without cutting a pipeline short.
StoppedIsQuiet ==
  stop = "returned" => \A t \in Tasks : fn[t] # "running"

\* completed_at is present exactly on the finished tasks, and it is written a
\* second time only on cancelled ones (Cancel and then the Done case or the
\* refused Submit).
StampedWhenFinished ==
  \A t \in Tasks : /\ stamps[t] > 0 <=> status[t] \in Terminal
                   /\ stamps[t] <= 2
                   /\ stamps[t] = 2 => status[t] = "cancelled"

\* A terminal status is final, although the Done case of runTask writes it
\* without looking at the present one.
TerminalIsFinal ==
  [][\A t \in Tasks : status[t] \in Terminal => status'[t] = status[t]]_vars

\* A task cancelled before a worker claimed it never runs, wherever its id is
\* at that moment: not yet sent, in the channel, or already received.
CancelledNeverStarts ==
  [][\A t \in Tasks : status[t] = "cancelled" /\ fn[t] = "none" => fn'[t] = "none"]_vars

\* Every accepted task ends, unless the queue is stopped: no id is lost, and a
\* full channel only delays.
EveryTaskEnds ==
  \A t \in Tasks : status[t] = "pending" ~> (status[t] \in Terminal \/ QueueDone)

\* No call hangs. Stop returns: every worker leaves its loop although ids may
\* remain in the channel and callbacks ignore the cancellation. Submit returns,
\* on a full channel and on a stopped queue.
CallsReturn ==
  /\ QueueDone ~> stop = "returned"
  /\ \A t \in Tasks : submit[t] = "sending" ~> submit[t] \in {"accepted", "rejected"}

-----------------------------------------------------------------------------
\* The queue keeps the promise of TaskLifecycle.
Lifecycle == INSTANCE TaskLifecycle WITH Tasks <- Tasks, status <- status, fn <- fn
LifecycleSpec == Lifecycle!Spec
=============================================================================
