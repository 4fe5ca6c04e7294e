-------------------------- MODULE TaskQueueProofs --------------------------
(***************************************************************************)
(* Machine-checked theorems about TaskQueue, for every set of tasks and    *)
(* workers and every channel capacity.                                     *)
(***************************************************************************)
EXTENDS TaskQueue, TLAPS

InChan(t) == \E i \in 1..Len(taskCh) : taskCh[i] = t

(***************************************************************************)
(* The inductive invariant follows one id through the places it can be in: *)
(* its Submit call, the channel, a worker. Every place says what the       *)
(* status and the callback of the task can be.                             *)
(***************************************************************************)
InSubmit ==
  \A t \in Tasks :
    /\ submit[t] = "idle" <=> status[t] = "absent"
    /\ submit[t] # "accepted" => fn[t] = "none" /\ ~InChan(t)
    /\ submit[t] \in {"sending", "refused"} => status[t] \in {"pending", "cancelled"}
    /\ submit[t] = "rejected" => status[t] = "cancelled"

InChannel ==
  \A i \in 1..Len(taskCh) :
    /\ fn[taskCh[i]] = "none"
    /\ status[taskCh[i]] \in {"pending", "cancelled"}

InWorker ==
  \A w \in Workers :
    /\ wpc[w] \in {"idle", "exited"} <=> job[w] = NoTask
    /\ job[w] # NoTask => submit[job[w]] = "accepted"
    /\ wpc[w] = "fetched" => /\ fn[job[w]] = "none"
                             /\ status[job[w]] \in {"pending", "cancelled"}
    /\ wpc[w] = "waiting" => /\ fn[job[w]] # "none"
                             /\ status[job[w]] \in {"running", "cancelled"}
    /\ wpc[w] = "draining" => /\ fn[job[w]] # "none"
                              /\ status[job[w]] = "cancelled"

ByStatus ==
  \A t \in Tasks :
    /\ status[t] = "absent" => fn[t] = "none"
    /\ status[t] = "running" => \E w \in Workers : wpc[w] = "waiting" /\ job[w] = t

\* CompletedAt is written once by whoever ends the task; a second write can
\* only come from the Submit call or the worker that still holds the task.
StampInv ==
  /\ \A t \in Tasks : submit[t] \in {"sending", "refused"} => stamps[t] <= 1
  /\ \A i \in 1..Len(taskCh) : stamps[taskCh[i]] <= 1
  /\ \A w \in Workers : wpc[w] \in {"fetched", "waiting"} => stamps[job[w]] <= 1

StopInv == stop = "returned" => \A w \in Workers : wpc[w] = "exited"

Inv == /\ TypeOK /\ HeldOnce
       /\ InSubmit /\ InChannel /\ InWorker /\ ByStatus /\ StampInv /\ StopInv
       /\ StampedWhenFinished /\ OutcomeIsHonest /\ PendingIsHeld /\ RunningHoldsWorker

-----------------------------------------------------------------------------
\* Sending at the tail of the channel keeps what is buffered in place.
LEMMA AppendFacts ==
  ASSUME NEW s \in Seq(Tasks), NEW t \in Tasks
  PROVE  /\ Append(s, t) \in Seq(Tasks)
         /\ Len(Append(s, t)) = Len(s) + 1
         /\ Len(s) \in Nat
         /\ \A i \in 1..Len(s) : Append(s, t)[i] = s[i]
         /\ Append(s, t)[Len(s) + 1] = t
BY SMT

\* Receiving takes the oldest id and moves every other one up by one.
LEMMA TailFacts ==
  ASSUME NEW s \in Seq(Tasks), s # <<>>
  PROVE  /\ Head(s) \in Tasks
         /\ Head(s) = s[1]
         /\ Len(s) \in Nat \ {0}
         /\ Tail(s) \in Seq(Tasks)
         /\ Len(Tail(s)) = Len(s) - 1
         /\ \A i \in 1..Len(Tail(s)) : Tail(s)[i] = s[i + 1]
BY SMT
USE NoTaskAssumption, CapAssumption
    DEF Statuses, Terminal, FnStates, Returned, SubmitPcs, WorkerPcs, StopPcs,
        Step, Release, Finalise, taskVars, workerVars

-----------------------------------------------------------------------------
\* Every action preserves the invariant.

\* A new task is in the hands of its Submit call and nowhere else.
LEMMA RegisterInv == ASSUME Inv, NEW t \in Tasks, Register(t) PROVE Inv'
<1>1. TypeOK'
  BY DEF Inv, TypeOK, Register
<1>2. InSubmit'
  BY DEF Inv, Register, InSubmit, TypeOK, InChan, InChannel, InWorker
<1>3. InChannel'
  BY DEF Inv, Register, InChannel, TypeOK, InSubmit, InChan
<1>4. InWorker'
  BY DEF Inv, Register, InWorker, TypeOK, InSubmit
<1>5. ByStatus'
  BY DEF Inv, Register, ByStatus, TypeOK, InSubmit
<1>6. StampInv'
  BY DEF Inv, Register, StampInv, TypeOK, StampedWhenFinished, InSubmit, InWorker
<1>7. StampedWhenFinished'
  BY DEF Inv, Register, StampedWhenFinished, TypeOK, InSubmit
<1>8. OutcomeIsHonest'
  BY DEF Inv, Register, OutcomeIsHonest, TypeOK, InSubmit, InWorker
<1>9. PendingIsHeld'
  BY DEF Inv, Register, PendingIsHeld, TypeOK
<1>10. HeldOnce' /\ StopInv' /\ RunningHoldsWorker'
  BY DEF Inv, Register, HeldOnce, StopInv, RunningHoldsWorker
<1> QED
  BY <1>1, <1>2, <1>3, <1>4, <1>5, <1>6, <1>7, <1>8, <1>9, <1>10 DEF Inv

\* The id moves from the Submit call to the tail of the channel.
LEMMA EnqueueInv == ASSUME Inv, NEW t \in Tasks, Enqueue(t) PROVE Inv'
<1>1. /\ ~InChan(t)
      /\ \A w \in Workers : job[w] # t
  BY DEF Inv, Enqueue, InSubmit, InWorker, TypeOK
<1>2. /\ taskCh' \in Seq(Tasks)
      /\ Len(taskCh') = Len(taskCh) + 1
      /\ \A i \in 1..Len(taskCh) : i \in 1..Len(taskCh') /\ taskCh'[i] = taskCh[i]
      /\ \A i \in 1..Len(taskCh') : i \in 1..Len(taskCh) \/ i = Len(taskCh) + 1
      /\ taskCh'[Len(taskCh) + 1] = t
  BY AppendFacts DEF Inv, Enqueue, TypeOK
<1>3. TypeOK'
  BY <1>1, <1>2 DEF Inv, TypeOK, Enqueue
<1>4. HeldOnce'
  <2>1. \A i \in 1..Len(taskCh) : taskCh[i] # t
    BY <1>1 DEF InChan
  <2>2. ASSUME NEW i \in 1..Len(taskCh'), NEW j \in 1..Len(taskCh'), taskCh'[i] = taskCh'[j]
        PROVE  i = j
    BY <1>2, <2>1, <2>2 DEF Inv, HeldOnce
  <2>3. ASSUME NEW w \in Workers, NEW i \in 1..Len(taskCh') PROVE job[w] # taskCh'[i]
    BY <1>1, <1>2 DEF Inv, HeldOnce
  <2> QED
    BY <2>2, <2>3 DEF Inv, HeldOnce, Enqueue, workerVars
<1>5. InSubmit'
  BY <1>1, <1>2 DEF Inv, Enqueue, InSubmit, TypeOK, InChan, InChannel, InWorker
<1>6. InChannel'
  BY <1>1, <1>2 DEF Inv, Enqueue, InChannel, TypeOK, InSubmit, InChan
<1>7. InWorker'
  BY <1>1, <1>2 DEF Inv, Enqueue, InWorker, TypeOK, InSubmit
<1>8. StampInv'
  BY <1>1, <1>2 DEF Inv, Enqueue, StampInv, TypeOK, StampedWhenFinished, InSubmit, InWorker
<1>9. PendingIsHeld'
  BY <1>1, <1>2 DEF Inv, Enqueue, PendingIsHeld, TypeOK
<1>10. /\ ByStatus' /\ StampedWhenFinished' /\ StopInv' /\ OutcomeIsHonest'
       /\ RunningHoldsWorker'
  BY DEF Inv, Enqueue, ByStatus, StampedWhenFinished, StopInv, OutcomeIsHonest,
         RunningHoldsWorker
<1> QED
  BY <1>3, <1>4, <1>5, <1>6, <1>7, <1>8, <1>9, <1>10 DEF Inv

\* A Submit call that stops waiting still holds its task.
LEMMA GiveUpInv == ASSUME Inv, NEW t \in Tasks, GiveUp(t) PROVE Inv'
<1>1. TypeOK'
  BY DEF Inv, TypeOK, GiveUp
<1>2. InSubmit'
  BY DEF Inv, GiveUp, InSubmit, TypeOK, InChan, InChannel, InWorker
<1>3. InWorker'
  BY DEF Inv, GiveUp, InWorker, TypeOK, InSubmit
<1>4. StampInv'
  BY DEF Inv, GiveUp, StampInv, TypeOK, StampedWhenFinished, InSubmit, InWorker
<1>5. PendingIsHeld'
  BY DEF Inv, GiveUp, PendingIsHeld, TypeOK
<1>6. /\ HeldOnce' /\ InChannel' /\ ByStatus' /\ StampedWhenFinished'
      /\ StopInv' /\ OutcomeIsHonest' /\ RunningHoldsWorker'
  BY DEF Inv, GiveUp, HeldOnce, InChannel, ByStatus, StampedWhenFinished, StopInv,
         OutcomeIsHonest, RunningHoldsWorker
<1> QED
  BY <1>1, <1>2, <1>3, <1>4, <1>5, <1>6 DEF Inv

\* The refused task is in no channel and with no worker when it is stamped.
LEMMA RefuseInv == ASSUME Inv, NEW t \in Tasks, Refuse(t) PROVE Inv'
<1>1. TypeOK'
  BY DEF Inv, TypeOK, Refuse
<1>2. InSubmit'
  BY DEF Inv, Refuse, InSubmit, TypeOK, InChan, InChannel, InWorker
<1>3. InChannel'
  BY DEF Inv, Refuse, InChannel, TypeOK, InSubmit, InChan
<1>4. InWorker'
  BY DEF Inv, Refuse, InWorker, TypeOK, InSubmit
<1>5. ByStatus'
  BY DEF Inv, Refuse, ByStatus, TypeOK, InSubmit
<1>6. StampInv'
  <2>1. /\ \A i \in 1..Len(taskCh) : taskCh[i] \in Tasks /\ taskCh[i] # t
        /\ \A w \in Workers : wpc[w] \in {"fetched", "waiting"} => job[w] \in Tasks /\ job[w] # t
    <3>1. submit[t] # "accepted" /\ ~InChan(t)
      BY DEF Inv, InSubmit, Refuse
    <3>2. \A i \in 1..Len(taskCh) : taskCh[i] \in Tasks /\ taskCh[i] # t
      BY <3>1 DEF Inv, TypeOK, InChan
    <3>3. \A w \in Workers : wpc[w] \in {"fetched", "waiting"} => job[w] \in Tasks /\ job[w] # t
      BY <3>1 DEF Inv, TypeOK, InWorker
    <3> QED
      BY <3>2, <3>3
  <2>2. /\ submit' = [submit EXCEPT ![t] = "rejected"]
        /\ \A u \in Tasks : u # t => stamps'[u] = stamps[u]
    BY DEF Inv, TypeOK, Refuse
  <2>3. \A u \in Tasks : submit'[u] \in {"sending", "refused"} => stamps'[u] <= 1
    BY <2>2 DEF Inv, TypeOK, StampInv
  <2> QED
    BY <2>1, <2>2, <2>3 DEF Inv, StampInv, Refuse
<1>7. StampedWhenFinished'
  BY DEF Inv, Refuse, StampedWhenFinished, TypeOK, StampInv, InWorker
<1>8. OutcomeIsHonest'
  BY DEF Inv, Refuse, OutcomeIsHonest, TypeOK, InSubmit, InWorker
<1>9. PendingIsHeld'
  BY DEF Inv, Refuse, PendingIsHeld, TypeOK
<1>10. HeldOnce' /\ StopInv' /\ RunningHoldsWorker'
  BY DEF Inv, Refuse, HeldOnce, StopInv, RunningHoldsWorker
<1> QED
  BY <1>1, <1>2, <1>3, <1>4, <1>5, <1>6, <1>7, <1>8, <1>9, <1>10 DEF Inv

\* Cancelling an unfinished task stamps it for the first time.
LEMMA CancelInv == ASSUME Inv, NEW t \in Tasks, Cancel(t) PROVE Inv'
<1>1. TypeOK'
  BY DEF Inv, TypeOK, Cancel
<1>2. InSubmit'
  BY DEF Inv, Cancel, InSubmit, TypeOK, InChan, InChannel, InWorker
<1>3. InChannel'
  BY DEF Inv, Cancel, InChannel, TypeOK, InSubmit, InChan
<1>4. InWorker'
  BY DEF Inv, Cancel, InWorker, TypeOK, InSubmit
<1>5. ByStatus'
  BY DEF Inv, Cancel, ByStatus, TypeOK, InSubmit
<1>6. StampInv'
  <2>1. status[t] \notin Terminal /\ stamps[t] \in Nat
    BY DEF Inv, TypeOK, Cancel
  <2>2. stamps[t] = 0
    BY <2>1 DEF Inv, StampedWhenFinished
  <2>3. stamps' = [stamps EXCEPT ![t] = 1]
    BY <2>2 DEF Cancel
  <2> QED
    BY <2>3 DEF Inv, TypeOK, StampInv, InWorker, Cancel
<1>7. StampedWhenFinished'
  BY DEF Inv, Cancel, StampedWhenFinished, TypeOK, StampInv, InWorker
<1>8. OutcomeIsHonest'
  BY DEF Inv, Cancel, OutcomeIsHonest, TypeOK, InSubmit, InWorker
<1>9. PendingIsHeld'
  BY DEF Inv, Cancel, PendingIsHeld, TypeOK
<1>10. HeldOnce' /\ StopInv' /\ RunningHoldsWorker'
  BY DEF Inv, Cancel, HeldOnce, StopInv, RunningHoldsWorker
<1> QED
  BY <1>1, <1>2, <1>3, <1>4, <1>5, <1>6, <1>7, <1>8, <1>9, <1>10 DEF Inv

\* A callback that returns leaves its worker waiting or draining.
LEMMA FnReturnInv == ASSUME Inv, NEW t \in Tasks, FnReturn(t) PROVE Inv'
<1>1. TypeOK'
  BY DEF Inv, TypeOK, FnReturn
<1>2. InSubmit'
  BY DEF Inv, FnReturn, InSubmit, TypeOK, InChan, InChannel, InWorker
<1>3. InChannel'
  BY DEF Inv, FnReturn, InChannel, TypeOK, InSubmit, InChan
<1>4. InWorker'
  BY DEF Inv, FnReturn, InWorker, TypeOK, InSubmit
<1>5. ByStatus'
  BY DEF Inv, FnReturn, ByStatus, TypeOK, InSubmit
<1>6. OutcomeIsHonest'
  BY DEF Inv, FnReturn, OutcomeIsHonest, TypeOK, InSubmit, InWorker
<1>7. RunningHoldsWorker'
  BY DEF Inv, FnReturn, RunningHoldsWorker, TypeOK, InWorker
<1>8. HeldOnce' /\ StampInv' /\ StampedWhenFinished' /\ StopInv' /\ PendingIsHeld'
  BY DEF Inv, FnReturn, HeldOnce, StampInv, StampedWhenFinished, StopInv, PendingIsHeld
<1> QED
  BY <1>1, <1>2, <1>3, <1>4, <1>5, <1>6, <1>7, <1>8 DEF Inv

\* An exiting worker holds no id.
LEMMA ExitInv == ASSUME Inv, NEW w \in Workers, Exit(w) PROVE Inv'
<1>1. TypeOK'
  BY DEF Inv, TypeOK, Exit
<1>2. InWorker'
  BY DEF Inv, Exit, InWorker, TypeOK, InSubmit
<1>3. ByStatus'
  BY DEF Inv, Exit, ByStatus, TypeOK, InSubmit
<1>4. StampInv'
  BY DEF Inv, Exit, StampInv, TypeOK, StampedWhenFinished, InSubmit, InWorker
<1>5. StopInv'
  BY DEF Inv, Exit, StopInv, TypeOK
<1>6. PendingIsHeld'
  BY DEF Inv, Exit, PendingIsHeld, TypeOK
<1>7. RunningHoldsWorker'
  BY DEF Inv, Exit, RunningHoldsWorker, TypeOK, InWorker
<1>8. HeldOnce' /\ InSubmit' /\ InChannel' /\ StampedWhenFinished' /\ OutcomeIsHonest'
  BY DEF Inv, Exit, HeldOnce, InSubmit, InChannel, StampedWhenFinished, OutcomeIsHonest,
         InChan
<1> QED
  BY <1>1, <1>2, <1>3, <1>4, <1>5, <1>6, <1>7, <1>8 DEF Inv

\* The head of the channel moves into the hands of an idle worker.
LEMMA ReceiveInv == ASSUME Inv, NEW w \in Workers, Receive(w) PROVE Inv'
<1>1. /\ Len(taskCh) \in Nat \ {0}
      /\ job' = [job EXCEPT ![w] = taskCh[1]]
      /\ taskCh[1] \in Tasks
      /\ 1 \in 1..Len(taskCh)
  BY TailFacts DEF Inv, Receive, TypeOK
<1>2. /\ taskCh' \in Seq(Tasks)
      /\ Len(taskCh') = Len(taskCh) - 1
      /\ \A i \in 1..Len(taskCh') : /\ i + 1 \in 1..Len(taskCh)
                                    /\ i + 1 # 1
                                    /\ taskCh'[i] = taskCh[i + 1]
      /\ \A i \in 1..Len(taskCh) : i # 1 => i - 1 \in 1..Len(taskCh') /\ taskCh'[i - 1] = taskCh[i]
  BY TailFacts DEF Inv, Receive, TypeOK
<1>3. TypeOK'
  BY <1>1, <1>2 DEF Inv, TypeOK, Receive
<1>4. HeldOnce'
  BY <1>1, <1>2 DEF Inv, Receive, HeldOnce, TypeOK
<1>5. InSubmit'
  BY <1>1, <1>2 DEF Inv, Receive, InSubmit, TypeOK, InChan, InChannel, InWorker
<1>6. InChannel'
  BY <1>1, <1>2 DEF Inv, Receive, InChannel, TypeOK, InSubmit, InChan
<1>7. InWorker'
  BY <1>1, <1>2 DEF Inv, Receive, InWorker, TypeOK, InChannel, HeldOnce, InSubmit, InChan
<1>8. ByStatus'
  BY <1>1, <1>2 DEF Inv, Receive, ByStatus, TypeOK, InSubmit
<1>9. StampInv'
  BY <1>1, <1>2 DEF Inv, TypeOK, StampInv, InWorker, Receive
<1>10. StopInv'
  BY <1>1, <1>2 DEF Inv, Receive, StopInv, TypeOK
<1>11. PendingIsHeld'
  <2> SUFFICES ASSUME NEW u \in Tasks, status[u] = "pending",
                      submit[u] \notin {"sending", "refused"}
               PROVE  InChan(u)' \/ \E v \in Workers : wpc'[v] = "fetched" /\ job'[v] = u
    BY DEF Receive, PendingIsHeld, InChan
  <2>1. CASE \E v \in Workers : wpc[v] = "fetched" /\ job[v] = u
    BY <1>1, <2>1 DEF Inv, TypeOK, Receive
  <2>2. CASE InChan(u)
    <3>1. PICK i \in 1..Len(taskCh) : taskCh[i] = u
      BY <2>2 DEF InChan
    <3>2. CASE i = 1
      BY <1>1, <3>1, <3>2 DEF Inv, TypeOK, Receive
    <3>3. CASE i # 1
      BY <1>2, <3>1, <3>3 DEF InChan
    <3> QED
      BY <3>2, <3>3
  <2> QED
    BY <2>1, <2>2 DEF Inv, PendingIsHeld, InChan
<1>12. RunningHoldsWorker'
  BY <1>1, <1>2 DEF Inv, Receive, RunningHoldsWorker, TypeOK, InWorker
<1>13. StampedWhenFinished' /\ OutcomeIsHonest'
  BY DEF Inv, Receive, StampedWhenFinished, OutcomeIsHonest
<1> QED
  BY <1>3, <1>4, <1>5, <1>6, <1>7, <1>8, <1>9, <1>10, <1>11, <1>12, <1>13 DEF Inv

\* A worker drops an id whose task was cancelled in the meantime.
LEMMA SkipInv == ASSUME Inv, NEW w \in Workers, Skip(w) PROVE Inv'
<1>1. /\ job[w] \in Tasks
      /\ \A v \in Workers : job[v] = job[w] => v = w
      /\ \A i \in 1..Len(taskCh) : taskCh[i] # job[w]
  BY DEF Inv, TypeOK, HeldOnce, InWorker, Skip
<1>2. TypeOK'
  BY <1>1 DEF Inv, TypeOK, Skip
<1>3. HeldOnce'
  BY <1>1 DEF Inv, Skip, HeldOnce, TypeOK
<1>4. InWorker'
  BY <1>1 DEF Inv, Skip, InWorker, TypeOK, InSubmit
<1>5. ByStatus'
  BY <1>1 DEF Inv, Skip, ByStatus, TypeOK, InSubmit
<1>6. StampInv'
  BY <1>1 DEF Inv, Skip, StampInv, TypeOK, StampedWhenFinished, InSubmit, InWorker
<1>7. StopInv'
  BY <1>1 DEF Inv, Skip, StopInv, TypeOK
<1>8. PendingIsHeld'
  BY <1>1 DEF Inv, Skip, PendingIsHeld, TypeOK
<1>9. RunningHoldsWorker'
  BY <1>1 DEF Inv, Skip, RunningHoldsWorker, TypeOK, InWorker
<1>10. InSubmit' /\ InChannel' /\ StampedWhenFinished' /\ OutcomeIsHonest'
  BY DEF Inv, Skip, InSubmit, InChannel, StampedWhenFinished, OutcomeIsHonest, InChan
<1> QED
  BY <1>2, <1>3, <1>4, <1>5, <1>6, <1>7, <1>8, <1>9, <1>10 DEF Inv

\* Only the worker that received the id can start its callback.
LEMMA StartInv == ASSUME Inv, NEW w \in Workers, Start(w) PROVE Inv'
<1>1. /\ job[w] \in Tasks
      /\ \A v \in Workers : job[v] = job[w] => v = w
      /\ \A i \in 1..Len(taskCh) : taskCh[i] # job[w]
  BY DEF Inv, TypeOK, HeldOnce, InWorker, Start
<1>2. TypeOK'
  BY <1>1 DEF Inv, TypeOK, Start
<1>3. InSubmit'
  BY <1>1 DEF Inv, Start, InSubmit, TypeOK, InChan, InChannel, InWorker
<1>4. InChannel'
  BY <1>1 DEF Inv, Start, InChannel, TypeOK, InSubmit, InChan
<1>5. InWorker'
  BY <1>1 DEF Inv, Start, InWorker, TypeOK, InSubmit
<1>6. ByStatus'
  BY <1>1 DEF Inv, Start, ByStatus, TypeOK, InSubmit
<1>7. StampInv'
  BY <1>1 DEF Inv, Start, StampInv, TypeOK, StampedWhenFinished, InSubmit, InWorker
<1>8. StampedWhenFinished'
  BY <1>1 DEF Inv, Start, StampedWhenFinished, TypeOK, StampInv, InWorker
<1>9. StopInv'
  BY <1>1 DEF Inv, Start, StopInv, TypeOK
<1>10. OutcomeIsHonest'
  BY <1>1 DEF Inv, Start, OutcomeIsHonest, TypeOK, InSubmit, InWorker
<1>11. PendingIsHeld'
  BY <1>1 DEF Inv, Start, PendingIsHeld, TypeOK
<1>12. RunningHoldsWorker'
  BY <1>1 DEF Inv, Start, RunningHoldsWorker, TypeOK, InWorker
<1>13. HeldOnce'
  BY DEF Inv, Start, HeldOnce
<1> QED
  BY <1>2, <1>3, <1>4, <1>5, <1>6, <1>7, <1>8, <1>9, <1>10, <1>11, <1>12, <1>13 DEF Inv

\* The outcome is written once, by the worker that waited for it.
LEMMA FinishInv == ASSUME Inv, NEW w \in Workers, Finish(w) PROVE Inv'
<1>1. /\ job[w] \in Tasks
      /\ \A v \in Workers : job[v] = job[w] => v = w
      /\ \A i \in 1..Len(taskCh) : taskCh[i] # job[w]
  BY DEF Inv, TypeOK, HeldOnce, InWorker, Finish
<1>2. TypeOK'
  <2>1. CASE status[job[w]] = "running"
    <3>1. PICK s \in Statuses : Finalise(job[w], s)
      BY <2>1 DEF Finish
    <3> QED
      BY <1>1, <3>1 DEF Inv, TypeOK, Finish
  <2>2. CASE status[job[w]] # "running"
    BY <1>1, <2>2 DEF Inv, TypeOK, Finish
  <2> QED
    BY <2>1, <2>2
<1>3. HeldOnce'
  BY <1>1 DEF Inv, Finish, HeldOnce, TypeOK
<1>4. InSubmit'
  BY <1>1 DEF Inv, Finish, InSubmit, TypeOK, InChan, InChannel, InWorker
<1>5. InChannel'
  BY <1>1 DEF Inv, Finish, InChannel, TypeOK, InSubmit, InChan
<1>6. InWorker'
  BY <1>1 DEF Inv, Finish, InWorker, TypeOK, InSubmit
<1>7. ByStatus'
  BY <1>1 DEF Inv, Finish, ByStatus, TypeOK, InSubmit
<1>8. StampInv'
  <2>1. \A t \in Tasks : t # job[w] => stamps'[t] = stamps[t]
    BY <1>1 DEF Inv, TypeOK, Finish
  <2>2. submit[job[w]] = "accepted"
    BY <1>1 DEF Inv, TypeOK, InWorker, Finish
  <2>3. \A t \in Tasks : submit'[t] \in {"sending", "refused"} => stamps'[t] <= 1
    BY <2>1, <2>2 DEF Inv, StampInv, Finish
  <2>4. \A i \in 1..Len(taskCh') : stamps'[taskCh'[i]] <= 1
    BY <1>1, <2>1 DEF Inv, TypeOK, StampInv, Finish
  <2>5. ASSUME NEW v \in Workers, wpc'[v] \in {"fetched", "waiting"}
        PROVE  stamps'[job'[v]] <= 1
    <3>1. v # w /\ wpc'[v] = wpc[v] /\ job'[v] = job[v]
      BY <2>5 DEF Inv, TypeOK, Finish
    <3>2. job[v] \in Tasks /\ job[v] # job[w]
      BY <1>1, <2>5, <3>1 DEF Inv, TypeOK, InWorker
    <3> QED
      BY <2>1, <2>5, <3>1, <3>2 DEF Inv, StampInv
  <2> QED
    BY <2>3, <2>4, <2>5 DEF StampInv
<1>9. StampedWhenFinished'
  BY <1>1 DEF Inv, Finish, StampedWhenFinished, TypeOK, StampInv, InWorker
<1>10. StopInv'
  BY <1>1 DEF Inv, Finish, StopInv, TypeOK
<1>11. OutcomeIsHonest'
  BY <1>1 DEF Inv, Finish, OutcomeIsHonest, TypeOK, InSubmit, InWorker
<1>12. PendingIsHeld'
  BY <1>1 DEF Inv, Finish, PendingIsHeld, TypeOK
<1>13. RunningHoldsWorker'
  BY <1>1 DEF Inv, Finish, RunningHoldsWorker, TypeOK, InWorker
<1> QED
  BY <1>2, <1>3, <1>4, <1>5, <1>6, <1>7, <1>8, <1>9, <1>10, <1>11, <1>12, <1>13 DEF Inv

\* The unguarded write of the Done case meets a running or cancelled task.
LEMMA ObserveDoneInv == ASSUME Inv, NEW w \in Workers, ObserveDone(w) PROVE Inv'
<1>1. /\ job[w] \in Tasks
      /\ \A v \in Workers : job[v] = job[w] => v = w
      /\ \A i \in 1..Len(taskCh) : taskCh[i] # job[w]
  BY DEF Inv, TypeOK, HeldOnce, InWorker, ObserveDone
<1>2. TypeOK'
  BY <1>1 DEF Inv, TypeOK, ObserveDone
<1>3. InSubmit'
  BY <1>1 DEF Inv, ObserveDone, InSubmit, TypeOK, InChan, InChannel, InWorker
<1>4. InChannel'
  BY <1>1 DEF Inv, ObserveDone, InChannel, TypeOK, InSubmit, InChan
<1>5. InWorker'
  BY <1>1 DEF Inv, ObserveDone, InWorker, TypeOK, InSubmit
<1>6. ByStatus'
  BY <1>1 DEF Inv, ObserveDone, ByStatus, TypeOK, InSubmit
<1>7. StampInv'
  BY <1>1 DEF Inv, ObserveDone, StampInv, TypeOK, StampedWhenFinished, InSubmit, InWorker
<1>8. StampedWhenFinished'
  BY <1>1 DEF Inv, ObserveDone, StampedWhenFinished, TypeOK, StampInv, InWorker
<1>9. StopInv'
  BY <1>1 DEF Inv, ObserveDone, StopInv, TypeOK
<1>10. OutcomeIsHonest'
  BY <1>1 DEF Inv, ObserveDone, OutcomeIsHonest, TypeOK, InSubmit, InWorker
<1>11. PendingIsHeld'
  BY <1>1 DEF Inv, ObserveDone, PendingIsHeld, TypeOK
<1>12. RunningHoldsWorker'
  BY <1>1 DEF Inv, ObserveDone, RunningHoldsWorker, TypeOK, InWorker
<1>13. HeldOnce'
  BY DEF Inv, ObserveDone, HeldOnce
<1> QED
  BY <1>2, <1>3, <1>4, <1>5, <1>6, <1>7, <1>8, <1>9, <1>10, <1>11, <1>12, <1>13 DEF Inv

\* The worker is released after the callback has returned.
LEMMA DrainInv == ASSUME Inv, NEW w \in Workers, Drain(w) PROVE Inv'
<1>1. /\ job[w] \in Tasks
      /\ \A v \in Workers : job[v] = job[w] => v = w
      /\ \A i \in 1..Len(taskCh) : taskCh[i] # job[w]
  BY DEF Inv, TypeOK, HeldOnce, InWorker, Drain
<1>2. TypeOK'
  BY <1>1 DEF Inv, TypeOK, Drain
<1>3. HeldOnce'
  BY <1>1 DEF Inv, Drain, HeldOnce, TypeOK
<1>4. InWorker'
  BY <1>1 DEF Inv, Drain, InWorker, TypeOK, InSubmit
<1>5. ByStatus'
  BY <1>1 DEF Inv, Drain, ByStatus, TypeOK, InSubmit
<1>6. StampInv'
  BY <1>1 DEF Inv, Drain, StampInv, TypeOK, StampedWhenFinished, InSubmit, InWorker
<1>7. StopInv'
  BY <1>1 DEF Inv, Drain, StopInv, TypeOK
<1>8. PendingIsHeld'
  BY <1>1 DEF Inv, Drain, PendingIsHeld, TypeOK
<1>9. RunningHoldsWorker'
  BY <1>1 DEF Inv, Drain, RunningHoldsWorker, TypeOK, InWorker
<1>10. InSubmit' /\ InChannel' /\ StampedWhenFinished' /\ OutcomeIsHonest'
  BY DEF Inv, Drain, InSubmit, InChannel, StampedWhenFinished, OutcomeIsHonest, InChan
<1> QED
  BY <1>2, <1>3, <1>4, <1>5, <1>6, <1>7, <1>8, <1>9, <1>10 DEF Inv

\* Cancelling the queue context touches no task.
LEMMA StopCancelInv == ASSUME Inv, StopCancel PROVE Inv'
<1>1. TypeOK'
  BY DEF Inv, TypeOK, StopCancel
<1>2. StopInv'
  BY DEF Inv, StopCancel, StopInv, TypeOK
<1>3. /\ HeldOnce' /\ InSubmit' /\ InChannel' /\ InWorker'
      /\ ByStatus' /\ StampInv' /\ StampedWhenFinished' /\ OutcomeIsHonest'
      /\ PendingIsHeld' /\ RunningHoldsWorker'
  BY DEF Inv, StopCancel, HeldOnce, InSubmit, InChannel, InWorker, ByStatus, StampInv,
         StampedWhenFinished, OutcomeIsHonest, PendingIsHeld, RunningHoldsWorker, InChan
<1> QED
  BY <1>1, <1>2, <1>3 DEF Inv

\* Closing the channel keeps what is buffered.
LEMMA StopCloseInv == ASSUME Inv, StopClose PROVE Inv'
<1>1. TypeOK'
  BY DEF Inv, TypeOK, StopClose
<1>2. StopInv'
  BY DEF Inv, StopClose, StopInv, TypeOK
<1>3. /\ HeldOnce' /\ InSubmit' /\ InChannel' /\ InWorker'
      /\ ByStatus' /\ StampInv' /\ StampedWhenFinished' /\ OutcomeIsHonest'
      /\ PendingIsHeld' /\ RunningHoldsWorker'
  BY DEF Inv, StopClose, HeldOnce, InSubmit, InChannel, InWorker, ByStatus, StampInv,
         StampedWhenFinished, OutcomeIsHonest, PendingIsHeld, RunningHoldsWorker, InChan
<1> QED
  BY <1>1, <1>2, <1>3 DEF Inv

\* Stop returns after the last worker left its loop.
LEMMA StopReturnInv == ASSUME Inv, StopReturn PROVE Inv'
<1>1. TypeOK'
  BY DEF Inv, TypeOK, StopReturn
<1>2. StopInv'
  BY DEF Inv, StopReturn, StopInv, TypeOK
<1>3. /\ HeldOnce' /\ InSubmit' /\ InChannel' /\ InWorker'
      /\ ByStatus' /\ StampInv' /\ StampedWhenFinished' /\ OutcomeIsHonest'
      /\ PendingIsHeld' /\ RunningHoldsWorker'
  BY DEF Inv, StopReturn, HeldOnce, InSubmit, InChannel, InWorker, ByStatus, StampInv,
         StampedWhenFinished, OutcomeIsHonest, PendingIsHeld, RunningHoldsWorker, InChan
<1> QED
  BY <1>1, <1>2, <1>3 DEF Inv

\* The empty queue satisfies the invariant.
LEMMA InitInv == Init => Inv
BY DEF Init, Inv, TypeOK, HeldOnce, InSubmit, InChannel, InWorker, ByStatus, StampInv,
       StopInv, StampedWhenFinished, OutcomeIsHonest, PendingIsHeld, RunningHoldsWorker, InChan

\* A step that changes nothing keeps it.
LEMMA StutterInv == ASSUME Inv, UNCHANGED vars PROVE Inv'
BY DEF vars, Inv, TypeOK, HeldOnce, InSubmit, InChannel, InWorker, ByStatus, StampInv,
       StopInv, StampedWhenFinished, OutcomeIsHonest, PendingIsHeld, RunningHoldsWorker, InChan

\* So does every step of every goroutine.
LEMMA NextInv == ASSUME Inv, [Next]_vars PROVE Inv'
<1>1. CASE UNCHANGED vars
  BY <1>1, StutterInv
<1>2. ASSUME NEW t \in Tasks, Register(t) \/ SubmitStep(t) \/ Cancel(t) \/ FnReturn(t)
      PROVE  Inv'
  BY <1>2, RegisterInv, EnqueueInv, GiveUpInv, RefuseInv, CancelInv, FnReturnInv DEF
     SubmitStep
<1>3. ASSUME NEW w \in Workers, WorkerStep(w)
      PROVE  Inv'
  BY <1>3, ExitInv, ReceiveInv, SkipInv, StartInv, FinishInv, ObserveDoneInv, DrainInv
     DEF WorkerStep
<1>4. CASE StopCancel \/ StopClose \/ StopReturn
  BY <1>4, StopCancelInv, StopCloseInv, StopReturnInv
<1> QED
  BY <1>1, <1>2, <1>3, <1>4 DEF Next

-----------------------------------------------------------------------------
\* The invariant holds in every reachable state, whatever the number of
\* tasks and workers and the capacity of the channel.
THEOREM Invariance == Spec => []Inv
BY InitInv, NextInv, PTL DEF Spec

\* Type correctness: every field of the queue keeps its range, and the
\* channel never holds more than Cap ids.
THEOREM TypeCorrect == Spec => []TypeOK
<1>1. Inv => TypeOK
  BY DEF Inv
<1> QED
  BY <1>1, Invariance, PTL

\* The status a client reads is the outcome of the callback.
THEOREM HonestOutcome == Spec => []OutcomeIsHonest
<1>1. Inv => OutcomeIsHonest
  BY DEF Inv
<1> QED
  BY <1>1, Invariance, PTL

\* A task whose Submit call gave up is in no channel and has no callback.
THEOREM RefusalIsFinal == Spec => []RefusedNeverRuns
<1>1. Inv => RefusedNeverRuns
  BY DEF Inv, InSubmit, InChan, RefusedNeverRuns
<1> QED
  BY <1>1, Invariance, PTL

\* No id is lost on its way from Submit to a worker, and none is duplicated: a
\* pending task is held by a Submit call, the channel or a worker, and by one.
THEOREM IdsAreConserved == Spec => []IdsConserved
<1>1. Inv => IdsConserved
  BY DEF Inv, IdsConserved
<1> QED
  BY <1>1, Invariance, PTL

\* A running callback occupies a worker: the pool bounds the number of
\* pipelines that run at the same time.
THEOREM PoolBoundsCallbacks == Spec => []RunningHoldsWorker
<1>1. Inv => RunningHoldsWorker
  BY DEF Inv
<1> QED
  BY <1>1, Invariance, PTL

\* Stop returns only when no callback is running.
THEOREM StopIsQuiet == Spec => []StoppedIsQuiet
<1>1. Inv => StoppedIsQuiet
  BY DEF Inv, StopInv, RunningHoldsWorker, StoppedIsQuiet
<1> QED
  BY <1>1, Invariance, PTL

\* completed_at marks exactly the finished tasks.
THEOREM Stamps == Spec => []StampedWhenFinished
<1>1. Inv => StampedWhenFinished
  BY DEF Inv
<1> QED
  BY <1>1, Invariance, PTL

-----------------------------------------------------------------------------
(* Action properties: what no step may do.                                 *)

\* Every step that changes the status of a task or of its callback is one of
\* five, each with the values it starts from. The worker that reads job[w]
\* knows them only through the invariant.
Steps(t) ==
  \/ status'[t] = status[t] /\ fn'[t] = fn[t]
  \/ status[t] = "absent" /\ status'[t] = "pending" /\ fn'[t] = fn[t]
  \/ status[t] \in {"pending", "running", "cancelled"} /\ status'[t] = "cancelled" /\ fn'[t] = fn[t]
  \/ status[t] = "pending" /\ status'[t] = "running" /\ fn[t] = "none" /\ fn'[t] = "running"
  \/ /\ status[t] = "running" /\ fn[t] \in Returned /\ fn'[t] = fn[t]
     /\ status'[t] = IF fn[t] = "ok" THEN "completed" ELSE "failed"
  \/ status'[t] = status[t] /\ fn[t] = "running" /\ fn'[t] \in Returned

\* A step changes the status and the callback of at most one task.
OneTask == \E t \in Tasks : /\ Steps(t)
                            /\ status' = [status EXCEPT ![t] = status'[t]]
                            /\ fn' = [fn EXCEPT ![t] = fn'[t]]

\* The invariant tells a worker that holds an id what the task can look like.
LEMMA StepsOfOneTask ==
  ASSUME Inv, Next
  PROVE  OneTask \/ UNCHANGED <<status, fn>>
<1> USE DEF Inv, TypeOK
<1>1. ASSUME NEW t \in Tasks, Register(t) PROVE OneTask
  BY <1>1 DEF Register, OneTask, Steps, InSubmit
<1>2. ASSUME NEW t \in Tasks, Enqueue(t) \/ GiveUp(t)
      PROVE  UNCHANGED <<status, fn>>
  BY <1>2 DEF Enqueue, GiveUp
<1>3. ASSUME NEW t \in Tasks, Refuse(t) PROVE OneTask
  BY <1>3 DEF Refuse, OneTask, Steps, InSubmit
<1>4. ASSUME NEW t \in Tasks, Cancel(t) PROVE OneTask
  BY <1>4 DEF Cancel, OneTask, Steps
<1>5. ASSUME NEW t \in Tasks, FnReturn(t) PROVE OneTask
  BY <1>5 DEF FnReturn, OneTask, Steps
<1>6. ASSUME NEW w \in Workers, Exit(w) \/ Receive(w) \/ Skip(w) \/ Drain(w)
      PROVE  UNCHANGED <<status, fn>>
  BY <1>6 DEF Exit, Receive, Skip, Drain
<1>7. ASSUME NEW w \in Workers, Start(w) PROVE OneTask
  <2>1. job[w] \in Tasks /\ fn[job[w]] = "none"
    BY <1>7 DEF Start, InWorker
  <2> QED
    BY <1>7, <2>1 DEF Start, OneTask, Steps
<1>8. ASSUME NEW w \in Workers, Finish(w) PROVE OneTask \/ UNCHANGED <<status, fn>>
  <2>1. job[w] \in Tasks
    BY <1>8 DEF Finish, InWorker
  <2>2. CASE status[job[w]] = "running"
    <3>1. /\ fn' = fn /\ fn[job[w]] \in Returned
          /\ status' = [status EXCEPT ![job[w]] = IF fn[job[w]] = "err" THEN "failed" ELSE "completed"]
      BY <1>8, <2>2 DEF Finish
    <3>2. Steps(job[w])
      BY <2>1, <2>2, <3>1 DEF Steps
    <3> QED
      BY <2>1, <3>1, <3>2 DEF OneTask
  <2>3. CASE status[job[w]] # "running"
    BY <1>8, <2>3 DEF Finish
  <2> QED
    BY <2>2, <2>3
<1>9. ASSUME NEW w \in Workers, ObserveDone(w) PROVE OneTask
  <2>1. job[w] \in Tasks /\ status[job[w]] \in {"running", "cancelled"}
    BY <1>9 DEF ObserveDone, InWorker
  <2> QED
    BY <1>9, <2>1 DEF ObserveDone, OneTask, Steps
<1>10. CASE StopCancel \/ StopClose \/ StopReturn
  BY <1>10 DEF StopCancel, StopClose, StopReturn
<1> QED
  BY <1>1, <1>2, <1>3, <1>4, <1>5, <1>6, <1>7, <1>8, <1>9, <1>10
     DEF Next, SubmitStep, WorkerStep

\* Hence every task takes one of the five steps or none.
LEMMA StepsOfEveryTask ==
  ASSUME Inv, [Next]_vars
  PROVE  \A t \in Tasks : Steps(t)
<1>1. CASE UNCHANGED <<status, fn>>
  BY <1>1 DEF Steps
<1>2. CASE OneTask
  <2>1. PICK u \in Tasks : /\ Steps(u)
                           /\ status' = [status EXCEPT ![u] = status'[u]]
                           /\ fn' = [fn EXCEPT ![u] = fn'[u]]
    BY <1>2 DEF OneTask
  <2>2. \A t \in Tasks : t # u => status'[t] = status[t] /\ fn'[t] = fn[t]
    BY <2>1 DEF Inv, TypeOK
  <2> QED
    BY <2>1, <2>2 DEF Steps
<1> QED
  BY <1>1, <1>2, StepsOfOneTask DEF vars

\* A terminal status never changes, although the Done case of runTask writes
\* it without a test.
THEOREM TerminalForever == Spec => TerminalIsFinal
<1>1. ASSUME Inv, [Next]_vars
      PROVE  \A t \in Tasks : status[t] \in Terminal => status'[t] = status[t]
  BY <1>1, StepsOfEveryTask DEF Steps
<1> QED
  BY <1>1, Invariance, PTL DEF Spec, TerminalIsFinal

\* A task cancelled before its callback was started never starts.
THEOREM NoStartAfterCancel == Spec => CancelledNeverStarts
<1>1. ASSUME Inv, [Next]_vars
      PROVE  \A t \in Tasks : status[t] = "cancelled" /\ fn[t] = "none" => fn'[t] = "none"
  BY <1>1, StepsOfEveryTask DEF Steps
<1> QED
  BY <1>1, Invariance, PTL DEF Spec, CancelledNeverStarts

-----------------------------------------------------------------------------
(* Refinement: the queue implements the per-task promise.                  *)

\* The empty queue is an initial state of the promise.
LEMMA LifecycleInit == Init => Lifecycle!Init
BY DEF Init, Lifecycle!Init

\* A step of the queue is one step of the promise, or a stutter.
LEMMA LifecycleStep == ASSUME Inv, [Next]_vars PROVE [Lifecycle!Next]_<<status, fn>>
<1>1. CASE UNCHANGED <<status, fn>>
  BY <1>1
<1>2. CASE OneTask
  <2>1. PICK t \in Tasks : /\ Steps(t)
                           /\ status' = [status EXCEPT ![t] = status'[t]]
                           /\ fn' = [fn EXCEPT ![t] = fn'[t]]
    BY <1>2 DEF OneTask
  <2> USE <2>1 DEF Inv, TypeOK
  <2>a. [status EXCEPT ![t] = status[t]] = status /\ [fn EXCEPT ![t] = fn[t]] = fn
    BY DEF Inv, TypeOK
  <2>2. CASE status'[t] = status[t] /\ fn'[t] = fn[t]
    <3>1. status' = status /\ fn' = fn
      BY ONLY <2>1, <2>2, <2>a
    <3> QED
      BY <3>1
  <2>3. CASE status[t] = "absent" /\ status'[t] = "pending" /\ fn'[t] = fn[t]
    <3>1. fn' = fn /\ status' = [status EXCEPT ![t] = "pending"]
      BY <2>3
    <3> QED
      BY <2>3, <3>1 DEF Lifecycle!Next, Lifecycle!Accept
  <2>4. CASE /\ status[t] \in {"pending", "running", "cancelled"}
             /\ status'[t] = "cancelled" /\ fn'[t] = fn[t]
    <3>1. fn' = fn /\ status' = [status EXCEPT ![t] = "cancelled"]
      BY <2>4
    <3>2. CASE status[t] = "cancelled"
      BY <3>1, <3>2
    <3>3. CASE status[t] # "cancelled"
      BY <2>4, <3>1, <3>3 DEF Lifecycle!Next, Lifecycle!Abort
    <3> QED
      BY <3>2, <3>3
  <2>5. CASE status[t] = "pending" /\ status'[t] = "running" /\ fn[t] = "none" /\ fn'[t] = "running"
    <3>1. /\ status' = [status EXCEPT ![t] = "running"]
          /\ fn' = [fn EXCEPT ![t] = "running"]
      BY <2>5
    <3> QED
      BY <2>5, <3>1 DEF Lifecycle!Next, Lifecycle!Begin
  <2>6. CASE /\ status[t] = "running" /\ fn[t] \in Returned /\ fn'[t] = fn[t]
             /\ status'[t] = IF fn[t] = "ok" THEN "completed" ELSE "failed"
    <3>1. /\ fn' = fn
          /\ status' = [status EXCEPT ![t] = IF fn[t] = "ok" THEN "completed" ELSE "failed"]
      BY <2>6
    <3> QED
      BY <2>6, <3>1 DEF Lifecycle!Next, Lifecycle!Settle, Lifecycle!Returned
  <2>7. CASE status'[t] = status[t] /\ fn[t] = "running" /\ fn'[t] \in Returned
    <3>1. status' = status /\ \E r \in Returned : fn' = [fn EXCEPT ![t] = r]
      BY ONLY <2>1, <2>7, <2>a
    <3> QED
      BY <2>7, <3>1 DEF Lifecycle!Next, Lifecycle!Return, Lifecycle!Returned
  <2> QED
    BY <2>2, <2>3, <2>4, <2>5, <2>6, <2>7 DEF Steps
<1> QED
  BY <1>1, <1>2, StepsOfOneTask DEF vars

\* Every behaviour of the queue, seen through the status and the callback of
\* each task, is one TaskLifecycle allows: callbacks start once and only from
\* pending, outcomes are the callback's, and cancelling never stops a callback.
THEOREM Refinement == Spec => LifecycleSpec
<1>1. ASSUME Inv, [Next]_vars PROVE [Lifecycle!Next]_Lifecycle!vars
  BY <1>1, LifecycleStep DEF Lifecycle!vars
<1> QED
  BY <1>1, LifecycleInit, Invariance, PTL DEF Spec, LifecycleSpec, Lifecycle!Spec
=============================================================================
