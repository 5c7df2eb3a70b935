-------------------------- MODULE WorkerThreadProps --------------------------
(***************************************************************************)
(* What the worker thread promises to the code that hands tasks to it.     *)
(***************************************************************************)
EXTENDS WorkerThread

\* The type invariant: the array index stays inside m_lppvQueue, every control
\* point is one the code has, and the worker holds a task while it runs one.
TypeOK ==
  /\ running \in BOOLEAN
  /\ state \in {"Down", "Waiting", "Busy", "ShuttingDown"}
  /\ slots \in [0 .. QueueSize - 1 -> Tasks \cup {NoTask}]
  /\ queuePos \in 0 .. QueueSize - 1
  /\ processor \in Tasks \cup {NoTask}
  /\ wpc \in WorkerAt
  /\ signaled \in BOOLEAN /\ freed \in BOOLEAN
  /\ status \in [Tasks -> TaskStatus]
  /\ cpc \in [Clients -> ClientAt]
  /\ ctask \in [Clients -> Tasks \cup {NoTask}]
  /\ policy \in [Clients -> {"giveup", "ignore", "retry"}]
  /\ accepted \in [Clients -> BOOLEAN]
  /\ dpc \in OwnerAt
  /\ pushed \in [Tasks -> Nat] /\ ran \in [Tasks -> Nat]
  /\ abandoned \in [Tasks -> BOOLEAN]

Queued(t) == \E i \in 0 .. queuePos - 1 : slots[i] = t

\* The worker holds t and has not finished running it.
Held(t) == processor = t /\ wpc \in {"begin", "task"}

Finishing(t) == processor = t /\ wpc \in {"completeOk", "completeFail"}

\* No task is lost and none runs twice: every push is either matched by a run,
\* or the task is at one place in the queue or in the worker's hands, never
\* both (Push, Pop, OnTask).
EveryPushRunsOnce ==
  \A t \in Tasks :
    /\ pushed[t] = ran[t] + (IF Queued(t) \/ Held(t) THEN 1 ELSE 0)
    /\ ~(Queued(t) /\ (Held(t) \/ Finishing(t)))
    /\ \A i, j \in 0 .. queuePos - 1 : slots[i] = t /\ slots[j] = t => i = j

\* A caller whose task was taken and who finds it Completed reads the result of
\* that submission: the Completed is not the one the task still carried from an
\* earlier run (RepeatLastTask hands the same task over again), and the worker
\* is no longer in the task.
CompletionIsFresh ==
  \A c \in Clients :
    cpc[c] = "poll" /\ accepted[c] /\ status[ctask[c]] = "Completed"
      => /\ ran[ctask[c]] = pushed[ctask[c]]
         /\ ~Queued(ctask[c]) /\ ~Held(ctask[c]) /\ ~Finishing(ctask[c])

\* Once a first task has come back, Event of the only caller never fails: this
\* is what lets CreateFile and UploadFileBlocks ignore its result, where a
\* FALSE would leave the Completed of the previous block in the task.
RejectedOnlyBeforeFirstRun ==
  (\E c \in Clients : cpc[c] = "rejected") => \A t \in Tasks : ran[t] = 0

\* The worker is gone when the thread object is: the event it waits on and the
\* queue it reads are destroyed by ~CThread.
DestroyedOnlyWhenDown == freed => wpc = "down"

\* The worker never sleeps through a task: with a task in the queue and no
\* call of Event left to signal it, it is not blocked without a signal.
NoSleepOnWork ==
  (/\ queuePos > 0 /\ wpc \in {"towait", "blocked"}
   /\ \A c \in Clients : cpc[c] \notin {"setstatus", "signal"})
    => signaled

-----------------------------------------------------------------------------
(* The worker thread implements TaskExecutor.                              *)

Owed == {t \in Tasks : pushed[t] > ran[t]}

Waiting == [c \in Clients |->
             IF cpc[c] \in {"setstatus", "signal", "poll"} /\ accepted[c]
             THEN ctask[c] ELSE NoTask]

Left == {t \in Tasks : abandoned[t]}

Executor == INSTANCE TaskExecutor WITH
              owed <- Owed, waiting <- Waiting, left <- Left

\* Whatever the callers, the worker, the owner and the event do, seen from the
\* callers it is a task executor: a task is owed at most one run at a time and
\* nobody returns from waiting while the run is still owed.
ImplementsExecutor == Executor!Spec

-----------------------------------------------------------------------------
\* Placing a task on the queue wakes the thread up: a task that Event has taken
\* runs, unless the thread is told to stop or a task ended it first.
EventWakesThread ==
  \A t \in Tasks : (pushed[t] > ran[t]) ~> (pushed[t] = ran[t] \/ ~running)

\* Once Stop has been called the thread reaches its end.
StopEndsThread == (dpc = "wait") ~> (wpc = "down")

\* A caller whose task was taken, by a thread that keeps running, comes back,
\* except when the task was over before Event stored WaitingOnQueue in it.
PollEndsUnlessOverwritten ==
  \A c \in Clients :
    (cpc[c] = "poll" /\ accepted[c])
      ~> \/ cpc[c] # "poll" \/ ~running
         \/ ran[ctask[c]] = pushed[ctask[c]] /\ status[ctask[c]] = "WaitingOnQueue"

\* A caller whose task was taken waits for ever only when the thread has ended,
\* which CommandThread::Start puts down to a task that returned FALSE.
StuckOnlyAfterFailure ==
  \A c \in Clients :
    (cpc[c] = "poll" /\ accepted[c]) ~> (cpc[c] # "poll" \/ wpc = "down")
=============================================================================
