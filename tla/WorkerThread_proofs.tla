------------------------ MODULE WorkerThread_proofs ------------------------
(***************************************************************************)
(* The safety of the worker thread for any number of callers, tasks and    *)
(* queue slots, on both kinds of event, whatever the tasks return.         *)
(***************************************************************************)
EXTENDS WorkerThreadProps, FiniteSetTheorems, TLAPS

\* A task between its Push and its Completed.
InFlight(t) == Queued(t) \/ Held(t) \/ Finishing(t)

\* The worker has a task where it uses one, and pops from a queue that has one.
WorkerHoldsTask ==
  /\ wpc \in {"begin", "task", "completeOk", "completeFail"} => processor \in Tasks
  /\ wpc = "pop" => queuePos > 0

QueueHoldsTasks == \A i \in 0 .. queuePos - 1 : slots[i] \in Tasks

\* A caller inside Event or its polling loop has a task, and alone.
CallerHasTask ==
  \A c \in Clients :
    cpc[c] # "idle" => ctask[c] \in Tasks /\ ~abandoned[ctask[c]]

OneCallerPerTask ==
  \A c, d \in Clients :
    cpc[c] # "idle" /\ cpc[d] # "idle" /\ ctask[c] = ctask[d] => c = d

\* Event has not taken the task before it pushes it.
TakenByPush ==
  \A c \in Clients :
    cpc[c] \in {"event", "ping", "recheck", "push", "rejected"} => ~accepted[c]

\* Somebody whose task was taken still waits for a task in flight, or left it.
InFlightHasCaller ==
  \A t \in Tasks :
    InFlight(t) =>
      \/ abandoned[t]
      \/ \E c \in Clients : /\ cpc[c] \in {"setstatus", "signal", "poll"}
                            /\ accepted[c] /\ ctask[c] = t

\* From WaitingOnQueue to its Completed a task does not read Completed.
NotCompletedInFlight ==
  \A c \in Clients :
    cpc[c] \in {"signal", "poll"} /\ accepted[c] /\ InFlight(ctask[c])
      => status[ctask[c]] # "Completed"

\* The inductive invariant.
IInv ==
  /\ TypeOK /\ WorkerHoldsTask /\ QueueHoldsTasks /\ EveryPushRunsOnce
  /\ CallerHasTask /\ OneCallerPerTask /\ TakenByPush
  /\ InFlightHasCaller /\ NotCompletedInFlight

\* The steps of the worker that hold no task.
LEMMA WorkerControlStep ==
  ASSUME IInv, WorkerStart \/ EnterWait \/ Wake \/ KernelProcess \/ TestEmpty
    \/ WorkerExit
  PROVE  IInv'
<1> USE DEF IInv, WorkerStart, EnterWait, Wake, KernelProcess, TestEmpty,
  WorkerExit, clientVars
<1>1. TypeOK'
  BY DEF TypeOK, WorkerAt, ClientAt, OwnerAt, TaskStatus
<1>2. WorkerHoldsTask'
  BY DEF TypeOK, WorkerHoldsTask
<1>3. QueueHoldsTasks'
  BY DEF TypeOK, QueueHoldsTasks
<1>4. UNCHANGED <<slots, queuePos, pushed, ran>>
      /\ \A t \in Tasks : /\ Queued(t)' <=> Queued(t)
                          /\ Held(t)' <=> Held(t)
                          /\ Finishing(t)' <=> Finishing(t)
  BY DEF Queued, Held, Finishing
<1>5. EveryPushRunsOnce'
  BY <1>4, Zenon DEF EveryPushRunsOnce
<1>6. CallerHasTask' /\ OneCallerPerTask' /\ TakenByPush'
  BY DEF TypeOK, CallerHasTask, OneCallerPerTask, TakenByPush
<1>7. \A t \in Tasks : InFlight(t)' <=> InFlight(t)
  BY <1>4 DEF InFlight
<1>8. InFlightHasCaller' /\ NotCompletedInFlight'
  BY <1>7 DEF TypeOK, InFlightHasCaller, NotCompletedInFlight, CallerHasTask
<1> QED
  BY <1>1, <1>2, <1>3, <1>5, <1>6, <1>8

\* Pop moves the top of the queue into the hands of the worker.
LEMMA PopStep ==
  ASSUME IInv, Pop
  PROVE  IInv'
<1> USE DEF IInv, Pop, clientVars
<1>1. queuePos \in Nat /\ queuePos > 0 /\ queuePos - 1 \in 0 .. QueueSize - 1
  BY WorkerAssumption DEF TypeOK, WorkerHoldsTask
<1>2. slots[queuePos - 1] \in Tasks /\ Queued(slots[queuePos - 1])
  BY <1>1 DEF TypeOK, QueueHoldsTasks, Queued
<1>3. \A t \in Tasks : Queued(t)' <=> (Queued(t) /\ t # slots[queuePos - 1])
  BY <1>1, <1>2 DEF TypeOK, Queued, EveryPushRunsOnce
<1>4. \A t \in Tasks : /\ Held(t)' <=> (t = slots[queuePos - 1])
                       /\ ~Held(t) /\ ~Finishing(t) /\ ~Finishing(t)'
  BY <1>1 DEF Held, Finishing
<1>5. TypeOK'
  BY <1>1 DEF TypeOK, WorkerAt
<1>6. WorkerHoldsTask' /\ QueueHoldsTasks'
  BY <1>1, <1>2 DEF TypeOK, WorkerHoldsTask, QueueHoldsTasks
<1>7. EveryPushRunsOnce'
  BY <1>1, <1>2, <1>3, <1>4 DEF TypeOK, EveryPushRunsOnce
<1>8. CallerHasTask' /\ OneCallerPerTask' /\ TakenByPush'
  BY DEF TypeOK, CallerHasTask, OneCallerPerTask, TakenByPush
<1>9. \A t \in Tasks : InFlight(t)' <=> InFlight(t)
  BY <1>2, <1>3, <1>4 DEF InFlight
<1>10. InFlightHasCaller' /\ NotCompletedInFlight'
  BY <1>9 DEF TypeOK, InFlightHasCaller, NotCompletedInFlight, CallerHasTask
<1> QED
  BY <1>1, <1>2, <1>3, <1>4, <1>5, <1>6, <1>7, <1>8, <1>9, <1>10

\* BeginTask writes BeingProcessed into the task that runs.
LEMMA BeginTaskStep ==
  ASSUME IInv, BeginTask
  PROVE  IInv'
<1> USE DEF IInv, BeginTask, clientVars
<1>1. TypeOK'
  BY DEF TypeOK, WorkerAt, ClientAt, OwnerAt, TaskStatus, WorkerHoldsTask
<1>2. WorkerHoldsTask'
  BY DEF TypeOK, WorkerHoldsTask
<1>3. QueueHoldsTasks'
  BY DEF TypeOK, QueueHoldsTasks
<1>4. EveryPushRunsOnce'
  BY DEF TypeOK, EveryPushRunsOnce, Queued, Held, Finishing
<1>5. CallerHasTask' /\ OneCallerPerTask' /\ TakenByPush'
  BY DEF TypeOK, CallerHasTask, OneCallerPerTask, TakenByPush
<1>6. InFlightHasCaller'
  BY DEF TypeOK, InFlightHasCaller, InFlight, Queued, Held, Finishing
<1>7. NotCompletedInFlight'
  BY DEF TypeOK, NotCompletedInFlight, InFlight, Queued, Held, Finishing,
    WorkerHoldsTask
<1> QED
  BY <1>1, <1>2, <1>3, <1>4, <1>5, <1>6, <1>7

\* RunTask pays one push with one run.
LEMMA RunTaskStep ==
  ASSUME IInv, RunTask
  PROVE  IInv'
<1> USE DEF IInv, RunTask, clientVars
<1>1. TypeOK'
  BY DEF TypeOK, WorkerAt, ClientAt, OwnerAt, TaskStatus, WorkerHoldsTask
<1>2. WorkerHoldsTask'
  BY DEF TypeOK, WorkerHoldsTask
<1>3. QueueHoldsTasks'
  BY DEF TypeOK, QueueHoldsTasks
<1>4. \A t \in Tasks : /\ Queued(t)' <=> Queued(t)
                       /\ ~Finishing(t) /\ ~Held(t)'
                       /\ Held(t) <=> t = processor
                       /\ Finishing(t)' <=> t = processor
  BY DEF Queued, Held, Finishing
<1>5. EveryPushRunsOnce'
  BY <1>4 DEF TypeOK, EveryPushRunsOnce, WorkerHoldsTask
<1>6. CallerHasTask' /\ OneCallerPerTask' /\ TakenByPush'
  BY DEF TypeOK, CallerHasTask, OneCallerPerTask, TakenByPush
<1>7. InFlightHasCaller'
  BY DEF TypeOK, InFlightHasCaller, InFlight, Queued, Held, Finishing
<1>8. NotCompletedInFlight'
  BY DEF TypeOK, NotCompletedInFlight, InFlight, Queued, Held, Finishing
<1> QED
  BY <1>1, <1>2, <1>3, <1>4, <1>5, <1>6, <1>7, <1>8

\* Completed is written when the task is in flight no more.
LEMMA CompleteTaskStep ==
  ASSUME IInv, CompleteTask
  PROVE  IInv'
<1> USE DEF IInv, CompleteTask, clientVars
<1>1. TypeOK'
  BY DEF TypeOK, WorkerAt, ClientAt, OwnerAt, TaskStatus, WorkerHoldsTask
<1>2. WorkerHoldsTask'
  BY DEF TypeOK, WorkerHoldsTask
<1>3. QueueHoldsTasks'
  BY DEF TypeOK, QueueHoldsTasks
<1>4. EveryPushRunsOnce'
  BY DEF TypeOK, EveryPushRunsOnce, Queued, Held, Finishing
<1>5. CallerHasTask' /\ OneCallerPerTask' /\ TakenByPush'
  BY DEF TypeOK, CallerHasTask, OneCallerPerTask, TakenByPush
<1>6. InFlightHasCaller'
  BY DEF TypeOK, InFlightHasCaller, InFlight, Queued, Held, Finishing,
    EveryPushRunsOnce
<1>7. NotCompletedInFlight'
  BY DEF TypeOK, NotCompletedInFlight, InFlight, Queued, Held, Finishing,
    EveryPushRunsOnce, WorkerHoldsTask
<1> QED
  BY <1>1, <1>2, <1>3, <1>4, <1>5, <1>6, <1>7

\* A caller takes a task nobody else uses.
LEMMA SubmitStep ==
  ASSUME NEW c \in Clients, NEW t \in Tasks, NEW p \in Policies, IInv,
    Submit(c, t, p)
  PROVE  IInv'
<1> USE DEF IInv, Submit, Available, Goto
<1>1. TypeOK'
  BY WorkerAssumption DEF TypeOK, WorkerAt, ClientAt, OwnerAt, TaskStatus
<1>2. WorkerHoldsTask'
  BY DEF TypeOK, WorkerHoldsTask
<1>3. QueueHoldsTasks'
  BY DEF TypeOK, QueueHoldsTasks
<1>4. \A u \in Tasks : /\ Queued(u)' <=> Queued(u)
                       /\ Held(u)' <=> Held(u)
                       /\ Finishing(u)' <=> Finishing(u)
  BY DEF Queued, Held, Finishing
<1>5. EveryPushRunsOnce'
  BY <1>4 DEF TypeOK, EveryPushRunsOnce
<1>6. CallerHasTask'
  BY DEF TypeOK, CallerHasTask
<1>7. OneCallerPerTask'
  BY DEF TypeOK, OneCallerPerTask, CallerHasTask
<1>8. TakenByPush'
  BY DEF TypeOK, TakenByPush
<1>9. InFlightHasCaller'
  BY DEF TypeOK, InFlightHasCaller, InFlight, Queued, Held, Finishing
<1>10. NotCompletedInFlight'
  BY DEF TypeOK, NotCompletedInFlight, InFlight, Queued, Held, Finishing
<1> QED
  BY <1>1, <1>2, <1>3, <1>4, <1>5, <1>6, <1>7, <1>8, <1>9, <1>10

\* The steps of a caller that only move on.
LEMMA CallerControlStep ==
  ASSUME NEW c \in Clients, IInv, EventTest(c) \/ Ping(c) \/ Recheck(c) \/
    Signal(c) \/ Rejected(c)
  PROVE  IInv'
<1> USE DEF IInv, EventTest, Ping, Recheck, Signal, Rejected, SetEvent, Goto
<1>1. TypeOK'
  <2>1. cpc' \in [Clients -> ClientAt]
    BY DEF TypeOK, ClientAt
  <2>2. policy' \in [Clients -> {"giveup", "ignore", "retry"}]
    BY DEF TypeOK
  <2> QED
    BY <2>1, <2>2 DEF TypeOK
<1>2. WorkerHoldsTask'
  BY DEF TypeOK, WorkerHoldsTask
<1>3. QueueHoldsTasks'
  BY DEF TypeOK, QueueHoldsTasks
<1>4. \A t \in Tasks : /\ Queued(t)' <=> Queued(t)
                       /\ Held(t)' <=> Held(t)
                       /\ Finishing(t)' <=> Finishing(t)
  BY DEF Queued, Held, Finishing
<1>5. EveryPushRunsOnce'
  BY <1>4 DEF TypeOK, EveryPushRunsOnce
<1>6. CallerHasTask'
  BY DEF TypeOK, CallerHasTask
<1>7. OneCallerPerTask'
  BY DEF TypeOK, OneCallerPerTask
<1>8. TakenByPush'
  BY DEF TypeOK, TakenByPush
<1>9. InFlightHasCaller' /\ NotCompletedInFlight'
  BY <1>4 DEF TypeOK, InFlight, InFlightHasCaller, NotCompletedInFlight,
     CallerHasTask, TakenByPush
<1> QED
  BY <1>1, <1>2, <1>3, <1>4, <1>5, <1>6, <1>7, <1>8, <1>9

\* The owner disturbs neither tasks nor callers.
LEMMA OwnerControlStep ==
  ASSUME IInv, SetThreadType \/ Destroy \/ StopRunning \/ StopSignal \/ StopDone
  PROVE  IInv'
<1> USE DEF IInv, SetThreadType, Destroy, StopRunning, StopSignal, StopDone,
  SetEvent, clientVars
<1>1. TypeOK'
  <2>1. dpc' \in OwnerAt /\ freed' \in BOOLEAN
    BY DEF TypeOK, OwnerAt
  <2>2. running' \in BOOLEAN /\ signaled' \in BOOLEAN
    BY DEF TypeOK
  <2>3. UNCHANGED <<state, slots, queuePos, processor, wpc, status, clientVars,
                    pushed, ran>>
    OBVIOUS
  <2> QED
    BY <2>1, <2>2, <2>3 DEF TypeOK
<1>2. WorkerHoldsTask'
  BY DEF TypeOK, WorkerHoldsTask
<1>3. QueueHoldsTasks'
  BY DEF TypeOK, QueueHoldsTasks
<1>4. \A t \in Tasks : /\ Queued(t)' <=> Queued(t)
                       /\ Held(t)' <=> Held(t)
                       /\ Finishing(t)' <=> Finishing(t)
  BY DEF Queued, Held, Finishing
<1>5. EveryPushRunsOnce'
  BY <1>4 DEF TypeOK, EveryPushRunsOnce
<1>6. CallerHasTask' /\ OneCallerPerTask' /\ TakenByPush'
  BY DEF TypeOK, CallerHasTask, OneCallerPerTask, TakenByPush
<1>7. InFlightHasCaller' /\ NotCompletedInFlight'
  BY <1>4 DEF TypeOK, InFlight, InFlightHasCaller, NotCompletedInFlight,
     CallerHasTask
<1> QED
  BY <1>1, <1>2, <1>3, <1>4, <1>5, <1>6, <1>7

\* SetWaiting overwrites whatever status an earlier run left.
LEMMA SetWaitingStep ==
  ASSUME NEW c \in Clients, IInv, SetWaiting(c)
  PROVE  IInv'
<1> USE DEF IInv, SetWaiting, Goto
<1>1. TypeOK'
  BY DEF TypeOK, WorkerAt, ClientAt, OwnerAt, TaskStatus, CallerHasTask
<1>2. WorkerHoldsTask'
  BY DEF TypeOK, WorkerHoldsTask
<1>3. QueueHoldsTasks'
  BY DEF TypeOK, QueueHoldsTasks
<1>4. EveryPushRunsOnce'
  BY DEF TypeOK, EveryPushRunsOnce, Queued, Held, Finishing
<1>5. CallerHasTask'
  BY DEF TypeOK, CallerHasTask
<1>6. OneCallerPerTask'
  BY DEF TypeOK, OneCallerPerTask
<1>7. TakenByPush'
  BY DEF TypeOK, TakenByPush
<1>8. InFlightHasCaller'
  BY DEF TypeOK, InFlightHasCaller, InFlight, Queued, Held, Finishing
<1>9. NotCompletedInFlight'
  BY DEF TypeOK, NotCompletedInFlight, InFlight, Queued, Held, Finishing,
    CallerHasTask, OneCallerPerTask
<1> QED
  BY <1>1, <1>2, <1>3, <1>4, <1>5, <1>6, <1>7, <1>8, <1>9

\* A caller that sees Completed leaves no task in flight.
LEMMA SeeCompletedStep ==
  ASSUME NEW c \in Clients, IInv, SeeCompleted(c)
  PROVE  IInv'
<1> USE DEF IInv, SeeCompleted, Goto
<1>1. TypeOK'
  BY DEF TypeOK, WorkerAt, ClientAt, OwnerAt, TaskStatus
<1>2. WorkerHoldsTask'
  BY DEF TypeOK, WorkerHoldsTask
<1>3. QueueHoldsTasks'
  BY DEF TypeOK, QueueHoldsTasks
<1>4. \A t \in Tasks : /\ Queued(t)' <=> Queued(t)
                       /\ Held(t)' <=> Held(t)
                       /\ Finishing(t)' <=> Finishing(t)
  BY DEF Queued, Held, Finishing
<1>5. EveryPushRunsOnce'
  BY <1>4 DEF TypeOK, EveryPushRunsOnce
<1>6. CallerHasTask'
  BY DEF TypeOK, CallerHasTask
<1>7. OneCallerPerTask'
  BY DEF TypeOK, OneCallerPerTask
<1>8. TakenByPush'
  BY DEF TypeOK, TakenByPush
<1>9. InFlightHasCaller'
  BY DEF TypeOK, InFlightHasCaller, InFlight, Queued, Held, Finishing,
    NotCompletedInFlight, CallerHasTask, OneCallerPerTask
<1>10. NotCompletedInFlight'
  BY DEF TypeOK, NotCompletedInFlight, InFlight, Queued, Held, Finishing
<1> QED
  BY <1>1, <1>2, <1>3, <1>4, <1>5, <1>6, <1>7, <1>8, <1>9, <1>10

\* A caller that leaves early marks its task.
LEMMA AbandonStep ==
  ASSUME NEW c \in Clients, IInv, Abandon(c)
  PROVE  IInv'
<1> USE DEF IInv, Abandon, Goto
<1>1. TypeOK'
  BY DEF TypeOK, WorkerAt, ClientAt, OwnerAt, TaskStatus, CallerHasTask
<1>2. WorkerHoldsTask'
  BY DEF TypeOK, WorkerHoldsTask
<1>3. QueueHoldsTasks'
  BY DEF TypeOK, QueueHoldsTasks
<1>4. EveryPushRunsOnce'
  BY DEF TypeOK, EveryPushRunsOnce, Queued, Held, Finishing
<1>5. CallerHasTask'
  BY DEF TypeOK, CallerHasTask, OneCallerPerTask
<1>6. OneCallerPerTask'
  BY DEF TypeOK, OneCallerPerTask
<1>7. TakenByPush'
  BY DEF TypeOK, TakenByPush
<1>8. InFlightHasCaller'
  BY DEF TypeOK, InFlightHasCaller, InFlight, Queued, Held, Finishing
<1>9. NotCompletedInFlight'
  BY DEF TypeOK, NotCompletedInFlight, InFlight, Queued, Held, Finishing
<1> QED
  BY <1>1, <1>2, <1>3, <1>4, <1>5, <1>6, <1>7, <1>8, <1>9

\* Push stores a task that was not in flight.
LEMMA PushStep ==
  ASSUME NEW c \in Clients, IInv, Push(c)
  PROVE  IInv'
<1> USE DEF IInv, Push, Full, Goto
<1>1. ~InFlight(ctask[c])
  BY DEF CallerHasTask, OneCallerPerTask, TakenByPush, InFlightHasCaller
<1>2. CASE Full
  <2> USE <1>2
  <2>1. \A t \in Tasks : InFlight(t)' <=> InFlight(t)
    BY DEF InFlight, Queued, Held, Finishing
  <2>2. TypeOK' /\ WorkerHoldsTask' /\ QueueHoldsTasks' /\ CallerHasTask'
        /\ OneCallerPerTask' /\ TakenByPush'
    BY DEF TypeOK, ClientAt, WorkerHoldsTask, QueueHoldsTasks, CallerHasTask,
       OneCallerPerTask, TakenByPush
  <2>3. EveryPushRunsOnce'
    BY DEF TypeOK, EveryPushRunsOnce, Queued, Held, Finishing
  <2>4. InFlightHasCaller' /\ NotCompletedInFlight'
    BY <2>1 DEF TypeOK, InFlightHasCaller, NotCompletedInFlight, CallerHasTask,
       TakenByPush
  <2> QED
    BY <2>2, <2>3, <2>4
<1>3. CASE ~Full
  <2> USE <1>3
  <2>1. ctask[c] \in Tasks /\ queuePos + 1 < QueueSize /\ queuePos \in Nat
    BY WorkerAssumption DEF TypeOK, CallerHasTask
  <2>2. \A t \in Tasks : /\ Queued(t)' <=> (Queued(t) \/ t = ctask[c])
                         /\ Held(t)' <=> Held(t)
                         /\ Finishing(t)' <=> Finishing(t)
    BY <2>1, WorkerAssumption DEF TypeOK, Queued, Held, Finishing
  <2>3. TypeOK'
    <3>1. queuePos' \in 0 .. QueueSize - 1 /\ queuePos \in 0 .. QueueSize - 1
      BY <2>1, WorkerAssumption
    <3>2. slots' \in [0 .. QueueSize - 1 -> Tasks \cup {NoTask}]
      BY <2>1, <3>1 DEF TypeOK
    <3>3. pushed' \in [Tasks -> Nat]
      <4>1. pushed \in [Tasks -> Nat] /\ pushed[ctask[c]] + 1 \in Nat
        BY <2>1 DEF TypeOK
      <4>2. pushed' = [pushed EXCEPT ![ctask[c]] = pushed[ctask[c]] + 1]
        OBVIOUS
      <4> QED
        BY <4>1, <4>2
    <3>4. cpc' \in [Clients -> ClientAt] /\ accepted' \in [Clients -> BOOLEAN]
      BY DEF TypeOK, ClientAt
    <3> QED
      BY <3>1, <3>2, <3>3, <3>4 DEF TypeOK
  <2>4. WorkerHoldsTask' /\ QueueHoldsTasks'
    BY <2>1, WorkerAssumption DEF TypeOK, WorkerHoldsTask, QueueHoldsTasks
  <2>5. CallerHasTask' /\ OneCallerPerTask' /\ TakenByPush'
    BY DEF TypeOK, CallerHasTask, OneCallerPerTask, TakenByPush
  <2>6. EveryPushRunsOnce'
    <3>1. ASSUME NEW t \in Tasks
          PROVE  pushed'[t] = ran'[t] + (IF Queued(t)' \/ Held(t)' THEN 1 ELSE 0)
      BY <1>1, <2>1, <2>2 DEF TypeOK, EveryPushRunsOnce, InFlight
    <3>2. ASSUME NEW t \in Tasks
          PROVE  ~(Queued(t)' /\ (Held(t)' \/ Finishing(t)'))
      BY <1>1, <2>2 DEF EveryPushRunsOnce, InFlight
    <3>3. ASSUME NEW t \in Tasks, NEW i \in 0 .. queuePos, NEW j \in 0 .. queuePos,
                 slots'[i] = t, slots'[j] = t
          PROVE  i = j
      BY <1>1, <2>1, <3>3, WorkerAssumption
         DEF TypeOK, EveryPushRunsOnce, InFlight, Queued
    <3> QED
      BY <2>1, <3>1, <3>2, <3>3 DEF EveryPushRunsOnce
  <2>7. InFlightHasCaller'
    <3> SUFFICES ASSUME NEW t \in Tasks, InFlight(t)', ~abandoned[t]
                 PROVE  \E d \in Clients :
                          /\ cpc'[d] \in {"setstatus", "signal", "poll"}
                          /\ accepted'[d] /\ ctask'[d] = t
      BY DEF InFlightHasCaller
    <3>1. CASE t = ctask[c]
      BY <3>1 DEF TypeOK
    <3>2. CASE t # ctask[c]
      <4>1. InFlight(t)
        BY <2>2, <3>2 DEF InFlight
      <4>2. PICK d \in Clients : /\ cpc[d] \in {"setstatus", "signal", "poll"}
                                 /\ accepted[d] /\ ctask[d] = t
        BY <4>1 DEF InFlightHasCaller
      <4> QED
        BY <3>2, <4>2 DEF TypeOK
    <3> QED
      BY <3>1, <3>2
  <2>8. NotCompletedInFlight'
    BY <2>1, <2>2 DEF TypeOK, InFlight, NotCompletedInFlight, CallerHasTask,
       OneCallerPerTask
  <2> QED
    BY <2>3, <2>4, <2>5, <2>6, <2>7, <2>8
<1> QED
  BY <1>1, <1>2, <1>3

\* The initial state satisfies the invariant.
LEMMA InitIInv == Init => IInv
<1> SUFFICES ASSUME Init PROVE IInv
  OBVIOUS
<1> USE WorkerAssumption DEF Init
<1>1. TypeOK
  <2>1. queuePos \in 0 .. QueueSize - 1
    OBVIOUS
  <2>2. slots \in [0 .. QueueSize - 1 -> Tasks \cup {NoTask}]
    OBVIOUS
  <2>3. policy \in [Clients -> {"giveup", "ignore", "retry"}]
    OBVIOUS
  <2>4. /\ status \in [Tasks -> TaskStatus]
        /\ cpc \in [Clients -> ClientAt]
        /\ dpc \in OwnerAt /\ wpc \in WorkerAt
    BY DEF TaskStatus, ClientAt, OwnerAt, WorkerAt
  <2> QED
    BY <2>1, <2>2, <2>3, <2>4 DEF TypeOK
<1>2. WorkerHoldsTask /\ QueueHoldsTasks /\ CallerHasTask /\ OneCallerPerTask
      /\ TakenByPush
  BY DEF WorkerHoldsTask, QueueHoldsTasks, CallerHasTask, OneCallerPerTask,
     TakenByPush
<1>3. \A t \in Tasks : ~Queued(t) /\ ~Held(t) /\ ~Finishing(t)
  BY DEF Queued, Held, Finishing
<1>4. EveryPushRunsOnce
  BY <1>3 DEF EveryPushRunsOnce
<1>5. InFlightHasCaller /\ NotCompletedInFlight
  BY <1>3 DEF InFlight, InFlightHasCaller, NotCompletedInFlight
<1> QED
  BY <1>1, <1>2, <1>4, <1>5 DEF IInv

\* Every step preserves the invariant.
LEMMA NextIInv == IInv /\ [Next]_vars => IInv'
<1> SUFFICES ASSUME IInv, [Next]_vars PROVE IInv'
  OBVIOUS
<1>1. CASE UNCHANGED vars
  BY <1>1 DEF vars, clientVars, IInv, TypeOK, WorkerHoldsTask, QueueHoldsTasks,
     EveryPushRunsOnce, CallerHasTask, OneCallerPerTask, TakenByPush,
     InFlightHasCaller, NotCompletedInFlight, InFlight, Queued, Held, Finishing
<1>2. CASE Worker \/ Wake
  BY <1>2, WorkerControlStep, PopStep, BeginTaskStep, RunTaskStep,
     CompleteTaskStep DEF Worker
<1>3. ASSUME NEW c \in Clients, ClientStep(c) \/ Abandon(c) PROVE IInv'
  BY <1>3, CallerControlStep, PushStep, SetWaitingStep, SeeCompletedStep,
     AbandonStep DEF ClientStep
<1>4. ASSUME NEW c \in Clients, NEW t \in Tasks, NEW p \in Policies,
             Submit(c, t, p)
      PROVE  IInv'
  BY <1>4, SubmitStep
<1>5. CASE SetThreadType \/ Destroy \/ Owner
  BY <1>5, OwnerControlStep DEF Owner
<1> QED
  BY <1>1, <1>2, <1>3, <1>4, <1>5 DEF Next

\* The strengthened invariant holds of the thread, its callers and its owner.
THEOREM Invariance == Spec => []IInv
  BY InitIInv, NextIInv, PTL DEF Spec

\* The queue index stays inside m_lppvQueue and the worker never runs NULL.
THEOREM TypeCorrect == Spec => []TypeOK
  BY Invariance, PTL DEF IInv

\* No task that Event took is lost, and none runs twice for one push.
THEOREM PushRunsOnce == Spec => []EveryPushRunsOnce
  BY Invariance, PTL DEF IInv

\* A caller that finds its task Completed is not looking at an earlier run.
THEOREM CompletionFresh == Spec => []CompletionIsFresh
<1>1. IInv => CompletionIsFresh
  <2> SUFFICES ASSUME IInv, NEW c \in Clients, cpc[c] = "poll", accepted[c],
                      status[ctask[c]] = "Completed"
               PROVE  /\ ran[ctask[c]] = pushed[ctask[c]]
                      /\ ~Queued(ctask[c]) /\ ~Held(ctask[c])
                      /\ ~Finishing(ctask[c])
    BY DEF CompletionIsFresh
  <2>1. ~InFlight(ctask[c]) /\ ctask[c] \in Tasks
    BY DEF IInv, NotCompletedInFlight, CallerHasTask
  <2> QED
    BY <2>1 DEF IInv, TypeOK, InFlight, EveryPushRunsOnce
<1> QED
  BY <1>1, Invariance, PTL

-----------------------------------------------------------------------------
(* The refinement.                                                         *)

\* A task is owed exactly while it is queued or held.
LEMMA OwedInFlight ==
  ASSUME IInv, NEW t \in Tasks PROVE t \in Owed <=> Queued(t) \/ Held(t)
  BY DEF IInv, TypeOK, EveryPushRunsOnce, Owed

\* Every step is a step of TaskExecutor or leaves its variables alone.
LEMMA StepRefines ==
  ASSUME IInv, IInv', [Next]_vars
  PROVE  [Executor!Next]_(Executor!vars)
<1> USE DEF Executor!vars
<1>1. CASE UNCHANGED <<pushed, ran, cpc, accepted, ctask, abandoned>>
  BY <1>1 DEF Owed, Waiting, Left
<1>2. CASE RunTask
  <2>1. processor \in Tasks /\ processor \in Owed /\ Held(processor)
    BY <1>2, OwedInFlight DEF IInv, WorkerHoldsTask, RunTask, Held
  <2>2. Owed' = Owed \ {processor}
    BY <1>2, <2>1 DEF IInv, TypeOK, RunTask, Owed, EveryPushRunsOnce
  <2>3. UNCHANGED <<Waiting, Left>>
    BY <1>2 DEF RunTask, clientVars, Waiting, Left
  <2> QED
    BY <2>1, <2>2, <2>3 DEF Executor!Next, Executor!Run
<1>3. ASSUME NEW c \in Clients, Push(c), ~Full
      PROVE  Executor!Accept(c, ctask[c])
  <2> USE <1>3 DEF Push, Full
  <2>1. /\ ctask[c] \in Tasks /\ ctask[c] # NoTask /\ ~accepted[c]
        /\ ~abandoned[ctask[c]] /\ cpc[c] = "push"
    BY WorkerAssumption DEF IInv, CallerHasTask, TakenByPush
  <2>2. ~InFlight(ctask[c])
    BY <2>1 DEF IInv, OneCallerPerTask, TakenByPush, InFlightHasCaller
  <2>3. ctask[c] \notin Owed /\ ctask[c] \notin Left
    BY <2>1, <2>2, OwedInFlight DEF InFlight, Left
  <2>4. Waiting[c] = NoTask /\ \A d \in Clients : Waiting[d] # ctask[c]
    BY <2>1 DEF IInv, OneCallerPerTask, Waiting
  <2>5. Owed' = Owed \cup {ctask[c]}
    BY <2>1, <2>2 DEF IInv, TypeOK, EveryPushRunsOnce, InFlight, Owed
  <2>6. Waiting' = [Waiting EXCEPT ![c] = ctask[c]]
    BY <2>1 DEF IInv, TypeOK, Waiting, Goto
  <2>7. UNCHANGED Left
    BY DEF Left
  <2> QED
    BY <2>3, <2>4, <2>5, <2>6, <2>7 DEF Executor!Accept
<1>4. ASSUME NEW c \in Clients, SeeCompleted(c), accepted[c]
      PROVE  Executor!Return(c)
  <2> USE <1>4 DEF SeeCompleted
  <2>1. ctask[c] \in Tasks /\ ctask[c] # NoTask /\ cpc[c] = "poll"
    BY WorkerAssumption DEF IInv, CallerHasTask
  <2>2. ~InFlight(ctask[c])
    BY <2>1 DEF IInv, NotCompletedInFlight
  <2>3. Waiting[c] = ctask[c] /\ ctask[c] \notin Owed
    BY <2>1, <2>2, OwedInFlight DEF InFlight, Waiting
  <2>4. Waiting' = [Waiting EXCEPT ![c] = NoTask]
    BY <2>1 DEF IInv, TypeOK, Waiting, Goto
  <2>5. UNCHANGED <<Owed, Left>>
    BY DEF Owed, Left
  <2> QED
    BY <2>1, <2>3, <2>4, <2>5 DEF Executor!Return
<1>5. ASSUME NEW c \in Clients, Abandon(c)
      PROVE  Executor!Leave(c)
  <2> USE <1>5 DEF Abandon
  <2>1. /\ ctask[c] \in Tasks /\ ctask[c] # NoTask /\ cpc[c] = "poll"
        /\ accepted[c]
    BY WorkerAssumption DEF IInv, CallerHasTask
  <2>2. Waiting[c] = ctask[c]
    BY <2>1 DEF Waiting
  <2>3. Waiting' = [Waiting EXCEPT ![c] = NoTask]
    BY <2>1 DEF IInv, TypeOK, Waiting, Goto
  <2>4. Left' = Left \cup {ctask[c]} /\ UNCHANGED Owed
    BY <2>1 DEF IInv, TypeOK, Left, Owed
  <2> QED
    BY <2>1, <2>2, <2>3, <2>4 DEF Executor!Leave
<1>6. ASSUME NEW c \in Clients,
             \/ EventTest(c) \/ Ping(c) \/ Recheck(c) \/ Rejected(c)
             \/ (Push(c) /\ Full) \/ SetWaiting(c) \/ Signal(c)
             \/ (SeeCompleted(c) /\ ~accepted[c])
      PROVE  UNCHANGED <<Owed, Waiting, Left>>
  <2>1. UNCHANGED <<pushed, ran, abandoned, ctask, accepted>>
    BY <1>6 DEF EventTest, Ping, Recheck, Rejected, Push, SetWaiting, Signal,
       SeeCompleted
  <2>2. \A d \in Clients :
          (cpc[d] \in {"setstatus", "signal", "poll"} /\ accepted[d])
            <=> (cpc'[d] \in {"setstatus", "signal", "poll"} /\ accepted[d])
    BY <1>6 DEF EventTest, Ping, Recheck, Rejected, Push, SetWaiting, Signal,
       SeeCompleted, Goto, IInv, TypeOK, TakenByPush
  <2> QED
    BY <2>1, <2>2 DEF Owed, Waiting, Left
<1>7. ASSUME NEW c \in Clients, NEW t \in Tasks, NEW p \in Policies,
             Submit(c, t, p)
      PROVE  UNCHANGED <<Owed, Waiting, Left>>
  BY <1>7 DEF Submit, Goto, Owed, Waiting, Left, IInv, TypeOK
<1>8. CASE \/ WorkerStart \/ EnterWait \/ Wake \/ KernelProcess \/ TestEmpty
           \/ Pop \/ BeginTask \/ CompleteTask \/ WorkerExit
           \/ SetThreadType \/ Destroy \/ Owner \/ UNCHANGED vars
  BY <1>8, <1>1 DEF WorkerStart, EnterWait, Wake, KernelProcess, TestEmpty, Pop,
     BeginTask, CompleteTask, WorkerExit, SetThreadType, Destroy, Owner, StopRunning,
     StopSignal, StopDone, clientVars, vars
<1>9. ASSUME NEW c \in Clients, ClientStep(c) \/ Abandon(c)
      PROVE  [Executor!Next]_(Executor!vars)
  <2>1. ctask[c] \in Tasks \/ ~Push(c)
    BY DEF IInv, CallerHasTask, Push
  <2> QED
    BY <1>3, <1>4, <1>5, <1>6, <1>9, <2>1 DEF ClientStep, Executor!Next
<1> QED
  BY <1>2, <1>7, <1>8, <1>9 DEF Next, Worker

\* For its callers the worker thread is a TaskExecutor: whatever happens to the
\* thread, a task is owed at most one run and nobody returns before it.
THEOREM Refinement == Spec => ImplementsExecutor
<1>1. Init => Executor!Init
  BY DEF Init, Executor!Init, Owed, Waiting, Left
<1> QED
  BY <1>1, StepRefines, Invariance, PTL DEF Spec, ImplementsExecutor,
     Executor!Spec

-----------------------------------------------------------------------------
(* An event that remembers.                                                *)

\* Before the thread has begun to run nobody gets past the test of m_bRunning.
NotStarted ==
  wpc = "created" =>
    /\ ~running /\ queuePos = 0
    /\ \A c \in Clients : cpc[c] \notin {"push", "setstatus", "signal"} /\ ~accepted[c]

\* A thread that has not begun has no task.
LEMMA NotStartedStep ==
  ASSUME TypeOK, NotStarted, [Next]_vars
  PROVE  NotStarted'
<1> USE DEF NotStarted, TypeOK, clientVars
<1>1. CASE UNCHANGED vars
  BY <1>1 DEF vars
<1>2. CASE Worker \/ Wake
  BY <1>2 DEF Worker, WorkerStart, EnterWait, Wake, KernelProcess, TestEmpty, Pop, BeginTask,
     RunTask, CompleteTask, WorkerExit
<1>3. CASE SetThreadType \/ Destroy \/ Owner
  BY <1>3 DEF SetThreadType, Destroy, Owner, StopRunning, StopSignal, StopDone
<1>4. ASSUME NEW c \in Clients, ClientStep(c) \/ Abandon(c) PROVE NotStarted'
  BY <1>4 DEF ClientStep, EventTest, Ping, Recheck, Push, SetWaiting, Signal, Rejected,
     SeeCompleted, Abandon, Goto
<1>5. ASSUME NEW c \in Clients, NEW t \in Tasks, NEW p \in Policies, Submit(c, t, p)
      PROVE  NotStarted'
  BY <1>5 DEF Submit, Goto
<1> QED
  BY <1>1, <1>2, <1>3, <1>4, <1>5 DEF Next

\* The worker comes to its wait with an empty queue, and every push is followed by a
\* signal that stays.
LEMMA NoSleepStep ==
  ASSUME Remembers = TRUE, TypeOK, NotStarted, NoSleepOnWork, [Next]_vars
  PROVE  NoSleepOnWork'
<1> USE DEF NoSleepOnWork, TypeOK, clientVars
<1>1. CASE UNCHANGED vars
  BY <1>1 DEF vars
<1>2. CASE Worker \/ Wake
  BY <1>2 DEF NotStarted, Worker, WorkerStart, EnterWait, Wake, KernelProcess, TestEmpty, Pop,
     BeginTask, RunTask, CompleteTask, WorkerExit
<1>3. CASE SetThreadType \/ Destroy \/ Owner
  BY <1>3 DEF SetThreadType, Destroy, Owner, StopRunning, StopSignal, StopDone, SetEvent
<1>4. ASSUME NEW c \in Clients, ClientStep(c) \/ Abandon(c) PROVE NoSleepOnWork'
  <2>1. CASE Push(c) \/ Signal(c)
    BY <2>1 DEF Push, Signal, SetEvent, Goto
  <2>2. CASE ~(Push(c) \/ Signal(c))
    BY <1>4, <2>2 DEF ClientStep, EventTest, Ping, Recheck, SetWaiting, Rejected,
       SeeCompleted, Abandon, Goto
  <2> QED
    BY <2>1, <2>2
<1>5. ASSUME NEW c \in Clients, NEW t \in Tasks, NEW p \in Policies, Submit(c, t, p)
      PROVE  NoSleepOnWork'
  BY <1>5 DEF Submit, Goto
<1> QED
  BY <1>1, <1>2, <1>3, <1>4, <1>5 DEF Next

\* With an event that keeps its signal the worker never sleeps through a task, however
\* many callers there are.
THEOREM NoTaskSleeps ==
  ASSUME Remembers = TRUE
  PROVE  Spec => []NoSleepOnWork
<1>1. Init => NotStarted /\ NoSleepOnWork
  BY DEF Init, NotStarted, NoSleepOnWork
<1>2. IInv => TypeOK
  BY DEF IInv
<1>3. TypeOK /\ NotStarted /\ NoSleepOnWork /\ [Next]_vars => NotStarted' /\ NoSleepOnWork'
  BY NotStartedStep, NoSleepStep
<1> QED
  BY <1>1, <1>2, <1>3, Invariance, PTL DEF Spec

-----------------------------------------------------------------------------
(* The end of the thread.                                                  *)

\* What the owner may conclude from m_bRunning and m_state.
Living ==
  /\ state = "Down" => wpc \in {"created", "down"}
  /\ dpc \in {"new", "using"} /\ ~running => wpc \in {"created", "down"}
  /\ dpc \notin {"new", "using"} => wpc # "created"
  /\ dpc \in {"signal", "wait"} => ~running
  /\ dpc = "wait" => signaled \/ wpc \in {"kernel", "exit", "down"}

\* Before the thread has begun to run, callers that do not give up are still with it.
NobodyBack ==
  /\ wpc = "created" =>
       /\ \A t \in Tasks : status[t] # "Completed"
       /\ \A c \in Clients : cpc[c] = "idle" => ctask[c] = NoTask
  /\ \A c \in Clients : cpc[c] # "idle" => policy[c] # "giveup"

\* Callers who do not give up come back from a thread that has run.
LEMMA NobodyBackStep ==
  ASSUME "giveup" \notin Policies, IInv, NotStarted, NobodyBack, [Next]_vars
  PROVE  NobodyBack'
<1> USE DEF IInv, NobodyBack, TypeOK, clientVars
<1>1. CASE UNCHANGED vars
  BY <1>1 DEF vars
<1>2. CASE Worker \/ Wake
  BY <1>2 DEF Worker, WorkerStart, EnterWait, Wake, KernelProcess, TestEmpty, Pop, BeginTask,
     RunTask, CompleteTask, WorkerExit
<1>3. CASE SetThreadType \/ Destroy \/ Owner
  BY <1>3 DEF SetThreadType, Destroy, Owner, StopRunning, StopSignal, StopDone
<1>4. ASSUME NEW c \in Clients, ClientStep(c) \/ Abandon(c) PROVE NobodyBack'
  <2>1. CASE SetWaiting(c) \/ SeeCompleted(c) \/ Abandon(c)
    BY <2>1 DEF NotStarted, CallerHasTask, SetWaiting, SeeCompleted, Abandon, Goto
  <2>2. CASE Rejected(c)
    BY <2>2 DEF Rejected, Goto
  <2>3. CASE EventTest(c) \/ Ping(c) \/ Recheck(c) \/ Push(c) \/ Signal(c)
    BY <2>3 DEF EventTest, Ping, Recheck, Push, Signal, Goto
  <2> QED
    BY <1>4, <2>1, <2>2, <2>3 DEF ClientStep
<1>5. ASSUME NEW c \in Clients, NEW t \in Tasks, NEW p \in Policies, Submit(c, t, p)
      PROVE  NobodyBack'
  BY <1>5 DEF Submit, Goto
<1> QED
  BY <1>1, <1>2, <1>3, <1>4, <1>5 DEF Next

\* The thread goes down only through its exit, and Stop is called on one that has begun.
LEMMA LivingStep ==
  ASSUME Remembers = TRUE, TypeOK, NobodyBack, Living, [Next]_vars
  PROVE  Living'
<1> USE DEF Living, TypeOK, clientVars
<1>1. CASE UNCHANGED vars
  BY <1>1 DEF vars
<1>2. CASE Worker \/ Wake
  BY <1>2 DEF Worker, WorkerStart, EnterWait, Wake, KernelProcess, TestEmpty, Pop, BeginTask,
     RunTask, CompleteTask, WorkerExit
<1>3. CASE SetThreadType \/ Destroy \/ Owner
  <2>1. CASE SetThreadType
    BY <2>1 DEF SetThreadType
  <2>2. CASE Destroy
    <3>1. wpc # "created" /\ UNCHANGED <<state, running, wpc, signaled>>
          /\ dpc' \in {"stop", "done"}
      BY <2>2 DEF NobodyBack, Destroy
    <3> QED
      BY <3>1
  <2>3. CASE StopRunning \/ StopDone
    BY <2>3 DEF StopRunning, StopDone
  <2>4. CASE StopSignal
    <3>1. signaled' = TRUE
      BY <2>4 DEF StopSignal, SetEvent
    <3> QED
      BY <2>4, <3>1 DEF StopSignal
  <2> QED
    BY <1>3, <2>1, <2>2, <2>3, <2>4 DEF Owner
<1>4. ASSUME NEW c \in Clients, ClientStep(c) \/ Abandon(c) PROVE Living'
  BY <1>4 DEF ClientStep, EventTest, Ping, Recheck, Push, SetWaiting, Signal, Rejected,
     SeeCompleted, Abandon, SetEvent
<1>5. ASSUME NEW c \in Clients, NEW t \in Tasks, NEW p \in Policies, Submit(c, t, p)
      PROVE  Living'
  BY <1>5 DEF Submit
<1> QED
  BY <1>1, <1>2, <1>3, <1>4, <1>5 DEF Next

\* The object is freed when the thread is down, which it then stays.
LEMMA DestroyedStep ==
  ASSUME TypeOK, NobodyBack, Living, DestroyedOnlyWhenDown, [Next]_vars
  PROVE  DestroyedOnlyWhenDown'
<1> USE DEF DestroyedOnlyWhenDown, TypeOK, clientVars
<1>1. CASE UNCHANGED vars
  BY <1>1 DEF vars
<1>2. CASE Worker \/ Wake
  BY <1>2 DEF Worker, WorkerStart, EnterWait, Wake, KernelProcess, TestEmpty, Pop, BeginTask,
     RunTask, CompleteTask, WorkerExit
<1>3. CASE SetThreadType \/ Destroy \/ Owner
  BY <1>3 DEF NobodyBack, Living, SetThreadType, Destroy, Owner, StopRunning, StopSignal,
     StopDone
<1>4. ASSUME NEW c \in Clients, ClientStep(c) \/ Abandon(c) PROVE DestroyedOnlyWhenDown'
  BY <1>4 DEF ClientStep, EventTest, Ping, Recheck, Push, SetWaiting, Signal, Rejected,
     SeeCompleted, Abandon
<1>5. ASSUME NEW c \in Clients, NEW t \in Tasks, NEW p \in Policies, Submit(c, t, p)
      PROVE  DestroyedOnlyWhenDown'
  BY <1>5 DEF Submit
<1> QED
  BY <1>1, <1>2, <1>3, <1>4, <1>5 DEF Next

\* With an event that keeps its signal, and callers who poll until their task is over,
\* ~CThread frees what the worker uses only when the worker is gone.
THEOREM GoneBeforeFreed ==
  ASSUME Remembers = TRUE, "giveup" \notin Policies
  PROVE  Spec => []DestroyedOnlyWhenDown
<1>1. Init => NotStarted /\ NobodyBack /\ Living /\ DestroyedOnlyWhenDown
  BY DEF Init, NotStarted, NobodyBack, Living, DestroyedOnlyWhenDown
<1>2. IInv => TypeOK
  BY DEF IInv
<1>3. IInv /\ NotStarted /\ NobodyBack /\ Living /\ DestroyedOnlyWhenDown /\ [Next]_vars
        => NotStarted' /\ NobodyBack' /\ Living' /\ DestroyedOnlyWhenDown'
  BY <1>2, NotStartedStep, NobodyBackStep, LivingStep, DestroyedStep
<1> QED
  BY <1>1, <1>3, Invariance, PTL DEF Spec

-----------------------------------------------------------------------------
(* One caller.                                                             *)

\* Who is rejected comes before the first run, and while there is a caller inside Event
\* the thread has begun or has no task.
EarlyRejection ==
  /\ wpc = "created" => \A t \in Tasks : pushed[t] = 0
  /\ \A c \in Clients : cpc[c] = "rejected" => \A t \in Tasks : pushed[t] = 0
  /\ \A c \in Clients : cpc[c] # "idle" => dpc = "using"
  /\ dpc \in {"new", "using"} =>
       (~running => wpc = "created") /\ wpc \notin {"completeFail", "exit", "down"}

\* There is room for a task that is not in the queue, because every other task is there
\* at most once.
LEMMA RoomToPush ==
  ASSUME IsFiniteSet(Tasks), Cardinality(Tasks) < QueueSize, IInv,
         NEW c \in Clients, cpc[c] = "push"
  PROVE  ~Full
<1> DEFINE Places == 0 .. queuePos - 1
           Others == Tasks \ {ctask[c]}
           held == [i \in Places |-> slots[i]]
<1>1. ctask[c] \in Tasks /\ ~Queued(ctask[c]) /\ queuePos \in Nat
  <2>1. ctask[c] \in Tasks /\ ~InFlight(ctask[c])
    BY DEF IInv, CallerHasTask, OneCallerPerTask, TakenByPush, InFlightHasCaller
  <2> QED
    BY <2>1, WorkerAssumption DEF IInv, TypeOK, InFlight
<1>2. held \in [Places -> Others]
  BY <1>1 DEF IInv, QueueHoldsTasks, Queued
<1>3. \A i, j \in Places : held[i] = held[j] => i = j
  BY <1>2 DEF IInv, QueueHoldsTasks, EveryPushRunsOnce
<1>4. IsFiniteSet(Others) /\ Cardinality(Others) = Cardinality(Tasks) - 1
  BY <1>1, FS_RemoveElement
<1>5. IsFiniteSet(Places) /\ Cardinality(Places) = queuePos
  BY <1>1, FS_Interval
<1>6. Cardinality(Tasks) \in Nat /\ Cardinality(Others) \in Nat
  BY <1>4, FS_CardinalityType
<1>7. ~(Cardinality(Others) < Cardinality(Places))
  <2> HIDE DEF Places, Others, held
  <2> QED
    BY <1>2, <1>3, <1>4, <1>5, FS_PigeonHole
<1> QED
  BY <1>1, <1>4, <1>5, <1>6, <1>7, WorkerAssumption DEF Full

\* The only caller is refused by a thread that has not begun, or not at all.
LEMMA EarlyRejectionStep ==
  ASSUME \A c, d \in Clients : c = d, TaskReturns \subseteq {TRUE},
         IsFiniteSet(Tasks), Cardinality(Tasks) < QueueSize,
         IInv, NotStarted, EarlyRejection, [Next]_vars
  PROVE  EarlyRejection'
<1> USE DEF IInv, EarlyRejection, TypeOK, clientVars
<1>1. CASE UNCHANGED vars
  BY <1>1 DEF vars
<1>2. CASE Worker \/ Wake
  BY <1>2 DEF Worker, WorkerStart, EnterWait, Wake, KernelProcess, TestEmpty, Pop, BeginTask,
     RunTask, CompleteTask, WorkerExit
<1>3. CASE SetThreadType \/ Destroy \/ Owner
  BY <1>3 DEF SetThreadType, Destroy, Owner, StopRunning, StopSignal, StopDone
<1>4. ASSUME NEW c \in Clients, ClientStep(c) \/ Abandon(c) PROVE EarlyRejection'
  <2>1. CASE Push(c)
    <3>1. ~Full
      BY <2>1, RoomToPush DEF Push
    <3> QED
      BY <2>1, <3>1 DEF NotStarted, Push, Goto
  <2>2. CASE ~Push(c)
    BY <1>4, <2>2 DEF ClientStep, EventTest, Ping, Recheck, SetWaiting, Signal, Rejected,
       SeeCompleted, Abandon, Goto
  <2> QED
    BY <2>1, <2>2
<1>5. ASSUME NEW c \in Clients, NEW t \in Tasks, NEW p \in Policies, Submit(c, t, p)
      PROVE  EarlyRejection'
  BY <1>5 DEF Submit, Goto
<1> QED
  BY <1>1, <1>2, <1>3, <1>4, <1>5 DEF Next

\* A single caller, whose tasks all fit in the queue and never end the thread, is not
\* refused once a task has run: what CreateFile and UploadFileBlocks rely on.
THEOREM NeverRefusedAfterRun ==
  ASSUME \A c, d \in Clients : c = d, TaskReturns \subseteq {TRUE},
         IsFiniteSet(Tasks), Cardinality(Tasks) < QueueSize
  PROVE  Spec => []RejectedOnlyBeforeFirstRun
<1>1. Init => NotStarted /\ EarlyRejection
  BY DEF Init, NotStarted, EarlyRejection
<1>2. IInv /\ NotStarted /\ EarlyRejection /\ [Next]_vars => NotStarted' /\ EarlyRejection'
  BY NotStartedStep, EarlyRejectionStep DEF IInv
<1>3. IInv /\ EarlyRejection => RejectedOnlyBeforeFirstRun
  <2> SUFFICES ASSUME IInv, NEW t \in Tasks, pushed[t] = 0
               PROVE  ran[t] = 0
    BY DEF EarlyRejection, RejectedOnlyBeforeFirstRun
  <2>1. ran[t] \in Nat /\ pushed[t] = ran[t] + (IF Queued(t) \/ Held(t) THEN 1 ELSE 0)
    BY DEF IInv, TypeOK, EveryPushRunsOnce
  <2> QED
    BY <2>1
<1> QED
  BY <1>1, <1>2, <1>3, Invariance, PTL DEF Spec
=============================================================================
