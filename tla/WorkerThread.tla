---------------------------- MODULE WorkerThread ----------------------------
(***************************************************************************)
(* CThread / CEventClass / CTask (src/Util) and CommandThread              *)
(* (src/DioCLI/DiomedeTask): a worker thread that runs tasks handed over   *)
(* by other threads, which then poll the status of their task.             *)
(*                                                                         *)
(* Every action is one critical section of m_mutex (or of the task's own   *)
(* mutex), or one call on the event, in the order the code makes them.     *)
(***************************************************************************)
EXTENDS Naturals

CONSTANTS
  Clients,       \* threads that call Event on this CThread
  Tasks,         \* CTask objects
  NoTask,        \* the NULL task pointer
  QueueSize,     \* m_chQueue, the slots of the task array
  Remembers,     \* TRUE: Windows auto-reset event; FALSE: POSIX condition variable
  Policies,      \* what the callers do when Event returns FALSE
  TaskReturns,   \* the values Task() may return
  MayAbandon,    \* a caller may leave its polling loop early (ResumeCountdown)
  MaxSubmits     \* bound: submissions of one task

ASSUME WorkerAssumption ==
  /\ NoTask \notin Tasks
  /\ QueueSize \in Nat \ {0}
  /\ Remembers \in BOOLEAN
  /\ Policies \subseteq {"giveup", "ignore", "retry"}
  /\ TaskReturns \subseteq BOOLEAN
  /\ MayAbandon \in BOOLEAN
  /\ MaxSubmits \in Nat

VARIABLES
  running,    \* m_bRunning
  state,      \* m_state, as Stop reads it
  slots,      \* m_lppvQueue
  queuePos,   \* m_queuePos
  processor,  \* m_lpvProcessor
  wpc,        \* where the worker is in _THKERNEL / KernelProcess / OnTask
  signaled,   \* the event is set and the wait has not consumed it
  freed,      \* ~CThread has returned
  status,     \* CTask::m_state of each task
  cpc,        \* where each client is in Event and its polling loop
  ctask,      \* the task a client has handed over
  policy,     \* what the client does when Event returns FALSE
  accepted,   \* Event pushed the client's task
  dpc,        \* where the owner is: constructor, use, ~CThread and Stop
  pushed,     \* history: how often Push stored the task
  ran,        \* history: how often Task() of the task returned
  abandoned   \* history: the task's caller left without waiting for it

clientVars == <<cpc, ctask, policy, accepted, abandoned>>
vars == <<running, state, slots, queuePos, processor, wpc, signaled, freed,
          status, cpc, ctask, policy, accepted, dpc, pushed, ran, abandoned>>

TaskStatus == {"NotSubmitted", "WaitingOnQueue", "BeingProcessed", "Completed"}
WorkerAt == {"created", "towait", "blocked", "kernel", "loop", "pop", "begin",
             "task", "completeOk", "completeFail", "exit", "down"}
ClientAt == {"idle", "event", "ping", "recheck", "push", "setstatus", "signal",
             "rejected", "poll"}
OwnerAt == {"new", "using", "stop", "signal", "wait", "done"}

Init ==
  /\ running = FALSE /\ state = "Down"
  /\ slots = [i \in 0 .. QueueSize - 1 |-> NoTask] /\ queuePos = 0
  /\ processor = NoTask /\ wpc = "created"
  /\ signaled = FALSE /\ freed = FALSE
  /\ status = [t \in Tasks |-> "NotSubmitted"]
  /\ cpc = [c \in Clients |-> "idle"] /\ ctask = [c \in Clients |-> NoTask]
  /\ policy = [c \in Clients |-> "giveup"]
  /\ accepted = [c \in Clients |-> FALSE]
  /\ dpc = "new"
  /\ pushed = [t \in Tasks |-> 0] /\ ran = [t \in Tasks |-> 0]
  /\ abandoned = [t \in Tasks |-> FALSE]

-----------------------------------------------------------------------------
(* CEventClass.  A condition signal reaches a thread that is blocked at    *)
(* that moment and is otherwise gone; the Windows event stays set.         *)

SetEvent == signaled' = (signaled \/ Remembers \/ wpc = "blocked")

EnterWait ==
  /\ wpc = "towait"
  /\ wpc' = "blocked"
  /\ UNCHANGED <<running, state, slots, queuePos, processor, signaled, freed,
                 status, clientVars, dpc, pushed, ran>>

\* The wait ends; pthread_cond_wait may also end without a signal, and Wait
\* has no predicate to test.
Wake ==
  /\ wpc = "blocked"
  /\ signaled \/ ~Remembers
  /\ wpc' = "kernel" /\ signaled' = FALSE
  /\ UNCHANGED <<running, state, slots, queuePos, processor, freed, status,
                 clientVars, dpc, pushed, ran>>

-----------------------------------------------------------------------------
(* The worker: _THKERNEL, KernelProcess, Empty, Pop, OnTask.               *)

WorkerStart ==
  /\ wpc = "created"
  /\ running' = TRUE /\ state' = "Waiting" /\ wpc' = "towait"
  /\ UNCHANGED <<slots, queuePos, processor, signaled, freed, status,
                 clientVars, dpc, pushed, ran>>

KernelProcess ==
  /\ wpc = "kernel"
  /\ IF running THEN state' = "Busy" /\ wpc' = "loop"
                ELSE state' = "ShuttingDown" /\ wpc' = "exit"
  /\ UNCHANGED <<running, slots, queuePos, processor, signaled, freed, status,
                 clientVars, dpc, pushed, ran>>

\* while( !Empty() ): CommandThread::OnTask() does nothing when nothing waits.
TestEmpty ==
  /\ wpc = "loop"
  /\ IF queuePos > 0
     THEN wpc' = "pop" /\ UNCHANGED <<processor, state>>
     ELSE wpc' = "towait" /\ processor' = NoTask /\ state' = "Waiting"
  /\ UNCHANGED <<running, slots, queuePos, signaled, freed, status,
                 clientVars, dpc, pushed, ran>>

\* Mutant of Pop: m_queuePos is not decremented.
PopKept ==
  /\ wpc = "pop"
  /\ processor' = slots[queuePos - 1]
  /\ wpc' = "begin"
  /\ UNCHANGED <<running, state, slots, queuePos, signaled, freed, status,
                 clientVars, dpc, pushed, ran>>

\* The queue is never empty here, which the unsigned m_queuePos-1 < 0 would
\* not notice: only the worker takes tasks out.
Pop ==
  /\ wpc = "pop"
  /\ queuePos' = queuePos - 1 /\ processor' = slots[queuePos - 1]
  /\ wpc' = "begin"
  /\ UNCHANGED <<running, state, slots, signaled, freed, status, clientVars,
                 dpc, pushed, ran>>

BeginTask ==
  /\ wpc = "begin"
  /\ status' = [status EXCEPT ![processor] = "BeingProcessed"]
  /\ wpc' = "task"
  /\ UNCHANGED <<running, state, slots, queuePos, processor, signaled, freed,
                 clientVars, dpc, pushed, ran>>

RunTask ==
  /\ wpc = "task"
  /\ ran' = [ran EXCEPT ![processor] = @ + 1]
  /\ \E ok \in TaskReturns : wpc' = IF ok THEN "completeOk" ELSE "completeFail"
  /\ UNCHANGED <<running, state, slots, queuePos, processor, signaled, freed,
                 status, clientVars, dpc, pushed>>

\* Mutant of CompleteTask: OnTask's result is lost and ends the thread.
CompleteAndExit ==
  /\ wpc \in {"completeOk", "completeFail"}
  /\ status' = [status EXCEPT ![processor] = "Completed"]
  /\ wpc' = "exit" /\ processor' = NoTask /\ state' = "ShuttingDown"
  /\ UNCHANGED <<running, slots, queuePos, signaled, freed, clientVars, dpc,
                 pushed, ran>>

\* Mutant of CompleteTask: the status stays BeingProcessed.
CompleteSilently ==
  /\ wpc \in {"completeOk", "completeFail"}
  /\ IF wpc = "completeOk"
     THEN wpc' = "loop" /\ UNCHANGED <<processor, state>>
     ELSE wpc' = "exit" /\ processor' = NoTask /\ state' = "ShuttingDown"
  /\ UNCHANGED <<running, slots, queuePos, signaled, freed, status, clientVars,
                 dpc, pushed, ran>>

\* A task that returned FALSE ends the thread: KernelProcess returns FALSE.
CompleteTask ==
  /\ wpc \in {"completeOk", "completeFail"}
  /\ status' = [status EXCEPT ![processor] = "Completed"]
  /\ IF wpc = "completeOk"
     THEN wpc' = "loop" /\ UNCHANGED <<processor, state>>
     ELSE wpc' = "exit" /\ processor' = NoTask /\ state' = "ShuttingDown"
  /\ UNCHANGED <<running, slots, queuePos, signaled, freed, clientVars, dpc,
                 pushed, ran>>

WorkerExit ==
  /\ wpc = "exit"
  /\ state' = "Down" /\ running' = FALSE /\ wpc' = "down"
  /\ UNCHANGED <<slots, queuePos, processor, signaled, freed, status,
                 clientVars, dpc, pushed, ran>>

Worker ==
  \/ WorkerStart \/ EnterWait \/ KernelProcess \/ TestEmpty \/ Pop
  \/ BeginTask \/ RunTask \/ CompleteTask \/ WorkerExit

-----------------------------------------------------------------------------
(* A client: CThread::Event and the polling loop that follows every call.  *)

Goto(c, at) == cpc' = [cpc EXCEPT ![c] = at]

\* A task belongs to one caller at a time; a task whose caller left is a
\* local of that caller and is not handed over again.
Available(t) ==
  /\ ~abandoned[t]
  /\ \A c \in Clients : ctask[c] = t => cpc[c] = "idle"

Submit(c, t, p) ==
  /\ cpc[c] = "idle" /\ dpc = "using" /\ Available(t) /\ pushed[t] < MaxSubmits
  /\ ctask' = [ctask EXCEPT ![c] = t]
  /\ policy' = [policy EXCEPT ![c] = p]
  /\ accepted' = [accepted EXCEPT ![c] = FALSE]
  /\ Goto(c, "event")
  /\ UNCHANGED <<running, state, slots, queuePos, processor, wpc, signaled,
                 freed, status, dpc, pushed, ran, abandoned>>

EventTest(c) ==
  /\ cpc[c] = "event"
  /\ Goto(c, IF running THEN "push" ELSE "ping")
  /\ UNCHANGED <<running, state, slots, queuePos, processor, wpc, signaled,
                 freed, status, ctask, policy, accepted, dpc, pushed, ran,
                 abandoned>>

\* PingThread sees the thread running, or gives up after two idle periods.
Ping(c) ==
  /\ cpc[c] = "ping"
  /\ Goto(c, "recheck")
  /\ UNCHANGED <<running, state, slots, queuePos, processor, wpc, signaled,
                 freed, status, ctask, policy, accepted, dpc, pushed, ran,
                 abandoned>>

Recheck(c) ==
  /\ cpc[c] = "recheck"
  /\ Goto(c, IF running THEN "push" ELSE "rejected")
  /\ UNCHANGED <<running, state, slots, queuePos, processor, wpc, signaled,
                 freed, status, ctask, policy, accepted, dpc, pushed, ran,
                 abandoned>>

\* Mutant of Full: the last slot is used too.
FullLate == queuePos >= QueueSize

Full == queuePos + 1 >= QueueSize

Push(c) ==
  /\ cpc[c] = "push"
  /\ IF Full
     THEN Goto(c, "rejected") /\ UNCHANGED <<slots, queuePos, accepted, pushed>>
     ELSE /\ slots' = [slots EXCEPT ![queuePos] = ctask[c]]
          /\ queuePos' = queuePos + 1
          /\ pushed' = [pushed EXCEPT ![ctask[c]] = @ + 1]
          /\ accepted' = [accepted EXCEPT ![c] = TRUE]
          /\ Goto(c, "setstatus")
  /\ UNCHANGED <<running, state, processor, wpc, signaled, freed, status,
                 ctask, policy, dpc, ran, abandoned>>

\* Mutant of SetWaiting: the task keeps the status of its last run.
SetNothing(c) ==
  /\ cpc[c] = "setstatus"
  /\ Goto(c, "signal")
  /\ UNCHANGED <<running, state, slots, queuePos, processor, wpc, signaled,
                 freed, status, ctask, policy, accepted, dpc, pushed, ran,
                 abandoned>>

SetWaiting(c) ==
  /\ cpc[c] = "setstatus"
  /\ status' = [status EXCEPT ![ctask[c]] = "WaitingOnQueue"]
  /\ Goto(c, "signal")
  /\ UNCHANGED <<running, state, slots, queuePos, processor, wpc, signaled,
                 freed, ctask, policy, accepted, dpc, pushed, ran, abandoned>>

\* Mutant of Signal: Event returns without m_event.Set().
SignalNothing(c) ==
  /\ cpc[c] = "signal"
  /\ Goto(c, "poll")
  /\ UNCHANGED <<running, state, slots, queuePos, processor, wpc, signaled,
                 freed, status, ctask, policy, accepted, dpc, pushed, ran,
                 abandoned>>

Signal(c) ==
  /\ cpc[c] = "signal"
  /\ SetEvent
  /\ Goto(c, "poll")
  /\ UNCHANGED <<running, state, slots, queuePos, processor, wpc, freed,
                 status, ctask, policy, accepted, dpc, pushed, ran, abandoned>>

\* Event returned FALSE.  RepeatLastTask and its relatives return; HandleTask
\* tries once more if the task was never submitted, then polls; CommandThread's
\* Start, CreateFile and UploadFileBlocks do not look at the result.
Rejected(c) ==
  /\ cpc[c] = "rejected"
  /\ \/ policy[c] = "giveup" /\ Goto(c, "idle") /\ UNCHANGED policy
     \/ /\ policy[c] = "retry" /\ status[ctask[c]] = "NotSubmitted"
        /\ Goto(c, "event") /\ policy' = [policy EXCEPT ![c] = "ignore"]
     \/ /\ policy[c] = "retry" /\ status[ctask[c]] # "NotSubmitted"
        /\ Goto(c, "poll") /\ UNCHANGED policy
     \/ policy[c] = "ignore" /\ Goto(c, "poll") /\ UNCHANGED policy
  /\ UNCHANGED <<running, state, slots, queuePos, processor, wpc, signaled,
                 freed, status, ctask, accepted, dpc, pushed, ran, abandoned>>

SeeCompleted(c) ==
  /\ cpc[c] = "poll" /\ status[ctask[c]] = "Completed"
  /\ Goto(c, "idle")
  /\ UNCHANGED <<running, state, slots, queuePos, processor, wpc, signaled,
                 freed, status, ctask, policy, accepted, dpc, pushed, ran,
                 abandoned>>

\* ResumeCountdown leaves when the countdown is over, task done or not.
Abandon(c) ==
  /\ MayAbandon /\ cpc[c] = "poll" /\ accepted[c]
  /\ status[ctask[c]] # "Completed"
  /\ abandoned' = [abandoned EXCEPT ![ctask[c]] = TRUE]
  /\ Goto(c, "idle")
  /\ UNCHANGED <<running, state, slots, queuePos, processor, wpc, signaled,
                 freed, status, ctask, policy, accepted, dpc, pushed, ran>>

ClientStep(c) ==
  \/ EventTest(c) \/ Ping(c) \/ Recheck(c) \/ Push(c) \/ SetWaiting(c)
  \/ Signal(c) \/ Rejected(c) \/ SeeCompleted(c)

-----------------------------------------------------------------------------
(* The owner: ~CThread calls Stop if m_bRunning, which polls for 30 s.     *)

\* The structures that own a thread give it its type, which sets the event;
\* the functions that own one leave the type to the first Event.
SetThreadType ==
  /\ dpc = "new"
  /\ SetEvent \/ UNCHANGED signaled
  /\ dpc' = "using"
  /\ UNCHANGED <<running, state, slots, queuePos, processor, wpc, freed,
                 status, clientVars, pushed, ran>>

\* The thread is a local or a member of its callers, who are done with it; all
\* of them call Event at least once (UploadFileInfo's Start does it for them).
Destroy ==
  /\ dpc = "using" /\ \A c \in Clients : cpc[c] = "idle"
  /\ \E c \in Clients : ctask[c] # NoTask
  /\ IF running THEN dpc' = "stop" /\ UNCHANGED freed
                ELSE dpc' = "done" /\ freed' = TRUE
  /\ UNCHANGED <<running, state, slots, queuePos, processor, wpc, signaled,
                 status, clientVars, pushed, ran>>

StopRunning ==
  /\ dpc = "stop"
  /\ running' = FALSE /\ dpc' = "signal"
  /\ UNCHANGED <<state, slots, queuePos, processor, wpc, signaled, freed,
                 status, clientVars, pushed, ran>>

\* Mutant of StopSignal: Stop does not set the event.
StopSilently ==
  /\ dpc = "signal"
  /\ dpc' = "wait"
  /\ UNCHANGED <<running, state, slots, queuePos, processor, wpc, signaled,
                 freed, status, clientVars, pushed, ran>>

StopSignal ==
  /\ dpc = "signal"
  /\ SetEvent /\ dpc' = "wait"
  /\ UNCHANGED <<running, state, slots, queuePos, processor, wpc, freed,
                 status, clientVars, pushed, ran>>

\* The only task that may still run is the one ResumeCountdown left, which was
\* told to stop: it ends within the 30 s, so Stop times out only on a worker that
\* nothing will wake.
StopDone ==
  /\ dpc = "wait"
  /\ state = "Down" \/ (wpc = "blocked" /\ ~signaled)
  /\ dpc' = "done" /\ freed' = TRUE
  /\ UNCHANGED <<running, state, slots, queuePos, processor, wpc, signaled,
                 status, clientVars, pushed, ran>>

Owner == StopRunning \/ StopSignal \/ StopDone

Next ==
  \/ Worker \/ Wake
  \/ \E c \in Clients : ClientStep(c) \/ Abandon(c)
  \/ \E c \in Clients, t \in Tasks, p \in Policies : Submit(c, t, p)
  \/ SetThreadType \/ Destroy \/ Owner

Spec == Init /\ [][Next]_vars

\* The scheduler runs every thread that can run, a task's call to the service
\* returns, and a delivered signal ends the wait.  Nothing makes a caller
\* submit, a wait end without a signal, or an owner destroy the thread.
Fairness ==
  /\ WF_vars(Worker) /\ WF_vars(signaled /\ Wake)
  /\ \A c \in Clients : WF_vars(ClientStep(c))
  /\ WF_vars(Owner)

FairSpec == Spec /\ Fairness
=============================================================================
