---------------------------- MODULE TaskExecutor ----------------------------
(***************************************************************************)
(* What a caller of CommandThread::Event relies on, without the thread:    *)
(* a task it handed over is owed one run; it comes back from waiting when  *)
(* the run is over, or leaves the task behind.                             *)
(***************************************************************************)
CONSTANTS Clients, Tasks, NoTask

VARIABLES
  owed,      \* the tasks that were accepted and have not run
  waiting,   \* the task each client waits for
  left       \* the tasks whose client left before they were done

vars == <<owed, waiting, left>>

Init ==
  /\ owed = {}
  /\ waiting = [c \in Clients |-> NoTask]
  /\ left = {}

Accept(c, t) ==
  /\ waiting[c] = NoTask /\ t \notin owed /\ t \notin left
  /\ \A d \in Clients : waiting[d] # t
  /\ owed' = owed \cup {t}
  /\ waiting' = [waiting EXCEPT ![c] = t]
  /\ UNCHANGED left

Run(t) ==
  /\ t \in owed
  /\ owed' = owed \ {t}
  /\ UNCHANGED <<waiting, left>>

Return(c) ==
  /\ waiting[c] # NoTask /\ waiting[c] \notin owed
  /\ waiting' = [waiting EXCEPT ![c] = NoTask]
  /\ UNCHANGED <<owed, left>>

Leave(c) ==
  /\ waiting[c] # NoTask
  /\ left' = left \cup {waiting[c]}
  /\ waiting' = [waiting EXCEPT ![c] = NoTask]
  /\ UNCHANGED owed

Next ==
  \/ \E c \in Clients : Return(c) \/ Leave(c) \/ \E t \in Tasks : Accept(c, t)
  \/ \E t \in Tasks : Run(t)

Spec == Init /\ [][Next]_vars
=============================================================================
