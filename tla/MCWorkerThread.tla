--------------------------- MODULE MCWorkerThread ---------------------------
(* TLC instances of WorkerThread: tasks and callers are model values. *)
EXTENDS WorkerThreadProps

AllReturns == {TRUE, FALSE}
AlwaysTrue == {TRUE}
AllPolicies == {"giveup", "ignore", "retry"}
Ignoring == {"ignore"}
=============================================================================
