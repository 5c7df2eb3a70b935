--------------------------- MODULE ResumeLockProps ---------------------------
(***************************************************************************)
(* What ResumeManager relies on when it calls LockResources.               *)
(***************************************************************************)
EXTENDS ResumeLock

\* The type invariant.
TypeOK ==
  /\ name \in Objects \cup {NoObject}
  /\ locked \in SUBSET Objects
  /\ pc \in [Procs -> LockAt]
  /\ opened \in [Procs -> Objects \cup {NoObject}]
  /\ util \in [Procs -> BOOLEAN]
  /\ nLocks \in [Procs -> Nat]
  /\ depth \in [Procs -> Nat]
  /\ todo \in [Procs -> 0 .. MaxNested]
  /\ takenAt \in [Procs -> Nat]
  /\ leftover \in [Procs -> SUBSET Objects]

\* Whatever CreateLock removes and the scoped lock waits for, two processes never
\* hold the lock of one and the same mutex object.
OneHolderPerObject ==
  \A p, q \in Procs :
    util[p] /\ util[q] /\ opened[p] = opened[q] => p = q

\* The lock is held from the LockResources that took it to the UnlockResources
\* that matches it, whatever nests in between and whichever calls failed: the
\* count is the number of calls since then.
HeldToTheMatchingUnlock ==
  \A p \in Procs :
    /\ util[p] => /\ opened[p] \in locked
                  /\ 0 < takenAt[p] /\ takenAt[p] <= depth[p]
                  /\ nLocks[p] = depth[p] - takenAt[p] + 1
    /\ ~util[p] => nLocks[p] = 0
    /\ pc[p] = "outside" => ~util[p]

\* Nobody waits for a lock that was left behind before it came: the object a
\* process opens did not exist when the process removed the name, so a lock a
\* dead DioCLI left does not block the next one.
LeftoverIsNotWaitedFor ==
  \A p \in Procs : pc[p] = "lock" => opened[p] \notin leftover[p]

\* While one process is inside its outermost locked call, no other is.
MutualExclusion == \A p, q \in Procs : util[p] /\ util[q] => p = q

\* The holder died and the object stays locked.
Orphaned(o) == o \in locked /\ \A q \in Procs : ~(util[q] /\ opened[q] = o)

\* A process that waits gets the lock, unless the holder of that very object
\* died: no process can overtake a waiter for ever, because whoever comes back
\* removes the name first and waits elsewhere.
WaitEnds ==
  \A p \in Procs : pc[p] = "lock" ~> (pc[p] # "lock" \/ Orphaned(opened[p]))
=============================================================================
