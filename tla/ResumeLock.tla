----------------------------- MODULE ResumeLock -----------------------------
(***************************************************************************)
(* The interprocess lock around the resume files: ResumeNamedMutexUtil     *)
(* (src/DioCLI/ResumeNamedMutex.h) and ResumeManager's LockResources and   *)
(* UnlockResources.  Each process is one DioCLI; it has one thread that    *)
(* calls the ResumeManager, whose methods nest their lock calls.           *)
(*                                                                         *)
(* A named mutex is a name that refers to a mutex object.  Removing the    *)
(* name leaves the object to those who have it open; the next to open the  *)
(* name creates a new object.                                              *)
(***************************************************************************)
EXTENDS Naturals

CONSTANTS
  Procs,       \* the running DioCLI processes
  Objects,     \* mutex objects of the operating system (reused when unreachable)
  NoObject,    \* the name refers to no object; m_pMutex is NULL
  MaxNested,   \* bound: nested LockResources calls of one ResumeManager method
  MayFail,     \* the 50 attempts to open the mutex may all throw
  MayCrash     \* a process may die anywhere and be started again

ASSUME LockAssumption ==
  /\ NoObject \notin Objects
  /\ MaxNested \in Nat
  /\ MayFail \in BOOLEAN /\ MayCrash \in BOOLEAN

VARIABLES
  name,      \* the object g_szUploadWriteMutex refers to
  locked,    \* the objects that are locked; a dead process leaves its own locked
  pc,        \* where each process is in LockResources / CreateLock
  opened,    \* m_pMutex
  util,      \* m_pMutexUtil # NULL, that is, the scoped lock is held
  nLocks,    \* m_nLocks
  depth,     \* LockResources calls without their UnlockResources
  todo,      \* nested calls the current method still makes
  takenAt,   \* history: the depth of the call that took the lock, 0 without it
  leftover   \* history: objects there were when the process removed the name,
             \* kept until it has the lock or has given up

vars == <<name, locked, pc, opened, util, nLocks, depth, todo, takenAt, leftover>>

LockAt == {"outside", "remove", "open", "lock", "inside"}

Init ==
  /\ name = NoObject /\ locked = {}
  /\ pc = [p \in Procs |-> "outside"]
  /\ opened = [p \in Procs |-> NoObject]
  /\ util = [p \in Procs |-> FALSE]
  /\ nLocks = [p \in Procs |-> 0] /\ depth = [p \in Procs |-> 0]
  /\ todo = [p \in Procs |-> 0] /\ takenAt = [p \in Procs |-> 0]
  /\ leftover = [p \in Procs |-> {}]

Goto(p, at) == pc' = [pc EXCEPT ![p] = at]

\* A public method of ResumeManager begins: its first LockResources.
Enter(p) ==
  /\ pc[p] = "outside"
  /\ \E n \in 0 .. MaxNested : todo' = [todo EXCEPT ![p] = n]
  /\ depth' = [depth EXCEPT ![p] = 1]
  /\ Goto(p, "remove")
  /\ UNCHANGED <<name, locked, opened, util, nLocks, takenAt, leftover>>

\* Mutant of Nest: the nested call is not counted.
NestUncounted(p) ==
  /\ pc[p] = "inside" /\ todo[p] > 0
  /\ todo' = [todo EXCEPT ![p] = @ - 1]
  /\ depth' = [depth EXCEPT ![p] = @ + 1]
  /\ IF util[p] THEN UNCHANGED pc ELSE Goto(p, "remove")
  /\ UNCHANGED <<name, locked, opened, util, nLocks, takenAt, leftover>>

\* A method calls another: with the resources locked LockResources only counts,
\* otherwise (the outer call failed, and nobody looks) it tries again.
Nest(p) ==
  /\ pc[p] = "inside" /\ todo[p] > 0
  /\ todo' = [todo EXCEPT ![p] = @ - 1]
  /\ depth' = [depth EXCEPT ![p] = @ + 1]
  /\ IF util[p]
     THEN nLocks' = [nLocks EXCEPT ![p] = @ + 1] /\ UNCHANGED pc
     ELSE Goto(p, "remove") /\ UNCHANGED nLocks
  /\ UNCHANGED <<name, locked, opened, util, takenAt, leftover>>

\* The objects some process can still get at.
Reachable == {name} \cup {opened[p] : p \in Procs}

\* Mutant of RemoveName: the name stays.
RemoveNothing(p) ==
  /\ pc[p] = "remove"
  /\ leftover' = [leftover EXCEPT ![p] = Reachable \ {NoObject}]
  /\ Goto(p, "open")
  /\ UNCHANGED <<name, locked, opened, util, nLocks, depth, todo, takenAt>>

\* CreateLock removes any leftover lock by its name.
RemoveName(p) ==
  /\ pc[p] = "remove"
  /\ name' = NoObject
  /\ leftover' = [leftover EXCEPT ![p] = Reachable \ {NoObject}]
  /\ Goto(p, "open")
  /\ UNCHANGED <<locked, opened, util, nLocks, depth, todo, takenAt>>

\* open_or_create, after the pause: the object of the name, or a new one.
OpenOrCreate(p) ==
  /\ pc[p] = "open"
  /\ IF name # NoObject
     THEN /\ opened' = [opened EXCEPT ![p] = name]
          /\ UNCHANGED <<name, locked, leftover>>
     ELSE \E o \in Objects \ Reachable :
            /\ name' = o /\ locked' = locked \ {o}
            /\ opened' = [opened EXCEPT ![p] = o]
            /\ leftover' = [q \in Procs |-> leftover[q] \ {o}]
  /\ Goto(p, "lock")
  /\ UNCHANGED <<util, nLocks, depth, todo, takenAt>>

\* No mutex after the last attempt: LockResources returns an error and leaves
\* m_nLocks alone; the callers go on without the lock.
OpenFails(p) ==
  /\ MayFail /\ pc[p] = "open"
  /\ leftover' = [leftover EXCEPT ![p] = {}]
  /\ Goto(p, "inside")
  /\ UNCHANGED <<name, locked, opened, util, nLocks, depth, todo, takenAt>>

\* Mutant of Acquire: the lock is built without waiting for it.
AcquireDeferred(p) ==
  /\ pc[p] = "lock"
  /\ locked' = locked \cup {opened[p]}
  /\ util' = [util EXCEPT ![p] = TRUE]
  /\ nLocks' = [nLocks EXCEPT ![p] = @ + 1]
  /\ takenAt' = [takenAt EXCEPT ![p] = depth[p]]
  /\ leftover' = [leftover EXCEPT ![p] = {}]
  /\ Goto(p, "inside")
  /\ UNCHANGED <<name, opened, depth, todo>>

\* The scoped lock blocks until the object is free.
Acquire(p) ==
  /\ pc[p] = "lock" /\ opened[p] \notin locked
  /\ locked' = locked \cup {opened[p]}
  /\ util' = [util EXCEPT ![p] = TRUE]
  /\ nLocks' = [nLocks EXCEPT ![p] = @ + 1]
  /\ takenAt' = [takenAt EXCEPT ![p] = depth[p]]
  /\ leftover' = [leftover EXCEPT ![p] = {}]
  /\ Goto(p, "inside")
  /\ UNCHANGED <<name, opened, depth, todo>>

\* The process is gone; the next DioCLI starts with a new ResumeManager.
Dies(p) ==
  /\ Goto(p, "outside")
  /\ opened' = [opened EXCEPT ![p] = NoObject]
  /\ util' = [util EXCEPT ![p] = FALSE]
  /\ nLocks' = [nLocks EXCEPT ![p] = 0]
  /\ depth' = [depth EXCEPT ![p] = 0]
  /\ todo' = [todo EXCEPT ![p] = 0]
  /\ takenAt' = [takenAt EXCEPT ![p] = 0]
  /\ leftover' = [leftover EXCEPT ![p] = {}]
  /\ UNCHANGED <<name, locked>>

\* m_nLocks after the decrement of UnlockResources.
Count(p) == IF nLocks[p] > 0 THEN nLocks[p] - 1 ELSE 0

\* Mutant of Leave: a return path that unlocks once more.
LeaveTwice(p) ==
  /\ depth' = [depth EXCEPT ![p] = @ - 1]
  /\ Goto(p, IF depth[p] = 0 THEN "outside" ELSE "inside")
  /\ nLocks' = [nLocks EXCEPT ![p] = Count(p)]

Leave(p) ==
  /\ depth' = [depth EXCEPT ![p] = @ - 1]
  /\ Goto(p, IF depth[p] = 1 THEN "outside" ELSE "inside")
  /\ nLocks' = [nLocks EXCEPT ![p] = Count(p)]

UnlockNested(p) ==
  /\ pc[p] = "inside" /\ Count(p) > 0
  /\ Leave(p)
  /\ UNCHANGED <<name, locked, opened, util, todo, takenAt, leftover>>

\* The last one deletes the ResumeNamedMutexUtil: lock, then mutex.
UnlockLast(p) ==
  /\ pc[p] = "inside" /\ Count(p) = 0 /\ util[p]
  /\ Leave(p)
  /\ locked' = locked \ {opened[p]}
  /\ opened' = [opened EXCEPT ![p] = NoObject]
  /\ util' = [util EXCEPT ![p] = FALSE]
  /\ takenAt' = [takenAt EXCEPT ![p] = 0]
  /\ UNCHANGED <<name, todo, leftover>>

\* assert(m_pMutexUtil != NULL) fails: a build with NDEBUG goes on, one without
\* it aborts.
UnlockWithout(p) ==
  /\ pc[p] = "inside" /\ Count(p) = 0 /\ ~util[p]
  /\ \/ Leave(p) /\ UNCHANGED <<name, locked, opened, util, todo, takenAt, leftover>>
     \/ Dies(p)

Unlock(p) == UnlockNested(p) \/ UnlockLast(p) \/ UnlockWithout(p)

Crash(p) == MayCrash /\ pc[p] # "outside" /\ Dies(p)

Step(p) ==
  \/ Nest(p) \/ RemoveName(p) \/ OpenOrCreate(p) \/ OpenFails(p) \/ Acquire(p)
  \/ Unlock(p)

Next == \E p \in Procs : Enter(p) \/ Step(p) \/ Crash(p)

Spec == Init /\ [][Next]_vars

\* A process that can run runs; nothing makes it begin another method.  The
\* system gives a free mutex to somebody who waits for it, to whom is open.
FairSpec == Spec /\ \A p \in Procs : WF_vars(Step(p))
=============================================================================
