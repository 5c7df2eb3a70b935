-------------------------- MODULE ResumeLock_proofs --------------------------
(***************************************************************************)
(* The invariants of the resume lock, for any number of processes, objects *)
(* and nested calls, with failures and crashes.                            *)
(***************************************************************************)
EXTENDS ResumeLockProps, TLAPS

\* A process is in a method exactly while it has calls to match.
InsideHasDepth == \A p \in Procs : pc[p] # "outside" => depth[p] > 0

\* Only a process that is past CreateLock holds the lock, of an object.
HolderIsInside ==
  \A p \in Procs : util[p] => pc[p] = "inside" /\ opened[p] \in Objects

WaiterHasObject == \A p \in Procs : pc[p] = "lock" => opened[p] \in Objects

\* Since p removed the name, it refers to nothing or to a younger object.
NameIsNew ==
  \A p \in Procs : pc[p] = "open" => name \notin leftover[p]

\* The inductive invariant.
IInv ==
  /\ TypeOK /\ OneHolderPerObject /\ HeldToTheMatchingUnlock
  /\ LeftoverIsNotWaitedFor
  /\ InsideHasDepth /\ HolderIsInside /\ WaiterHasObject /\ NameIsNew

\* The initial state satisfies the invariant.
LEMMA InitIInv == Init => IInv
<1> SUFFICES ASSUME Init PROVE IInv
  OBVIOUS
<1> USE LockAssumption DEF Init
<1>1. TypeOK
  BY DEF TypeOK, LockAt
<1>2. OneHolderPerObject /\ HeldToTheMatchingUnlock /\ LeftoverIsNotWaitedFor
  BY DEF OneHolderPerObject, HeldToTheMatchingUnlock, LeftoverIsNotWaitedFor
<1>3. InsideHasDepth /\ HolderIsInside /\ WaiterHasObject /\ NameIsNew
  BY DEF InsideHasDepth, HolderIsInside, WaiterHasObject, NameIsNew
<1> QED
  BY <1>1, <1>2, <1>3 DEF IInv

\* A method that begins takes nothing yet.
LEMMA EnterStep == ASSUME NEW p \in Procs, IInv, Enter(p) PROVE IInv'
<1> USE DEF IInv, Enter, Goto
<1>1. TypeOK'
  BY DEF TypeOK, LockAt
<1>2. HolderIsInside'
  BY DEF TypeOK, HolderIsInside, HeldToTheMatchingUnlock
<1>3. InsideHasDepth'
  BY DEF TypeOK, InsideHasDepth
<1>4. LeftoverIsNotWaitedFor' /\ WaiterHasObject' /\ NameIsNew'
  BY DEF TypeOK, LeftoverIsNotWaitedFor, WaiterHasObject, NameIsNew
<1>5. OneHolderPerObject' /\ HeldToTheMatchingUnlock'
  BY DEF TypeOK, OneHolderPerObject, HeldToTheMatchingUnlock
<1> QED
  BY <1>1, <1>2, <1>3, <1>4, <1>5

\* LockResources with the lock only counts; without it, it starts over.
LEMMA NestStep == ASSUME NEW p \in Procs, IInv, Nest(p) PROVE IInv'
<1> USE DEF IInv, Nest, Goto
<1>1. TypeOK'
  BY LockAssumption DEF TypeOK, LockAt
<1>2. HeldToTheMatchingUnlock'
  BY DEF TypeOK, HeldToTheMatchingUnlock
<1>3. HolderIsInside'
  BY DEF TypeOK, HolderIsInside
<1>4. InsideHasDepth'
  BY DEF TypeOK, InsideHasDepth
<1>5. LeftoverIsNotWaitedFor' /\ WaiterHasObject' /\ NameIsNew'
  BY DEF TypeOK, LeftoverIsNotWaitedFor, WaiterHasObject, NameIsNew
<1>6. OneHolderPerObject'
  BY DEF TypeOK, OneHolderPerObject
<1> QED
  BY <1>1, <1>2, <1>3, <1>4, <1>5, <1>6

\* Removing the name makes every object that is there a leftover one.
LEMMA RemoveNameStep == ASSUME NEW p \in Procs, IInv, RemoveName(p) PROVE IInv'
<1> USE DEF IInv, RemoveName, Goto
<1>1. TypeOK'
  BY DEF TypeOK, LockAt, Reachable
<1>2. HeldToTheMatchingUnlock'
  BY DEF TypeOK, HeldToTheMatchingUnlock
<1>3. HolderIsInside'
  BY DEF TypeOK, HolderIsInside
<1>4. NameIsNew'
  BY LockAssumption DEF TypeOK, NameIsNew, Reachable
<1>5. LeftoverIsNotWaitedFor' /\ WaiterHasObject' /\ InsideHasDepth'
  BY DEF TypeOK, LeftoverIsNotWaitedFor, WaiterHasObject, InsideHasDepth
<1>6. OneHolderPerObject'
  BY DEF TypeOK, OneHolderPerObject
<1> QED
  BY <1>1, <1>2, <1>3, <1>4, <1>5, <1>6

\* What open_or_create returns is younger than the removal of the name.
LEMMA OpenOrCreateStep == ASSUME NEW p \in Procs, IInv, OpenOrCreate(p) PROVE IInv'
<1> USE DEF IInv, OpenOrCreate, Goto
<1>1. TypeOK'
  BY DEF TypeOK, LockAt
<1>2. OneHolderPerObject'
  BY DEF TypeOK, OneHolderPerObject, HolderIsInside
<1>3. HeldToTheMatchingUnlock'
  BY DEF TypeOK, HeldToTheMatchingUnlock, HolderIsInside, Reachable
<1>4. LeftoverIsNotWaitedFor'
  BY DEF TypeOK, LeftoverIsNotWaitedFor, NameIsNew, WaiterHasObject
<1>5. WaiterHasObject'
  BY DEF TypeOK, WaiterHasObject
<1>6. NameIsNew'
  BY LockAssumption DEF TypeOK, NameIsNew
<1>7. HolderIsInside'
  BY DEF TypeOK, HolderIsInside
<1>8. InsideHasDepth'
  BY DEF TypeOK, InsideHasDepth
<1> QED
  BY <1>1, <1>2, <1>3, <1>4, <1>5, <1>6, <1>7, <1>8

\* A failed LockResources leaves count and lock as they were.
LEMMA OpenFailsStep == ASSUME NEW p \in Procs, IInv, OpenFails(p) PROVE IInv'
<1> USE DEF IInv, OpenFails, Goto
<1>1. TypeOK'
  BY DEF TypeOK, LockAt
<1>2. HeldToTheMatchingUnlock'
  BY DEF TypeOK, HeldToTheMatchingUnlock
<1>3. HolderIsInside'
  BY DEF TypeOK, HolderIsInside
<1>4. LeftoverIsNotWaitedFor' /\ WaiterHasObject' /\ NameIsNew' /\ InsideHasDepth'
  BY DEF TypeOK, LeftoverIsNotWaitedFor, WaiterHasObject, NameIsNew,
    InsideHasDepth
<1>5. OneHolderPerObject'
  BY DEF TypeOK, OneHolderPerObject
<1> QED
  BY <1>1, <1>2, <1>3, <1>4, <1>5

\* The lock is taken on an object nobody else holds.
LEMMA AcquireStep == ASSUME NEW p \in Procs, IInv, Acquire(p) PROVE IInv'
<1> USE DEF IInv, Acquire, Goto
<1>1. TypeOK'
  BY DEF TypeOK, LockAt, WaiterHasObject
<1>2. OneHolderPerObject'
  BY DEF TypeOK, OneHolderPerObject, HeldToTheMatchingUnlock
<1>3. HeldToTheMatchingUnlock'
  BY DEF TypeOK, HeldToTheMatchingUnlock, HolderIsInside, InsideHasDepth
<1>4. HolderIsInside'
  BY DEF TypeOK, HolderIsInside, WaiterHasObject
<1>5. LeftoverIsNotWaitedFor'
  BY DEF TypeOK, LeftoverIsNotWaitedFor
<1>6. WaiterHasObject' /\ NameIsNew' /\ InsideHasDepth'
  BY DEF TypeOK, WaiterHasObject, NameIsNew, InsideHasDepth
<1> QED
  BY <1>1, <1>2, <1>3, <1>4, <1>5, <1>6

\* The death of a process leaves the others with what they hold.
LEMMA DiesStep == ASSUME NEW p \in Procs, IInv, Dies(p) PROVE IInv'
<1> USE DEF IInv, Dies, Goto
<1>1. TypeOK'
  BY LockAssumption DEF TypeOK, LockAt
<1>2. OneHolderPerObject'
  BY DEF TypeOK, OneHolderPerObject
<1>3. HeldToTheMatchingUnlock'
  BY DEF TypeOK, HeldToTheMatchingUnlock
<1>4. HolderIsInside'
  BY DEF TypeOK, HolderIsInside
<1>5. InsideHasDepth'
  BY DEF TypeOK, InsideHasDepth
<1>6. LeftoverIsNotWaitedFor' /\ WaiterHasObject' /\ NameIsNew'
  BY DEF TypeOK, LeftoverIsNotWaitedFor, WaiterHasObject, NameIsNew
<1> QED
  BY <1>1, <1>2, <1>3, <1>4, <1>5, <1>6

\* An inner UnlockResources keeps the lock.
LEMMA UnlockNestedStep == ASSUME NEW p \in Procs, IInv, UnlockNested(p) PROVE IInv'
<1> USE DEF IInv, UnlockNested, Leave, Count, Goto
<1>1. TypeOK'
  BY DEF TypeOK, LockAt, InsideHasDepth
<1>2. HeldToTheMatchingUnlock'
  BY DEF TypeOK, HeldToTheMatchingUnlock, InsideHasDepth
<1>3. HolderIsInside'
  BY DEF TypeOK, HolderIsInside, HeldToTheMatchingUnlock, InsideHasDepth
<1>4. InsideHasDepth'
  BY DEF TypeOK, InsideHasDepth
<1>5. LeftoverIsNotWaitedFor' /\ WaiterHasObject' /\ NameIsNew'
  BY DEF TypeOK, LeftoverIsNotWaitedFor, WaiterHasObject, NameIsNew
<1>6. OneHolderPerObject'
  BY DEF TypeOK, OneHolderPerObject
<1> QED
  BY <1>1, <1>2, <1>3, <1>4, <1>5, <1>6

\* The matching UnlockResources frees the object of this process only.
LEMMA UnlockLastStep == ASSUME NEW p \in Procs, IInv, UnlockLast(p) PROVE IInv'
<1> USE DEF IInv, UnlockLast, Leave, Count, Goto
<1>1. TypeOK'
  BY DEF TypeOK, LockAt, InsideHasDepth
<1>2. OneHolderPerObject'
  BY DEF TypeOK, OneHolderPerObject
<1>3. HeldToTheMatchingUnlock'
  BY DEF TypeOK, HeldToTheMatchingUnlock, OneHolderPerObject, InsideHasDepth
<1>4. HolderIsInside'
  BY DEF TypeOK, HolderIsInside
<1>5. InsideHasDepth'
  BY DEF TypeOK, InsideHasDepth
<1>6. LeftoverIsNotWaitedFor' /\ WaiterHasObject' /\ NameIsNew'
  BY DEF TypeOK, LeftoverIsNotWaitedFor, WaiterHasObject, NameIsNew
<1> QED
  BY <1>1, <1>2, <1>3, <1>4, <1>5, <1>6

\* Without the lock the count is 0 and only the depth moves.
LEMMA UnlockWithoutStep ==
  ASSUME NEW p \in Procs, IInv, UnlockWithout(p) PROVE IInv'
<1>1. CASE Dies(p)
  BY <1>1, DiesStep
<1>2. CASE /\ Leave(p)
           /\ UNCHANGED <<name, locked, opened, util, todo, takenAt, leftover>>
  <2> USE <1>2 DEF IInv, UnlockWithout, Leave, Count, Goto
  <2>1. TypeOK'
    BY DEF TypeOK, LockAt, InsideHasDepth
  <2>2. HeldToTheMatchingUnlock' /\ OneHolderPerObject' /\ HolderIsInside'
    BY DEF TypeOK, HeldToTheMatchingUnlock, OneHolderPerObject, HolderIsInside
  <2>3. InsideHasDepth'
    BY DEF TypeOK, InsideHasDepth
  <2>4. LeftoverIsNotWaitedFor' /\ WaiterHasObject' /\ NameIsNew'
    BY DEF TypeOK, LeftoverIsNotWaitedFor, WaiterHasObject, NameIsNew
  <2> QED
    BY <2>1, <2>2, <2>3, <2>4
<1> QED
  BY <1>1, <1>2 DEF UnlockWithout

\* Every step preserves the invariant.
LEMMA NextIInv == IInv /\ [Next]_vars => IInv'
<1> SUFFICES ASSUME IInv, [Next]_vars PROVE IInv'
  OBVIOUS
<1>1. CASE UNCHANGED vars
  BY <1>1 DEF vars, IInv, TypeOK, OneHolderPerObject, HeldToTheMatchingUnlock,
     LeftoverIsNotWaitedFor, InsideHasDepth, HolderIsInside, WaiterHasObject,
     NameIsNew
<1>2. ASSUME NEW p \in Procs, Enter(p) \/ Step(p) \/ Crash(p)
      PROVE  IInv'
  BY <1>2, EnterStep, NestStep, RemoveNameStep, OpenOrCreateStep, OpenFailsStep,
     AcquireStep, UnlockNestedStep, UnlockLastStep, UnlockWithoutStep, DiesStep
     DEF Step, Unlock, Crash
<1> QED
  BY <1>1, <1>2 DEF Next

\* The strengthened invariant holds of LockResources and UnlockResources.
THEOREM Invariance == Spec => []IInv
  BY InitIInv, NextIInv, PTL DEF Spec

\* The lock's state has its types, whatever fails or crashes.
THEOREM TypeCorrect == Spec => []TypeOK
  BY Invariance, PTL DEF IInv

\* Two processes never hold the lock of one mutex object.
THEOREM LocksExclude == Spec => []OneHolderPerObject
  BY Invariance, PTL DEF IInv

\* UnlockResources frees the lock at the call that matches the LockResources
\* that took it, whatever nests in between and whichever call failed.
THEOREM NestingMatches == Spec => []HeldToTheMatchingUnlock
  BY Invariance, PTL DEF IInv

\* No process ever waits for an object that was there when it removed the name.
THEOREM LeftoverRemoved == Spec => []LeftoverIsNotWaitedFor
  BY Invariance, PTL DEF IInv
=============================================================================
