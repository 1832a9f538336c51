---------------------- MODULE RZCriticalSection_proofs ----------------------
(***************************************************************************)
(* Proofs about RZCriticalSection, for any set of threads, any nesting and *)
(* both builds: type correctness; and, as long as TryLock is only used     *)
(* where a failure shows in its result, mutual exclusion, the exactness of *)
(* lock_count and the refinement of RecursiveLock.                         *)
(***************************************************************************)
EXTENDS RZCriticalSection, TLAPS

(* The callers do not use the posix TryLock, whose failure they cannot     *)
(* tell from success.                                                      *)
TryLockReports == "posix" \notin TryLockBuilds

-----------------------------------------------------------------------------
(* The inductive invariants.                                               *)

Entering(t) == pc[t] \in {"incLoad", "incStore", "enterReturn"}
Leaving(t) == pc[t] \in {"decLoad", "decStore", "leave"}

(* A call that may still add to what its caller holds was made below the   *)
(* bound, and the mutex is owned no less than once: what TypeOK needs.     *)
Room ==
  \A t \in Threads : pc[t] = "enter" \/ Entering(t) \/ Leaving(t) => held[t] < MaxDepth

OwnedOnce == owner # NoThread => depth > 0

TypeInv == TypeOK /\ Room /\ OwnedOnce

(* The levels of the mutex that t has: what its caller holds, and one more *)
(* while a call of t is between the mutex and the caller.                  *)
Levels(t) == held[t] + (IF Entering(t) \/ Leaving(t) THEN 1 ELSE 0)

(* The two windows in which lock_count is one behind the mutex.            *)
Behind(t) == pc[t] \in {"incLoad", "incStore", "leave"}

OthersOut == \A t \in Threads : t # owner => Levels(t) = 0

FreeMutex == owner = NoThread => depth = 0 /\ lock_count = 0

OwnedMutex ==
  \A t \in Threads : owner = t =>
    /\ depth = Levels(t)
    /\ lock_count = IF Behind(t) THEN depth - 1 ELSE depth
    /\ pc[t] \in {"incStore", "decStore"} => reg[t] = lock_count

TryLockSource ==
  \A t \in Threads : pc[t] = "enter" /\ op[t] = "TryLock" => build \in TryLockBuilds

(* A released object has no user.                                          *)
Quiet == ~alive => \A t \in Threads : pc[t] = "idle" /\ held[t] = 0

IInv == OthersOut /\ FreeMutex /\ OwnedMutex /\ TryLockSource /\ Quiet

-----------------------------------------------------------------------------
(* No step of any thread, nor Release or Construct, takes a variable out   *)
(* of its type or a thread past its bounds.                                *)
LEMMA NextTypeInv == TypeInv /\ [Next]_vars => TypeInv'
<1> SUFFICES ASSUME TypeInv, [Next]_vars PROVE TypeInv'
  OBVIOUS
<1> USE BoundAssumption, ThreadAssumption
   DEF TypeInv, TypeOK, Labels, Room, OwnedOnce, Entering, Leaving,
       Goto, objectVars, mutexVars, callerVars
<1>1. CASE UNCHANGED vars
  BY <1>1 DEF vars
<1>2. ASSUME NEW t \in Threads, CallLock(t) PROVE TypeInv'
  BY <1>2 DEF CallLock
<1>3. ASSUME NEW t \in Threads, CallTryLock(t) PROVE TypeInv'
  BY <1>3 DEF CallTryLock
<1>4. ASSUME NEW t \in Threads, CallUnlock(t) PROVE TypeInv'
  BY <1>4 DEF CallUnlock
<1>5. ASSUME NEW t \in Threads, IsLocked(t) PROVE TypeInv'
  BY <1>5 DEF IsLocked
<1>6. ASSUME NEW t \in Threads, Inside(t) PROVE TypeInv'
  <2>1. CASE Acquire(t)
    BY <2>1 DEF Acquire, MutexEnter
  <2>2. CASE TryFail(t)
    BY <2>2 DEF TryFail
  <2>3. CASE IncLoad(t)
    BY <2>3 DEF IncLoad
  <2>4. CASE IncStore(t)
    BY <2>4 DEF IncStore
  <2>5. CASE EnterReturn(t)
    BY <2>5 DEF EnterReturn
  <2>6. CASE DecLoad(t)
    BY <2>6 DEF DecLoad
  <2>7. CASE DecStore(t)
    BY <2>7 DEF DecStore
  <2>8. CASE Leave(t)
    BY <2>8 DEF Leave, MutexLeave
  <2>9. CASE LeaveRefused(t)
    BY <2>9 DEF LeaveRefused
  <2>10. CASE UnlockReturn(t)
    BY <2>10 DEF UnlockReturn
  <2> QED
    BY <1>6, <2>1, <2>2, <2>3, <2>4, <2>5, <2>6, <2>7, <2>8, <2>9, <2>10 DEF Inside
<1>7. CASE Release
  BY <1>7 DEF Release
<1>8. CASE Construct
  BY <1>8 DEF Construct
<1> QED
  BY <1>1, <1>2, <1>3, <1>4, <1>5, <1>6, <1>7, <1>8 DEF Next

(* Every state of the component is of the declared types, whatever the     *)
(* callers do with TryLock.                                                *)
THEOREM TypeCorrect == Spec => []TypeOK
<1> USE BoundAssumption, ThreadAssumption
<1>1. Init => TypeInv
  BY DEF Init, TypeInv, TypeOK, Labels, Room, OwnedOnce, Entering, Leaving
<1>2. TypeInv /\ [Next]_vars => TypeInv'
  BY NextTypeInv
<1>3. TypeInv => TypeOK
  BY DEF TypeInv
<1> QED
  BY <1>1, <1>2, <1>3, PTL DEF Spec

(* IInv is kept by every step. *)
LEMMA NextIInv ==
  ASSUME TryLockReports
  PROVE  TypeInv /\ IInv /\ [Next]_vars => IInv'
<1> SUFFICES ASSUME TypeInv, IInv, [Next]_vars PROVE IInv'
  OBVIOUS
<1> USE BoundAssumption, ThreadAssumption, BuildAssumption
<1> USE DEF TypeInv, TypeOK, Labels, Room, OwnedOnce, IInv, OthersOut, FreeMutex,
      OwnedMutex, TryLockSource, Quiet, Entering, Leaving, Levels, Behind, TryLockReports,
      Goto, objectVars, mutexVars, callerVars
<1>1. CASE UNCHANGED vars
  BY <1>1 DEF vars
<1>2. ASSUME NEW t \in Threads, CallLock(t) PROVE IInv'
  BY <1>2 DEF CallLock
<1>3. ASSUME NEW t \in Threads, CallTryLock(t) PROVE IInv'
  BY <1>3 DEF CallTryLock
<1>4. ASSUME NEW t \in Threads, CallUnlock(t) PROVE IInv'
  BY <1>4 DEF CallUnlock
<1>5. ASSUME NEW t \in Threads, IsLocked(t) PROVE IInv'
  BY <1>5 DEF IsLocked
<1>6. ASSUME NEW t \in Threads, Inside(t) PROVE IInv'
  <2>1. CASE Acquire(t)
    BY <2>1 DEF Acquire, MutexEnter, CanEnter
  <2>2. CASE TryFail(t)
    BY <2>2 DEF TryFail, CanEnter
  <2>3. CASE IncLoad(t)
    BY <2>3 DEF IncLoad
  <2>4. CASE IncStore(t)
    BY <2>4 DEF IncStore
  <2>5. CASE EnterReturn(t)
    BY <2>5 DEF EnterReturn
  <2>6. CASE DecLoad(t)
    BY <2>6 DEF DecLoad
  <2>7. CASE DecStore(t)
    BY <2>7 DEF DecStore
  <2>8. CASE Leave(t)
    BY <2>8 DEF Leave, MutexLeave
  <2>9. CASE LeaveRefused(t)
    BY <2>9 DEF LeaveRefused
  <2>10. CASE UnlockReturn(t)
    BY <2>10 DEF UnlockReturn
  <2> QED
    BY <1>6, <2>1, <2>2, <2>3, <2>4, <2>5, <2>6, <2>7, <2>8, <2>9, <2>10 DEF Inside
<1>7. CASE Release
  BY <1>7 DEF Release
<1>8. CASE Construct
  BY <1>8 DEF Construct
<1> QED
  BY <1>1, <1>2, <1>3, <1>4, <1>5, <1>6, <1>7, <1>8 DEF Next

(* The two together, as an invariant of the specification.                 *)
LEMMA Inductive ==
  ASSUME TryLockReports
  PROVE  Spec => [](TypeInv /\ IInv)
<1> USE BoundAssumption, ThreadAssumption
<1>1. Init => TypeInv /\ IInv
  BY DEF Init, TypeInv, TypeOK, Labels, Room, OwnedOnce, IInv, OthersOut, FreeMutex,
       OwnedMutex, TryLockSource, Quiet, Entering, Leaving, Levels, Behind
<1>2. TypeInv /\ IInv /\ [Next]_vars => (TypeInv /\ IInv)'
  BY NextTypeInv, NextIInv
<1> QED
  BY <1>1, <1>2, PTL DEF Spec

(* No two callers are inside together.                                     *)
THEOREM Exclusion ==
  ASSUME TryLockReports
  PROVE  Spec => []MutualExclusion
<1>1. TypeInv /\ IInv => MutualExclusion
  BY BoundAssumption
     DEF TypeInv, TypeOK, IInv, OthersOut, Levels, Entering, Leaving, MutualExclusion
<1> QED
  BY <1>1, Inductive, PTL

(* Every Unlock is by the owner of the mutex.                              *)
THEOREM OwnersLeave ==
  ASSUME TryLockReports
  PROVE  Spec => []OwnLeave
<1>1. TypeInv /\ IInv => OwnLeave
  BY BoundAssumption
     DEF TypeInv, TypeOK, IInv, OthersOut, Levels, Entering, Leaving, OwnLeave
<1> QED
  BY <1>1, Inductive, PTL

(* lock_count is zero when the mutex is free and the caller's own depth    *)
(* for a caller that is inside.                                            *)
THEOREM Exactness ==
  ASSUME TryLockReports
  PROVE  Spec => []CountExact
<1>1. TypeInv /\ IInv => CountExact
  BY BoundAssumption, ThreadAssumption
     DEF TypeInv, TypeOK, IInv, OthersOut, FreeMutex, OwnedMutex, Levels, Entering,
         Leaving, Behind, CountExact
<1> QED
  BY <1>1, Inductive, PTL

-----------------------------------------------------------------------------
(* Refinement of RecursiveLock.                                            *)

(* Every step of a call is a step of the abstract lock or none at all: the *)
(* entry takes effect when Lock or TryLock returns, the exit when Unlock   *)
(* is called, and what happens to the mutex and the count in between is    *)
(* not seen.                                                               *)
LEMMA StepRefines ==
  ASSUME TypeInv, TypeInv', IInv, [Next]_vars
  PROVE  [Promise!Next]_(Promise!vars)
<1> USE BoundAssumption, ThreadAssumption
<1> USE DEF Goto, objectVars, mutexVars, callerVars, Promise!vars
<1>a. ASSUME UNCHANGED <<held, ret>> PROVE [Promise!Next]_(Promise!vars)
  BY <1>a
<1>0. lock_count \in 0 .. MaxDepth
  BY DEF TypeInv, TypeOK, Room, OwnedOnce, IInv, FreeMutex, OwnedMutex, Levels, Entering,
         Leaving, Behind
<1>b. ASSUME NEW t \in Threads, pc[t] = "idle" \/ pc[t] = "unlockReturn",
             ret' = [ret EXCEPT ![t] = lock_count], UNCHANGED held
      PROVE  [Promise!Next]_(Promise!vars)
  <2>1. held[t] > 0 => lock_count = held[t]
    BY <1>b DEF TypeInv, TypeOK, IInv, OthersOut, OwnedMutex, Levels, Entering, Leaving, Behind
  <2>2. Promise!Observe(t)
    BY <1>0, <1>b, <2>1 DEF Promise!Observe
  <2> QED
    BY <2>2 DEF Promise!Next
<1>1. CASE UNCHANGED vars
  BY <1>1, <1>a DEF vars
<1>2. ASSUME NEW t \in Threads, CallLock(t) PROVE [Promise!Next]_(Promise!vars)
  BY <1>2, <1>a DEF CallLock
<1>3. ASSUME NEW t \in Threads, CallTryLock(t) PROVE [Promise!Next]_(Promise!vars)
  BY <1>3, <1>a DEF CallTryLock
<1>4. ASSUME NEW t \in Threads, CallUnlock(t) PROVE [Promise!Next]_(Promise!vars)
  <2>1. Promise!Exit(t)
    BY <1>4 DEF CallUnlock, Promise!Exit
  <2> QED
    BY <2>1 DEF Promise!Next
<1>5. ASSUME NEW t \in Threads, IsLocked(t) PROVE [Promise!Next]_(Promise!vars)
  BY <1>5, <1>b DEF IsLocked
<1>6. ASSUME NEW t \in Threads, Inside(t) PROVE [Promise!Next]_(Promise!vars)
  <2>1. CASE Acquire(t)
    BY <2>1, <1>a DEF Acquire
  <2>2. CASE TryFail(t)
    <3>1. CASE UNCHANGED ret
      BY <2>2, <3>1, <1>a DEF TryFail
    <3>2. CASE ret' = [ret EXCEPT ![t] = 0]
      <4>1. held[t] = 0
        BY <2>2 DEF TryFail, CanEnter, TypeInv, TypeOK, IInv, OthersOut, Levels, Entering, Leaving
      <4>2. Promise!Refuse(t)
        BY <2>2, <3>2, <4>1 DEF TryFail, Promise!Refuse
      <4> QED
        BY <4>2 DEF Promise!Next
    <3> QED
      BY <2>2, <3>1, <3>2 DEF TryFail
  <2>3. CASE IncLoad(t)
    BY <2>3, <1>a DEF IncLoad
  <2>4. CASE IncStore(t)
    BY <2>4, <1>a DEF IncStore
  <2>5. CASE EnterReturn(t)
    <3>1. owner = t /\ lock_count = held[t] + 1 /\ held[t] < MaxDepth
      BY <2>5 DEF EnterReturn, TypeInv, TypeOK, Room, IInv, OthersOut, OwnedMutex, Levels,
           Entering, Leaving, Behind
    <3>2. \A u \in Threads \ {t} : held[u] = 0
      BY <3>1 DEF TypeInv, TypeOK, IInv, OthersOut, Levels, Entering, Leaving
    <3>3. held' = [held EXCEPT ![t] = @ + 1] /\ ret' = [ret EXCEPT ![t] = held[t] + 1]
      BY <2>5, <3>1 DEF EnterReturn, TypeInv, TypeOK
    <3>4. Promise!Enter(t)
      BY <3>1, <3>2, <3>3 DEF Promise!Enter
    <3> QED
      BY <3>4 DEF Promise!Next
  <2>6. CASE DecLoad(t)
    BY <2>6, <1>a DEF DecLoad
  <2>7. CASE DecStore(t)
    BY <2>7, <1>a DEF DecStore
  <2>8. CASE Leave(t)
    BY <2>8, <1>a DEF Leave
  <2>9. CASE LeaveRefused(t)
    <3>1. pc[t] = "leave" /\ owner # t
      BY <2>9 DEF LeaveRefused
    <3> QED
      BY <3>1 DEF TypeInv, TypeOK, IInv, OthersOut, Levels, Entering, Leaving
  <2>10. CASE UnlockReturn(t)
    BY <2>10, <1>b DEF UnlockReturn
  <2> QED
    BY <1>6, <2>1, <2>2, <2>3, <2>4, <2>5, <2>6, <2>7, <2>8, <2>9, <2>10 DEF Inside
<1>7. CASE Release
  BY <1>7, <1>a DEF Release
<1>8. CASE Construct
  BY <1>8, <1>a DEF Construct
<1> QED
  BY <1>1, <1>2, <1>3, <1>4, <1>5, <1>6, <1>7, <1>8 DEF Next

(* The callers see a RecursiveLock: entries exclude each other and return  *)
(* the caller's depth, only callers that are outside are refused, and a    *)
(* caller that is still inside gets its true depth from Unlock and         *)
(* IsLocked.                                                               *)
THEOREM Refinement ==
  ASSUME TryLockReports
  PROVE  Spec => ImplementsRecursiveLock
<1>1. Init => Promise!Init
  BY DEF Init, Promise!Init
<1>2. TypeInv /\ TypeInv' /\ IInv /\ [Next]_vars => [Promise!Next]_(Promise!vars)
  BY StepRefines
<1> QED
  BY <1>1, <1>2, Inductive, PTL DEF Spec, ImplementsRecursiveLock, Promise!Spec
=============================================================================
