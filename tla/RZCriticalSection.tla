------------------------- MODULE RZCriticalSection -------------------------
(***************************************************************************)
(* cRZCriticalSection: a recursive mutex of the platform and a plain       *)
(* int32_t beside it that counts the locks (rzcriticalsection_posix.cpp,   *)
(* rzcriticalsection_win32.cpp), used by threads that keep the discipline  *)
(* of cRZLock and of the interface's comments: a thread leaves as often as *)
(* it entered, and it takes a TryLock for an entry when the result is not  *)
(* zero.                                                                   *)
(*                                                                         *)
(* ++lock_count and --lock_count are a load and a store; the value a call  *)
(* returns is one more load, which Unlock and a failed posix TryLock make  *)
(* without the mutex.                                                      *)
(***************************************************************************)
EXTENDS Integers

CONSTANTS
  Threads,
  NoThread,
  MaxDepth,       \* bound on one thread's nesting (the code's is an int32_t)
  MaxDrift,       \* callers stop using TryLock when a count is off by more
  Builds,         \* the builds to check, of "posix" and "win32"
  TryLockBuilds   \* the builds whose callers use TryLock

ASSUME ThreadAssumption == NoThread \notin Threads
ASSUME BoundAssumption == MaxDepth \in Nat /\ MaxDrift \in Nat
ASSUME BuildAssumption == Builds \cup TryLockBuilds \subseteq {"posix", "win32"}

VARIABLES
  build,       \* which implementation file was compiled
  alive,       \* constructed and not yet released
  owner,       \* the platform mutex: the thread that has it, ...
  depth,       \* ... and how many times
  lock_count,  \* CritSecImpl::lock_count
  pc,          \* where each thread is
  op,          \* the entry each thread last asked for
  reg,         \* the register of a thread's ++ or --
  held,        \* how many locks each caller takes itself to hold
  ret          \* the value its last call returned

mutexVars == <<owner, depth>>
callerVars == <<op, held, ret>>
objectVars == <<build, alive>>
vars == <<objectVars, mutexVars, lock_count, pc, reg, callerVars>>

Labels == {"idle", "enter", "incLoad", "incStore", "enterReturn",
           "decLoad", "decStore", "leave", "unlockReturn"}

(* lock_count leaves 0 .. MaxDepth only when a thread leaves a mutex it    *)
(* does not own.                                                           *)
TypeOK ==
  /\ build \in Builds
  /\ alive \in BOOLEAN
  /\ owner \in Threads \cup {NoThread}
  /\ depth \in Nat
  /\ lock_count \in Int
  /\ pc \in [Threads -> Labels]
  /\ op \in [Threads -> {"Lock", "TryLock"}]
  /\ reg \in [Threads -> Int]
  /\ held \in [Threads -> 0 .. MaxDepth]
  /\ ret \in [Threads -> Int]

Init ==
  /\ build \in Builds
  /\ alive = TRUE
  /\ owner = NoThread
  /\ depth = 0
  /\ lock_count = 0
  /\ pc = [t \in Threads |-> "idle"]
  /\ op = [t \in Threads |-> "Lock"]
  /\ reg = [t \in Threads |-> 0]
  /\ held = [t \in Threads |-> 0]
  /\ ret = [t \in Threads |-> 0]

Goto(t, from, to) ==
  /\ pc[t] = from
  /\ pc' = [pc EXCEPT ![t] = to]

-----------------------------------------------------------------------------
(* The platform mutex.                                                     *)

CanEnter(t) == owner \in {NoThread, t}

MutexEnter(t) ==
  /\ CanEnter(t)
  /\ owner' = t
  /\ depth' = depth + 1

(* A mutex that is not recursive in one respect: one leave frees it.       *)
MutexLeaveAll(t) ==
  /\ owner = t
  /\ depth' = 0
  /\ owner' = NoThread

(* A leave that never gives the mutex up.                                  *)
MutexLeaveKeeps(t) ==
  /\ owner = t
  /\ UNCHANGED mutexVars

MutexLeave(t) ==
  /\ owner = t
  /\ depth' = depth - 1
  /\ owner' = IF depth = 1 THEN NoThread ELSE t

-----------------------------------------------------------------------------
(* Lock and TryLock.                                                       *)

CallLock(t) ==
  /\ alive
  /\ held[t] < MaxDepth
  /\ Goto(t, "idle", "enter")
  /\ op' = [op EXCEPT ![t] = "Lock"]
  /\ UNCHANGED <<objectVars, mutexVars, lock_count, reg, held, ret>>

CallTryLock(t) ==
  /\ alive
  /\ build \in TryLockBuilds
  /\ held[t] < MaxDepth
  /\ lock_count \in -MaxDrift .. MaxDepth + MaxDrift
  /\ depth <= MaxDepth + MaxDrift
  /\ Goto(t, "idle", "enter")
  /\ op' = [op EXCEPT ![t] = "TryLock"]
  /\ UNCHANGED <<objectVars, mutexVars, lock_count, reg, held, ret>>

(* The mutex is the caller's: at once, or, for a Lock, after a wait.       *)
Acquire(t) ==
  /\ MutexEnter(t)
  /\ Goto(t, "enter", "incLoad")
  /\ UNCHANGED <<objectVars, lock_count, reg, callerVars>>

(* A TryLock that waits, as Lock does.                                     *)
TryFailWaits(t) ==
  /\ op[t] = "TryLock"
  /\ ~CanEnter(t)
  /\ UNCHANGED vars

(* The posix TryLock in the win32 build too.                               *)
TryFailPosix(t) ==
  /\ op[t] = "TryLock"
  /\ ~CanEnter(t)
  /\ Goto(t, "enter", "enterReturn")
  /\ UNCHANGED <<objectVars, mutexVars, lock_count, reg, callerVars>>

(* The mutex is somebody else's and TryLock does not wait: the win32 build *)
(* returns 0, the posix build goes on to return lock_count, the owner's.   *)
TryFail(t) ==
  /\ op[t] = "TryLock"
  /\ ~CanEnter(t)
  /\ \/ /\ build = "win32"
        /\ Goto(t, "enter", "idle")
        /\ ret' = [ret EXCEPT ![t] = 0]
     \/ /\ build = "posix"
        /\ Goto(t, "enter", "enterReturn")
        /\ UNCHANGED ret
  /\ UNCHANGED <<objectVars, mutexVars, lock_count, reg, op, held>>

IncLoad(t) ==
  /\ Goto(t, "incLoad", "incStore")
  /\ reg' = [reg EXCEPT ![t] = lock_count]
  /\ UNCHANGED <<objectVars, mutexVars, lock_count, callerVars>>

IncStore(t) ==
  /\ Goto(t, "incStore", "enterReturn")
  /\ lock_count' = reg[t] + 1
  /\ UNCHANGED <<objectVars, mutexVars, reg, callerVars>>

(* The count as it was before this entry.                                  *)
EnterReturnBefore(t) ==
  /\ Goto(t, "enterReturn", "idle")
  /\ ret' = [ret EXCEPT ![t] = reg[t]]
  /\ held' = [held EXCEPT ![t] = @ + 1]
  /\ UNCHANGED <<objectVars, mutexVars, lock_count, reg, op>>

(* Lock and TryLock return lock_count. The caller of Lock is inside; the   *)
(* caller of TryLock takes itself to be, unless it reads zero.             *)
EnterReturn(t) ==
  /\ Goto(t, "enterReturn", "idle")
  /\ ret' = [ret EXCEPT ![t] = lock_count]
  /\ held' = IF op[t] = "Lock" \/ lock_count # 0
               THEN [held EXCEPT ![t] = @ + 1]
               ELSE held
  /\ UNCHANGED <<objectVars, mutexVars, lock_count, reg, op>>

-----------------------------------------------------------------------------
(* Unlock and IsLocked.                                                    *)

(* An Unlock that no entry preceded.                                       *)
CallUnlockUnpaired(t) ==
  /\ alive
  /\ Goto(t, "idle", "decLoad")
  /\ held' = [held EXCEPT ![t] = @ - 1]
  /\ UNCHANGED <<objectVars, mutexVars, lock_count, reg, op, ret>>

CallUnlock(t) ==
  /\ held[t] > 0
  /\ Goto(t, "idle", "decLoad")
  /\ held' = [held EXCEPT ![t] = @ - 1]
  /\ UNCHANGED <<objectVars, mutexVars, lock_count, reg, op, ret>>

(* The decrement after the mutex has been given up.                        *)
LeaveFirst(t) ==
  /\ MutexLeave(t)
  /\ Goto(t, "decLoad", "decStore")
  /\ reg' = [reg EXCEPT ![t] = lock_count]
  /\ UNCHANGED <<objectVars, lock_count, callerVars>>

DecLoad(t) ==
  /\ Goto(t, "decLoad", "decStore")
  /\ reg' = [reg EXCEPT ![t] = lock_count]
  /\ UNCHANGED <<objectVars, mutexVars, lock_count, callerVars>>

DecStore(t) ==
  /\ Goto(t, "decStore", "leave")
  /\ lock_count' = reg[t] - 1
  /\ UNCHANGED <<objectVars, mutexVars, reg, callerVars>>

(* pthread_mutex_unlock or LeaveCriticalSection by the owner.              *)
Leave(t) ==
  /\ MutexLeave(t)
  /\ Goto(t, "leave", "unlockReturn")
  /\ UNCHANGED <<objectVars, lock_count, reg, callerVars>>

(* The recursive pthread mutex refuses a thread that does not own it and   *)
(* Unlock returns 0; lock_count is already one less. LeaveCriticalSection  *)
(* has no defined outcome here, and no action stands for it: OwnLeave says *)
(* that it does not come to that.                                          *)
LeaveRefused(t) ==
  /\ owner # t
  /\ build = "posix"
  /\ Goto(t, "leave", "idle")
  /\ ret' = [ret EXCEPT ![t] = 0]
  /\ UNCHANGED <<objectVars, mutexVars, lock_count, reg, op, held>>

(* The mutex is free for others when Unlock reads what it returns.         *)
UnlockReturn(t) ==
  /\ Goto(t, "unlockReturn", "idle")
  /\ ret' = [ret EXCEPT ![t] = lock_count]
  /\ UNCHANGED <<objectVars, mutexVars, lock_count, reg, op, held>>

IsLocked(t) ==
  /\ alive
  /\ pc[t] = "idle"
  /\ ret' = [ret EXCEPT ![t] = lock_count]
  /\ UNCHANGED <<objectVars, mutexVars, lock_count, pc, reg, op, held>>

-----------------------------------------------------------------------------
(* Release and the constructor.                                            *)

(* delete this: the duty of the last user, so nobody is in a call or has   *)
(* the lock.                                                               *)
Release ==
  /\ alive
  /\ \A t \in Threads : pc[t] = "idle" /\ held[t] = 0
  /\ alive' = FALSE
  /\ UNCHANGED <<build, mutexVars, lock_count, pc, reg, callerVars>>

(* A new object in the memory of the old one, as Hookable_Ctor makes it.   *)
Construct ==
  /\ ~alive
  /\ alive' = TRUE
  /\ owner' = NoThread
  /\ depth' = 0
  /\ lock_count' = 0
  /\ UNCHANGED <<build, pc, reg, callerVars>>

-----------------------------------------------------------------------------
(* The steps inside a call. A thread that is not blocked goes on, and a    *)
(* caller that is inside leaves in the end, since cRZLock's destructor     *)
(* does it; nothing obliges a caller to enter.                             *)
Inside(t) ==
  \/ Acquire(t) \/ TryFail(t)
  \/ IncLoad(t) \/ IncStore(t) \/ EnterReturn(t)
  \/ DecLoad(t) \/ DecStore(t)
  \/ Leave(t) \/ LeaveRefused(t) \/ UnlockReturn(t)

Next ==
  \/ \E t \in Threads :
       \/ CallLock(t) \/ CallTryLock(t) \/ CallUnlock(t) \/ IsLocked(t)
       \/ Inside(t)
  \/ Release
  \/ Construct

Spec == Init /\ [][Next]_vars

Fairness == \A t \in Threads : WF_vars(Inside(t)) /\ WF_vars(CallUnlock(t))

FairSpec == Spec /\ Fairness

-----------------------------------------------------------------------------
(* Properties.                                                             *)

(* Two callers never take themselves to be inside together: what Lock and  *)
(* TryLock, "None zero if critical section was successfully entered"       *)
(* (igzcriticalsection.h), are for.                                        *)
MutualExclusion ==
  \A t, u \in Threads : held[t] > 0 /\ held[u] > 0 => t = u

(* Every Unlock reaches the mutex as its owner, so neither an EPERM nor    *)
(* the undefined LeaveCriticalSection of another thread's mutex happens.   *)
OwnLeave == \A t \in Threads : pc[t] = "leave" => owner = t

(* The plain counter is exact although Unlock and IsLocked read it without *)
(* the mutex: zero whenever the mutex is free, and the caller's own depth  *)
(* for a caller that is inside and not in a call. No ++ or -- is lost.     *)
CountExact ==
  /\ owner = NoThread => lock_count = 0
  /\ \A t \in Threads : held[t] > 0 /\ pc[t] = "idle" => lock_count = held[t]

(* While somebody waits in Lock, somebody gets in. (Which of the waiting   *)
(* threads it is, is the platform's choice.)                               *)
SomebodyEnters ==
  (\E t \in Threads : pc[t] = "enter" /\ op[t] = "Lock")
    ~> (\E t \in Threads : pc[t] = "incLoad")

(* The calls that "will not block" return, whatever the others do.         *)
NonBlockingReturns ==
  \A t \in Threads :
    (pc[t] # "idle" /\ (pc[t] = "enter" => op[t] = "TryLock")) ~> (pc[t] = "idle")

(* The callers see a RecursiveLock.                                        *)
Promise == INSTANCE RecursiveLock WITH claims <- held

ImplementsRecursiveLock == Promise!Spec

(* rzcriticalsection.h on Unlock: "Zero if last lock was removed,          *)
(* remaining lock count otherwise." What remains of a thread's locks is    *)
(* what its caller still holds.                                            *)
UnlockReturnsRemaining ==
  [][\A t \in Threads : UnlockReturn(t) => ret'[t] = held[t]]_vars
=============================================================================
