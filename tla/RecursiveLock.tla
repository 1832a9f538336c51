--------------------------- MODULE RecursiveLock ---------------------------
(***************************************************************************)
(* What a user of cIGZCriticalSection may rely on: the callers' view of    *)
(* the lock, without the mutex, the counter or any step of the            *)
(* implementation.                                                         *)
(*                                                                         *)
(* claims[t] is the number of times thread t has entered and not yet left. *)
(* ret[t] is the value its last call gave it.                              *)
(***************************************************************************)
EXTENDS Naturals

CONSTANTS
  Threads,
  MaxDepth    \* bound on one thread's nesting

VARIABLES claims, ret

vars == <<claims, ret>>

TypeOK ==
  /\ claims \in [Threads -> 0 .. MaxDepth]
  /\ ret \in [Threads -> 0 .. MaxDepth]

Init ==
  /\ claims = [t \in Threads |-> 0]
  /\ ret = [t \in Threads |-> 0]

(* Lock, or a TryLock that succeeds: nobody else is inside, and the caller *)
(* is told how deep it now is.                                             *)
Enter(t) ==
  /\ \A u \in Threads \ {t} : claims[u] = 0
  /\ claims[t] < MaxDepth
  /\ claims' = [claims EXCEPT ![t] = @ + 1]
  /\ ret' = [ret EXCEPT ![t] = claims[t] + 1]

(* A TryLock that fails says so; a thread that is inside is never refused. *)
Refuse(t) ==
  /\ claims[t] = 0
  /\ ret' = [ret EXCEPT ![t] = 0]
  /\ UNCHANGED claims

Exit(t) ==
  /\ claims[t] > 0
  /\ claims' = [claims EXCEPT ![t] = @ - 1]
  /\ UNCHANGED ret

(* The value Unlock returns after the exit, and the value of IsLocked: it  *)
(* is the depth for a thread that is inside, and for any other thread a    *)
(* number about somebody else that may already be out of date.             *)
Observe(t) ==
  /\ \E n \in 0 .. MaxDepth :
       /\ claims[t] > 0 => n = claims[t]
       /\ ret' = [ret EXCEPT ![t] = n]
  /\ UNCHANGED claims

Next == \E t \in Threads : Enter(t) \/ Refuse(t) \/ Exit(t) \/ Observe(t)

Spec == Init /\ [][Next]_vars
=============================================================================
