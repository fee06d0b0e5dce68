------------------------------ MODULE Semaphore ------------------------------
(***************************************************************************)
(* The counting semaphore of src/fclones/src/semaphore.rs: a count behind  *)
(* a mutex and a condition variable.  fclones uses it twice: a global one  *)
(* bounds the files open at the same time (rlimit.rs), and one per device  *)
(* bounds the hashing tasks queued on the device's pool (rehash).          *)
(*                                                                         *)
(* A step is one critical section of the mutex, or one call made outside   *)
(* it: the count is touched nowhere else, so the mutex itself is not a     *)
(* variable.  The guards are not tied to a thread: an OwnedSemaphoreGuard  *)
(* is acquired on one thread and dropped on another.                       *)
(***************************************************************************)
EXTENDS Integers, FiniteSets

CONSTANTS Callers,        \* the threads that call the semaphore
          Permits         \* the count given to Semaphore::new

ASSUME CallersAssumption == IsFiniteSet(Callers)
ASSUME PermitsAssumption == Permits \in Nat \ {0}

VARIABLES count,          \* the integer behind the mutex
          guards,         \* guards that exist, in whatever thread
          pc              \* where each thread is

semaphoreVars == <<count, guards, pc>>

\* Threads blocked in cvar.wait.
Waiters == {t \in Callers : pc[t] = "waiting"}

\* Threads that will still run code that can consume or hand on a wake-up.
Movers == {t \in Callers : pc[t] \in {"acquire", "notify"}}

SemaphoreInit ==
  /\ count = Permits
  /\ guards = 0
  /\ pc = [t \in Callers |-> "idle"]

\* A thread calls acquire, access or access_owned.
CallAcquire(t) ==
  /\ pc[t] = "idle"
  /\ pc' = [pc EXCEPT ![t] = "acquire"]
  /\ UNCHANGED <<count, guards>>

\* Mutated form of TakePermit: the loop condition is `count < 0`.
TakePermitAtZero(t) ==
  /\ pc[t] = "acquire"
  /\ count >= 0
  /\ count' = count - 1
  /\ guards' = guards + 1
  /\ pc' = [pc EXCEPT ![t] = "idle"]

\* `while *count <= 0` is false: take the permit and return the guard.
TakePermit(t) ==
  /\ pc[t] = "acquire"
  /\ count > 0
  /\ count' = count - 1
  /\ guards' = guards + 1
  /\ pc' = [pc EXCEPT ![t] = "idle"]

\* `while *count <= 0` is true: cvar.wait unlocks and blocks in one step.
WaitOnCondvar(t) ==
  /\ pc[t] = "acquire"
  /\ count <= 0
  /\ pc' = [pc EXCEPT ![t] = "waiting"]
  /\ UNCHANGED <<count, guards>>

\* A condition variable may wake a thread that nobody notified; the loop
\* tests the count again.
SpuriousWakeup(t) ==
  /\ pc[t] = "waiting"
  /\ pc' = [pc EXCEPT ![t] = "acquire"]
  /\ UNCHANGED <<count, guards>>

\* Dropping a guard: release increments the count and unlocks ...
Release(t) ==
  /\ pc[t] = "idle"
  /\ guards > 0
  /\ guards' = guards - 1
  /\ count' = count + 1
  /\ pc' = [pc EXCEPT ![t] = "notify"]

\* Mutated form of Wake: the notification reaches nobody.
WakeNobody(t, w) == pc' = [pc EXCEPT ![t] = "idle"]

\* ... and only then calls notify_one, which wakes one waiter ...
Wake(t, w) == pc' = [pc EXCEPT ![t] = "idle", ![w] = "acquire"]

NotifyWaiter(t) ==
  /\ pc[t] = "notify"
  /\ \E w \in Waiters : Wake(t, w)
  /\ UNCHANGED <<count, guards>>

\* ... and is lost if nobody waits.
NotifyNobody(t) ==
  /\ pc[t] = "notify"
  /\ Waiters = {}
  /\ pc' = [pc EXCEPT ![t] = "idle"]
  /\ UNCHANGED <<count, guards>>

\* The steps a thread inside acquire or release makes by itself.
Inside(t) ==
  TakePermit(t) \/ WaitOnCondvar(t) \/ NotifyWaiter(t) \/ NotifyNobody(t)

SemaphoreNext ==
  \E t \in Callers :
    CallAcquire(t) \/ Release(t) \/ SpuriousWakeup(t) \/ Inside(t)

\* A runnable thread runs.  Callers need not call, guards need not be dropped
\* and no thread is ever woken without a notification.
SemaphoreFairness == \A t \in Callers : WF_semaphoreVars(Inside(t))

SemaphoreSpec == SemaphoreInit /\ [][SemaphoreNext]_semaphoreVars /\ SemaphoreFairness

-----------------------------------------------------------------------------

SemaphoreTypeOK ==
  /\ count \in Int
  /\ guards \in Nat
  /\ pc \in [Callers -> {"idle", "acquire", "waiting", "notify"}]

\* Permits are neither created nor lost, and never over-committed, whatever
\* thread drops a guard: the limit on open files and on queued tasks.
PermitsConserved == count >= 0 /\ count + guards = Permits

\* No wake-up is lost.  release notifies after it has unlocked, so between
\* the two another thread may take the permit, or start to wait: still, while
\* someone waits, every free permit has a thread on its way to it.
NoLostWakeup == Waiters # {} => count <= Cardinality(Movers)

\* Nobody sleeps for ever beside a free permit.
NoSleepBesideFreePermit ==
  \A t \in Callers : ~<>[](pc[t] = "waiting" /\ count > 0)

\* The two critical sections implement the abstract semaphore; everything
\* else is a stutter.
Counting == INSTANCE CountingSemaphore WITH available <- count, granted <- guards
ImplementsCountingSemaphore == Counting!Spec

=============================================================================
