-------------------------- MODULE CountingSemaphore --------------------------
(***************************************************************************)
(* What the doc comment of src/fclones/src/semaphore.rs promises: a        *)
(* counter on which "access is only granted if the counter is a positive   *)
(* value" and on which each release gives one resource back.  No mutex, no *)
(* condition variable, no threads: Semaphore.tla implements this.          *)
(***************************************************************************)
EXTENDS Naturals

CONSTANT Permits          \* the count given to Semaphore::new

VARIABLES available,      \* resources that can be granted now
          granted         \* guards that exist

Init == available = Permits /\ granted = 0

Grant ==
  /\ available > 0
  /\ available' = available - 1
  /\ granted' = granted + 1

GiveBack ==
  /\ granted > 0
  /\ granted' = granted - 1
  /\ available' = available + 1

Next == Grant \/ GiveBack

Spec == Init /\ [][Next]_<<available, granted>>

=============================================================================
