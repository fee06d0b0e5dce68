----------------------------- MODULE MCSemaphore -----------------------------
(* Four threads on two permits: permits run out, several threads wait and   *)
(* are woken, and a thread can barge in between an increment and a notify.  *)
EXTENDS Semaphore
=============================================================================
