---------------------------- MODULE MCSemaphore ----------------------------
(* Instances of Semaphore: two interruptible threads and an adopted one   *)
(* compete for the permits, another thread interrupts them. *)
EXTENDS Semaphore

CONSTANTS w1, w2, w3, r, s
============================================================================
