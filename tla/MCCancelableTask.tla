-------------------------- MODULE MCCancelableTask --------------------------
(* An instance of CancelableTask: two threads share the future.            *)
EXTENDS CancelableTask

CONSTANTS o1, o2
=============================================================================
