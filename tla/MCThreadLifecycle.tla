------------------------- MODULE MCThreadLifecycle -------------------------
(* Instances of ThreadLifecycle.                                           *)
EXTENDS ThreadLifecycle
=============================================================================
