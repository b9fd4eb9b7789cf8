------------------------- MODULE MCPhoenixSingleton -------------------------
(* Instances of PhoenixSingleton.                                          *)
EXTENDS PhoenixSingleton

CONSTANTS u1, u2, u3
=============================================================================
