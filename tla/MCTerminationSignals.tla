------------------------- MODULE MCTerminationSignals -------------------------
(* Instances of TerminationSignals: the two termination signals and two    *)
(* socket pairs, so that descriptors are reused.                           *)
EXTENDS TerminationSignals

CONSTANTS p1, p2
=============================================================================
