------------------------ MODULE MCPosixSignalsWatcher ------------------------
(* Instances of PosixSignalsWatcher: two signals, and two socket pairs so  *)
(* that descriptors are reused.                                            *)
EXTENDS PosixSignalsWatcher

CONSTANTS sigTerm, sigInt, p1, p2
=============================================================================
