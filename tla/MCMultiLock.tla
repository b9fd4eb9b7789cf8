---------------------------- MODULE MCMultiLock ----------------------------
(* Instances of MultiLock: who calls the algorithms and with what.         *)
EXTENDS MultiLock, TLC

CONSTANTS t1, t2, t3, a, b, c

\* Two threads lock the same three lockables in opposite orders, one of them
\* also a pair; a third uses one lockable at a time.
OppositeOrders ==
    t1 :> {<<a, b, c>>} @@ t2 :> {<<c, b, a>>, <<b, a>>} @@ t3 :> {<<b>>}
=============================================================================
