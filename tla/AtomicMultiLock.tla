-------------------------- MODULE AtomicMultiLock --------------------------
(***************************************************************************)
(* What the generic locking algorithms of cppdevtk::base promise their     *)
(* caller: a set of lockables is obtained in one indivisible step or not   *)
(* at all, and a lockable has one owner.                                   *)
(***************************************************************************)

CONSTANTS Threads, Lockables

VARIABLE held   \* held[t]: the lockables thread t owns as the result of a call

AInit == held = [t \in Threads |-> {}]

\* Lock() returns, or TryLock() returns -1: every lockable at once.
Acquire(t, S) ==
    /\ held[t] = {}
    /\ \A u \in Threads : held[u] \cap S = {}
    /\ held' = [held EXCEPT ![t] = S]

AUnlock(t, l) ==
    /\ l \in held[t]
    /\ held' = [held EXCEPT ![t] = @ \ {l}]

ANext == \E t \in Threads :
            \/ \E S \in SUBSET Lockables : Acquire(t, S)
            \/ \E l \in Lockables : AUnlock(t, l)

ASpec == AInit /\ [][ANext]_held
=============================================================================
