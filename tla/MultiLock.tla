----------------------------- MODULE MultiLock -----------------------------
(***************************************************************************)
(* The generic locking algorithms: Lock(l1, ..., ln) and TryLock(l1, ...,  *)
(* ln) of generic_locking_algorithms.hpp, with the UniqueLock and          *)
(* LockGuard guards of locks.hpp they hold their lockables in.  The ten    *)
(* overloads of each are one algorithm over a sequence of lockables; a     *)
(* sequence of length one is a LockGuard, which only blocks.               *)
(*                                                                         *)
(* A step is one call on one lockable: what other threads can observe.     *)
(***************************************************************************)
EXTENDS Integers, Sequences

CONSTANTS
    Threads,
    Lockables,
    NoThread,       \* the owner of a free lockable
    Requests        \* Requests[t]: the argument lists thread t calls with

\* An argument list never names a lockable twice: a thread that blocks on a
\* lockable it owns is outside the contract of every mutex of the library.
ArgLists == {s \in Seq(Lockables) :
                /\ Len(s) > 0
                /\ \A i, j \in 1..Len(s) : s[i] = s[j] => i = j}

ASSUME NoThreadAssumption == NoThread \notin Threads
ASSUME RequestsAssumption ==
    \A t \in Threads : \A s \in Requests[t] : s \in ArgLists

VARIABLES
    owner,          \* owner[l]: the thread that owns lockable l
    pc,             \* pc[t]: where thread t is, see Locations
    op,             \* op[t]: the algorithm thread t is in, or "Throw": an
                    \* exception is leaving it
    args,           \* args[t]: the argument list of that call
    lockableIdx,    \* lockableIdx[t]: the argument Lock() blocks on first
    got,            \* got[t]: how many lockables its UniqueLocks own
    failIdx         \* failIdx[t]: the index its last failed attempt returned

vars == <<owner, pc, op, args, lockableIdx, got, failIdx>>

\* idle: outside; block: in the constructor of LockHelper's UniqueLock; try:
\* in the nested TryLock calls; unwind: in the destructors of the UniqueLocks
\* of a failed attempt; owned: the call has returned with every lockable.
Locations == {"idle", "block", "try", "unwind", "owned"}
-----------------------------------------------------------------------------
NumLockables(t) == Len(args[t])

\* LockHelper(lr, ..., ln, l1, ..., lr-1): position in l1, ..., ln of the
\* k-th lockable, counted from 0, of the rotation that starts with lr+1.
Rotated(r, k, n) == IF r + k < n THEN r + k + 1 ELSE r + k - n + 1

Lockable(t, k) == args[t][Rotated(lockableIdx[t], k, NumLockables(t))]

\* The lockable t gets next is free.
NextIsFree_Always(t) == TRUE            \* mutant: the result is not looked at
NextIsFree(t) == owner[Lockable(t, got[t])] = NoThread

\* The lockable t gets next is the last one of the attempt.
IsLast_OffByOne(t) == got[t] + 2 >= NumLockables(t)     \* mutant
IsLast(t) == got[t] + 1 = NumLockables(t)

\* Every UniqueLock of the failed attempt is destroyed.
Unwound_Early(t) == got[t] <= 1         \* mutant: one guard is still alive
Unwound(t) == got[t] = 0

\* lockableIdx = (lockableIdx + r) % kNumLockables, after LockHelper returned.
RetryIdx_First(t) == 0                          \* mutant: always l1 first
RetryIdx_NoRotation(t) == failIdx[t]            \* mutant: r is not added
RetryIdx_NoModulo(t) == failIdx[t] + lockableIdx[t]     \* mutant
RetryIdx(t) == (failIdx[t] + lockableIdx[t]) % NumLockables(t)

Owned(t) == {l \in Lockables : owner[l] = t}

Init ==
    /\ owner = [l \in Lockables |-> NoThread]
    /\ pc = [t \in Threads |-> "idle"]
    /\ op = [t \in Threads |-> "Lock"]
    /\ args = [t \in Threads |-> <<>>]
    /\ lockableIdx = [t \in Threads |-> 0]
    /\ got = [t \in Threads |-> 0]
    /\ failIdx = [t \in Threads |-> -1]

Call(t, algorithm, s, location) ==
    /\ pc[t] = "idle"
    /\ pc' = [pc EXCEPT ![t] = location]
    /\ op' = [op EXCEPT ![t] = algorithm]
    /\ args' = [args EXCEPT ![t] = s]
    /\ lockableIdx' = [lockableIdx EXCEPT ![t] = 0]
    /\ got' = [got EXCEPT ![t] = 0]
    /\ failIdx' = [failIdx EXCEPT ![t] = -1]
    /\ UNCHANGED owner

\* Lock(l1, ..., ln), or LockGuard(l1): the first LockHelper blocks on l1.
CallLock(t) == \E s \in Requests[t] : Call(t, "Lock", s, "block")

\* TryLock(l1, ..., ln): every lockable is tried, l1 first.
CallTryLock(t) == \E s \in Requests[t] :
    Len(s) > 1 /\ Call(t, "TryLock", s, "try")

\* t gets the next lockable of its rotation, the last one ends the call.
Take(t) ==
    /\ NextIsFree(t)
    /\ owner' = [owner EXCEPT ![Lockable(t, got[t])] = t]
    /\ got' = [got EXCEPT ![t] = @ + 1]
    /\ pc' = [pc EXCEPT ![t] = IF IsLast(t) THEN "owned" ELSE "try"]
    /\ UNCHANGED <<op, args, lockableIdx, failIdx>>

\* UniqueLock(l1) in LockHelper: returns once the lockable is free.
BlockingLock(t) == pc[t] = "block" /\ Take(t)

\* Lock() of the lockable throws LockException (EAGAIN, EINVAL, ...) and the
\* exception leaves the algorithm.
LockThrows(t) ==
    /\ pc[t] = "block"
    /\ pc' = [pc EXCEPT ![t] = "idle"]
    /\ UNCHANGED <<owner, op, args, lockableIdx, got, failIdx>>

TryLockSucceeds(t) == pc[t] = "try" /\ Take(t)

\* A lockable of the attempt is busy: its position is the returned index and
\* the UniqueLocks constructed so far go out of scope.
TryLockFails(t) ==
    /\ pc[t] = "try"
    /\ ~NextIsFree(t)
    /\ failIdx' = [failIdx EXCEPT ![t] = got[t]]
    /\ pc' = [pc EXCEPT ![t] = "unwind"]
    /\ UNCHANGED <<owner, op, args, lockableIdx, got>>

\* TryLock() of a lockable of the attempt throws LockException: nothing was
\* got, and the exception destroys the UniqueLocks on its way out.
TryLockThrows(t) ==
    /\ pc[t] = "try"
    /\ op' = [op EXCEPT ![t] = "Throw"]
    /\ failIdx' = [failIdx EXCEPT ![t] = got[t]]
    /\ pc' = [pc EXCEPT ![t] = "unwind"]
    /\ UNCHANGED <<owner, args, lockableIdx, got>>

\* ~UniqueLock(): the last one constructed is destroyed first.
Unwind(t) ==
    /\ pc[t] = "unwind"
    /\ ~Unwound(t)
    /\ owner' = [owner EXCEPT ![Lockable(t, got[t] - 1)] = NoThread]
    /\ got' = [got EXCEPT ![t] = @ - 1]
    /\ UNCHANGED <<pc, op, args, lockableIdx, failIdx>>

\* Lock() starts again at the lockable that was busy.
Retry(t) ==
    /\ pc[t] = "unwind"
    /\ Unwound(t)
    /\ op[t] = "Lock"
    /\ lockableIdx' = [lockableIdx EXCEPT ![t] = RetryIdx(t)]
    /\ pc' = [pc EXCEPT ![t] = "block"]
    /\ UNCHANGED <<owner, op, args, got, failIdx>>

\* TryLock() returns the index of the lockable that was busy, or an exception
\* leaves the call.
TryLockReturns(t) ==
    /\ pc[t] = "unwind"
    /\ Unwound(t)
    /\ op[t] \in {"TryLock", "Throw"}
    /\ pc' = [pc EXCEPT ![t] = "idle"]
    /\ UNCHANGED <<owner, op, args, lockableIdx, got, failIdx>>

\* The caller's guards (AdoptLockT) unlock in the order it destroys them.
Unlock(t, l) ==
    /\ pc[t] = "owned"
    /\ owner[l] = t
    /\ owner' = [owner EXCEPT ![l] = NoThread]
    /\ pc' = [pc EXCEPT ![t] = IF Owned(t) = {l} THEN "idle" ELSE "owned"]
    /\ UNCHANGED <<op, args, lockableIdx, got, failIdx>>

\* What a thread does once it is in a call, or owns what the call gave it.
Proceed(t) ==
    \/ TryLockSucceeds(t)
    \/ TryLockFails(t)
    \/ Unwind(t)
    \/ Retry(t)
    \/ TryLockReturns(t)
    \/ \E l \in Lockables : Unlock(t, l)

Step(t) ==
    \/ CallLock(t)
    \/ CallTryLock(t)
    \/ BlockingLock(t)
    \/ LockThrows(t)
    \/ TryLockThrows(t)
    \/ Proceed(t)

Next == \E t \in Threads : Step(t)

Spec == Init /\ [][Next]_vars

\* Every thread is scheduled, critical sections end (UniqueLock and LockGuard
\* unlock in their destructors) and a mutex that becomes free again and again
\* is eventually given to a thread blocked on it.
Fairness == \A t \in Threads : WF_vars(Proceed(t)) /\ SF_vars(BlockingLock(t))

FairSpec == Spec /\ Fairness
-----------------------------------------------------------------------------
TypeOK ==
    /\ owner \in [Lockables -> Threads \cup {NoThread}]
    /\ pc \in [Threads -> Locations]
    /\ op \in [Threads -> {"Lock", "TryLock", "Throw"}]
    /\ args \in [Threads -> Seq(Lockables)]
    /\ lockableIdx \in [Threads -> Nat]
    /\ got \in [Threads -> Nat]
    /\ failIdx \in [Threads -> Int]

\* A lockable a thread owns is one it got in the attempt it is in: a failed
\* attempt, a call that threw and a TryLock() that returned an index leave
\* nothing locked behind (the UniqueLock and Release() protocol of TryLock
\* and LockHelper).
OwnsItsAttempt(t) ==
    /\ pc[t] \in {"idle", "block"} => Owned(t) = {}
    /\ pc[t] \in {"try", "unwind"} =>
            Owned(t) = {Lockable(t, k) : k \in 0..(got[t] - 1)}
    /\ pc[t] = "owned" =>
            Owned(t) # {} /\ Owned(t) \subseteq {args[t][i] : i \in DOMAIN args[t]}

NoLockLeaked == \A t \in Threads : OwnsItsAttempt(t)

\* The bookkeeping of a call in progress stays within its argument list.
InsideArgs(t) == pc[t] # "idle" =>
    /\ args[t] \in ArgLists
    /\ lockableIdx[t] \in 0..(NumLockables(t) - 1)
    /\ pc[t] = "block" => got[t] = 0
    /\ pc[t] \in {"try", "unwind"} => got[t] \in 0..(NumLockables(t) - 1)
    /\ pc[t] = "unwind" => failIdx[t] \in 0..(NumLockables(t) - 1)

\* The inductive invariant: NoLockLeaked alone is not one, a step needs to
\* know that the position it uses lies in the argument list.
IInv == TypeOK /\ (\A t \in Threads : InsideArgs(t)) /\ NoLockLeaked

\* No hold and wait: whoever blocks in Lock() owns no lockable, so no cycle of
\* threads can wait for each other whatever the argument orders are.
NoHoldAndWait == \A t \in Threads :
    pc[t] = "block" => \A l \in Lockables : owner[l] # t

\* A call that returns success owns every lockable it was given, whichever
\* rotation its last attempt used.
ReturnsWithAll == [][\A t \in Threads :
    pc[t] # "owned" /\ pc'[t] = "owned" =>
        \A i \in DOMAIN args[t] : owner'[args[t][i]] = t]_vars

\* A Lock() that starts again blocks on the very lockable that was busy: it
\* adds the rotation to the index LockHelper returned, modulo the number of
\* lockables.
BlocksOnBusy == [][\A t \in Threads :
    pc[t] = "unwind" /\ pc'[t] = "block" =>
        Lockable(t, 0)' = Lockable(t, failIdx[t])]_vars

\* To its callers a call obtains its lockables all at once: the attempts it
\* makes and undoes on the way are invisible.
heldByCaller == [t \in Threads |-> IF pc[t] = "owned" THEN Owned(t) ELSE {}]

Atomic == INSTANCE AtomicMultiLock WITH held <- heldByCaller
LocksAtomically == Atomic!ASpec

\* Lock() returns, unless for ever again another call competes with it for
\* several lockables: users of single lockables cannot keep it retrying,
\* because it blocks on the one that was busy.
UsesOne(u) == pc[u] = "idle" \/ NumLockables(u) = 1

LockReturns == \A t \in Threads :
    <>[](\A u \in Threads \ {t} : UsesOne(u)) =>
        (pc[t] = "block" ~> pc[t] \in {"owned", "idle"})
=============================================================================
