-------------------------- MODULE MultiLock_proofs --------------------------
(* Proofs about MultiLock, for every set of threads, lockables, requests.  *)
EXTENDS MultiLock, TLAPS

\* The positions of a rotation name different lockables (the switch over
\* lockableIdx in Lock(l1, ..., ln)).
LEMMA RotationInjective ==
    ASSUME NEW t \in Threads, TypeOK,
           args[t] \in ArgLists,
           lockableIdx[t] \in 0..(NumLockables(t) - 1),
           NEW j \in 0..(NumLockables(t) - 1),
           NEW k \in 0..(NumLockables(t) - 1),
           Lockable(t, j) = Lockable(t, k)
    PROVE  j = k
<1> DEFINE n == NumLockables(t)
           r == lockableIdx[t]
<1>1. n \in Nat /\ n > 0
    BY DEF NumLockables, ArgLists
<1>2. Rotated(r, j, n) \in 1..n /\ Rotated(r, k, n) \in 1..n
    BY <1>1 DEF Rotated
<1>3. args[t][Rotated(r, j, n)] = args[t][Rotated(r, k, n)]
    BY DEF Lockable
<1>4. Rotated(r, j, n) = Rotated(r, k, n)
    BY <1>2, <1>3 DEF ArgLists, NumLockables
<1> QED
    BY <1>1, <1>4 DEF Rotated

\* Every position of a rotation names a lockable of the argument list.
LEMMA RotationInList ==
    ASSUME NEW t \in Threads, TypeOK,
           args[t] \in ArgLists,
           lockableIdx[t] \in 0..(NumLockables(t) - 1),
           NEW k \in 0..(NumLockables(t) - 1)
    PROVE  /\ Lockable(t, k) \in Lockables
           /\ Lockable(t, k) \in {args[t][i] : i \in DOMAIN args[t]}
<1> DEFINE n == NumLockables(t)
           r == lockableIdx[t]
           p == Rotated(r, k, n)
<1>1. n \in Nat /\ n > 0
    BY DEF NumLockables, ArgLists
<1>2. p \in 1..n
    BY <1>1 DEF Rotated
<1>3. p \in DOMAIN args[t] /\ args[t][p] \in Lockables
    BY <1>2 DEF NumLockables, ArgLists
<1> QED
    BY <1>3 DEF Lockable

\* A rotation leaves no lockable of the argument list out.
LEMMA RotationCovers ==
    ASSUME NEW t \in Threads, TypeOK,
           args[t] \in ArgLists,
           lockableIdx[t] \in 0..(NumLockables(t) - 1),
           NEW i \in DOMAIN args[t]
    PROVE  \E k \in 0..(NumLockables(t) - 1) : Lockable(t, k) = args[t][i]
<1> DEFINE n == NumLockables(t)
           r == lockableIdx[t]
           k == IF i - 1 >= r THEN i - 1 - r ELSE i - 1 - r + n
<1>1. n \in Nat /\ n > 0 /\ i \in 1..n
    BY DEF NumLockables, ArgLists
<1>2. k \in 0..(n - 1)
    BY <1>1 DEF Rotated
<1>3. Rotated(r, k, n) = i
    BY <1>1 DEF Rotated
<1>4. Lockable(t, k) = args[t][i]
    BY <1>3 DEF Lockable
<1> QED
    BY <1>2, <1>4

LEMMA InitIInv == Init => IInv
BY NoThreadAssumption
    DEF Init, IInv, TypeOK, InsideArgs, NoLockLeaked, OwnsItsAttempt, Owned,
        Locations

\* What a step does not touch of a thread keeps that thread's invariant.
LEMMA Frame ==
    ASSUME NEW u \in Threads,
           InsideArgs(u), OwnsItsAttempt(u),
           pc'[u] = pc[u], args'[u] = args[u],
           lockableIdx'[u] = lockableIdx[u], got'[u] = got[u],
           failIdx'[u] = failIdx[u],
           Owned(u)' = Owned(u)
    PROVE  InsideArgs(u)' /\ OwnsItsAttempt(u)'
<1>1. NumLockables(u)' = NumLockables(u)
    BY DEF NumLockables
<1>2. \A k : Lockable(u, k)' = Lockable(u, k)
    BY <1>1 DEF Lockable
<1>3. InsideArgs(u)'
    BY <1>1 DEF InsideArgs
<1>4. OwnsItsAttempt(u)'
    BY <1>2 DEF OwnsItsAttempt
<1> QED
    BY <1>3, <1>4

\* A step of t that gives a free lockable to t, or frees one of t, leaves what
\* every other thread owns as it was.
LEMMA OthersKeep ==
    ASSUME TypeOK, NEW t \in Threads, NEW u \in Threads, u # t,
           NEW l \in Lockables, owner[l] \in {NoThread, t},
           NEW o \in {NoThread, t}, owner' = [owner EXCEPT ![l] = o]
    PROVE  Owned(u)' = Owned(u)
BY NoThreadAssumption DEF Owned, TypeOK

\* A call starts from a thread that owns nothing.
LEMMA CallStep ==
    ASSUME IInv, NEW t \in Threads, NEW s \in ArgLists,
           NEW algorithm \in {"Lock", "TryLock"},
           NEW location \in {"block", "try"},
           Call(t, algorithm, s, location)
    PROVE  IInv'
<1>1. TypeOK'
    BY DEF IInv, TypeOK, Call, Locations, ArgLists
<1>2. Owned(t) = {} /\ \A u \in Threads : Owned(u)' = Owned(u)
    BY DEF IInv, NoLockLeaked, OwnsItsAttempt, Call, Owned
<1>3. args'[t] = s /\ NumLockables(t)' \in Nat /\ NumLockables(t)' > 0
    BY DEF IInv, TypeOK, Call, NumLockables, ArgLists
<1>4. pc'[t] = location /\ got'[t] = 0 /\ lockableIdx'[t] = 0
    BY DEF IInv, TypeOK, Call
<1>5. InsideArgs(t)'
    BY <1>3, <1>4 DEF InsideArgs
<1>6. OwnsItsAttempt(t)'
    BY <1>2, <1>4 DEF OwnsItsAttempt
<1>7. ASSUME NEW u \in Threads, u # t
      PROVE  InsideArgs(u)' /\ OwnsItsAttempt(u)'
    BY <1>2, <1>7, Frame DEF IInv, NoLockLeaked, TypeOK, Call
<1> QED
    BY <1>1, <1>5, <1>6, <1>7 DEF IInv, NoLockLeaked

\* Taking the next lockable of the rotation.
LEMMA TakeStep ==
    ASSUME IInv, NEW t \in Threads, pc[t] \in {"block", "try"}, Take(t)
    PROVE  IInv'
<1> DEFINE n == NumLockables(t)
           m == Lockable(t, got[t])
<1>1. /\ args[t] \in ArgLists
      /\ lockableIdx[t] \in 0..(n - 1)
      /\ n \in Nat /\ n > 0
      /\ got[t] \in 0..(n - 1)
    BY DEF IInv, InsideArgs, NumLockables, ArgLists
<1>2. m \in Lockables /\ m \in {args[t][i] : i \in DOMAIN args[t]}
    BY <1>1, RotationInList DEF IInv
<1>3. owner' = [owner EXCEPT ![m] = t] /\ owner[m] = NoThread
    BY DEF Take, NextIsFree
<1>4. /\ pc'[t] = IF got[t] + 1 = n THEN "owned" ELSE "try"
      /\ got'[t] = got[t] + 1
      /\ args'[t] = args[t] /\ lockableIdx'[t] = lockableIdx[t]
    BY DEF IInv, TypeOK, Take, IsLast
<1>5. TypeOK'
    BY <1>2, <1>3 DEF IInv, TypeOK, Take, Locations
<1>6. NumLockables(t)' = n /\ \A k : Lockable(t, k)' = Lockable(t, k)
    BY <1>4 DEF NumLockables, Lockable
<1>7. InsideArgs(t)'
    BY <1>1, <1>4, <1>6 DEF InsideArgs
<1>8. Owned(t)' = Owned(t) \cup {m}
    BY <1>2, <1>3 DEF Owned, IInv, TypeOK
<1>9. Owned(t) = {Lockable(t, k) : k \in 0..(got[t] - 1)}
    <2>1. CASE pc[t] = "block"
        BY <2>1 DEF IInv, NoLockLeaked, OwnsItsAttempt, InsideArgs
    <2>2. CASE pc[t] = "try"
        BY <2>2 DEF IInv, NoLockLeaked, OwnsItsAttempt
    <2> QED
        BY <2>1, <2>2
<1>10. Owned(t)' = {Lockable(t, k) : k \in 0..(got'[t] - 1)}
    BY <1>1, <1>4, <1>8, <1>9
<1>11. Owned(t)' \subseteq {args[t][i] : i \in DOMAIN args[t]}
    <2> SUFFICES ASSUME NEW k \in 0..(got'[t] - 1)
                 PROVE  Lockable(t, k) \in {args[t][i] : i \in DOMAIN args[t]}
        BY <1>10
    <2>1. k \in 0..(n - 1)
        BY <1>1, <1>4
    <2> QED
        BY <2>1, <1>1, RotationInList DEF IInv
<1>12. OwnsItsAttempt(t)'
    BY <1>4, <1>6, <1>8, <1>10, <1>11 DEF OwnsItsAttempt
<1>13. ASSUME NEW u \in Threads, u # t
       PROVE  InsideArgs(u)' /\ OwnsItsAttempt(u)'
    <2>1. Owned(u)' = Owned(u)
        BY <1>2, <1>3, <1>13, OthersKeep DEF IInv
    <2> QED
        BY <2>1, <1>13, Frame DEF IInv, NoLockLeaked, TypeOK, Take
<1> QED
    BY <1>5, <1>7, <1>12, <1>13 DEF IInv, NoLockLeaked

\* Destroying the UniqueLock constructed last.
LEMMA UnwindStep ==
    ASSUME IInv, NEW t \in Threads, Unwind(t)
    PROVE  IInv'
<1> DEFINE n == NumLockables(t)
           m == Lockable(t, got[t] - 1)
<1>1. /\ args[t] \in ArgLists
      /\ lockableIdx[t] \in 0..(n - 1)
      /\ n \in Nat /\ n > 0
      /\ got[t] - 1 \in 0..(n - 1)
      /\ got[t] \in 0..(n - 1)
      /\ failIdx[t] \in 0..(n - 1)
    BY DEF IInv, TypeOK, InsideArgs, NumLockables, ArgLists, Unwind, Unwound
<1>2. m \in Lockables
    BY <1>1, RotationInList DEF IInv
<1>3. Owned(t) = {Lockable(t, k) : k \in 0..(got[t] - 1)}
    BY DEF IInv, NoLockLeaked, OwnsItsAttempt, Unwind
<1>4. m \in Owned(t)
    BY <1>1, <1>3
<1>5. owner' = [owner EXCEPT ![m] = NoThread] /\ owner[m] = t
    BY <1>4 DEF Unwind, Owned
<1>6. /\ pc'[t] = "unwind" /\ got'[t] = got[t] - 1
      /\ args'[t] = args[t] /\ lockableIdx'[t] = lockableIdx[t]
      /\ failIdx'[t] = failIdx[t]
    BY DEF IInv, TypeOK, Unwind
<1>7. TypeOK'
    BY <1>1, <1>2, <1>5 DEF IInv, TypeOK, Unwind
<1>8. NumLockables(t)' = n /\ \A k : Lockable(t, k)' = Lockable(t, k)
    BY <1>6 DEF NumLockables, Lockable
<1>9. InsideArgs(t)'
    BY <1>1, <1>6, <1>8 DEF InsideArgs
<1>10. Owned(t)' = Owned(t) \ {m}
    BY <1>2, <1>5, NoThreadAssumption DEF Owned, IInv, TypeOK
<1>11. Owned(t)' = {Lockable(t, k) : k \in 0..(got'[t] - 1)}
    <2>1. ASSUME NEW k \in 0..(got[t] - 2) PROVE Lockable(t, k) # m
        <3>1. k \in 0..(n - 1) /\ k # got[t] - 1
            BY <1>1
        <3> QED
            BY <3>1, <1>1, RotationInjective DEF IInv
    <2>2. \A k : k \in 0..(got[t] - 1) <=> k \in 0..(got[t] - 2) \/ k = got[t] - 1
        BY <1>1
    <2> QED
        BY <2>1, <2>2, <1>1, <1>3, <1>6, <1>10
<1>12. OwnsItsAttempt(t)'
    BY <1>6, <1>8, <1>11 DEF OwnsItsAttempt
<1>13. ASSUME NEW u \in Threads, u # t
       PROVE  InsideArgs(u)' /\ OwnsItsAttempt(u)'
    <2>1. Owned(u)' = Owned(u)
        BY <1>2, <1>5, <1>13, OthersKeep DEF IInv
    <2> QED
        BY <2>1, <1>13, Frame DEF IInv, NoLockLeaked, TypeOK, Unwind
<1> QED
    BY <1>7, <1>9, <1>12, <1>13 DEF IInv, NoLockLeaked

\* A guard of the caller unlocks.
LEMMA UnlockStep ==
    ASSUME IInv, NEW t \in Threads, NEW l \in Lockables, Unlock(t, l)
    PROVE  IInv'
<1>1. TypeOK'
    BY DEF IInv, TypeOK, Unlock, Locations
<1>2. Owned(t)' = Owned(t) \ {l}
    BY NoThreadAssumption DEF Owned, IInv, TypeOK, Unlock
<1>3. /\ pc[t] = "owned" /\ args'[t] = args[t]
      /\ lockableIdx'[t] = lockableIdx[t]
      /\ pc'[t] = IF Owned(t) = {l} THEN "idle" ELSE "owned"
    BY DEF IInv, TypeOK, Unlock
<1>4. Owned(t) # {} /\ Owned(t) \subseteq {args[t][i] : i \in DOMAIN args[t]}
    BY <1>3 DEF IInv, NoLockLeaked, OwnsItsAttempt
<1>5. OwnsItsAttempt(t)'
    BY <1>2, <1>3, <1>4 DEF OwnsItsAttempt
<1>6. InsideArgs(t)'
    BY <1>3 DEF IInv, InsideArgs, NumLockables
<1>7. ASSUME NEW u \in Threads, u # t
      PROVE  InsideArgs(u)' /\ OwnsItsAttempt(u)'
    <2>1. Owned(u)' = Owned(u)
        BY <1>7, OthersKeep DEF IInv, Unlock
    <2> QED
        BY <2>1, <1>7, Frame DEF IInv, NoLockLeaked, TypeOK, Unlock
<1> QED
    BY <1>1, <1>5, <1>6, <1>7 DEF IInv, NoLockLeaked

\* The steps that touch no lockable.
LEMMA LocalStep ==
    ASSUME IInv, NEW t \in Threads,
           LockThrows(t) \/ TryLockThrows(t) \/ TryLockFails(t) \/ Retry(t)
               \/ TryLockReturns(t)
    PROVE  IInv'
<1>1. ASSUME NEW u \in Threads
      PROVE  Owned(u)' = Owned(u)
    BY DEF Owned, LockThrows, TryLockThrows, TryLockFails, Retry, TryLockReturns
<1>2. ASSUME NEW u \in Threads, u # t
      PROVE  InsideArgs(u)' /\ OwnsItsAttempt(u)'
    BY <1>1, <1>2, Frame
        DEF IInv, NoLockLeaked, TypeOK, LockThrows, TryLockThrows, TryLockFails, Retry,
            TryLockReturns
<1>3. TypeOK' /\ InsideArgs(t)' /\ OwnsItsAttempt(t)'
    <2> DEFINE n == NumLockables(t)
    <2>1. pc[t] # "idle" /\ args[t] \in ArgLists /\ n \in Nat /\ n > 0
        BY DEF IInv, InsideArgs, NumLockables, ArgLists, LockThrows, TryLockThrows,
               TryLockFails, Retry, TryLockReturns
    <2>2. args'[t] = args[t] /\ NumLockables(t)' = n
        BY DEF NumLockables, LockThrows, TryLockThrows, TryLockFails, Retry, TryLockReturns
    <2>3. CASE LockThrows(t) \/ TryLockReturns(t)
        <3>1. TypeOK' /\ pc'[t] = "idle"
            BY <2>3 DEF IInv, TypeOK, LockThrows, TryLockThrows, TryLockReturns, Locations
        <3>2. Owned(t) = {}
            <4>1. CASE LockThrows(t)
                BY <4>1 DEF IInv, NoLockLeaked, OwnsItsAttempt, LockThrows
            <4>2. CASE TryLockReturns(t)
                BY <4>2 DEF IInv, NoLockLeaked, OwnsItsAttempt, TryLockReturns, Unwound
            <4> QED
                BY <2>3, <4>1, <4>2
        <3> QED
            BY <3>1, <3>2, <1>1 DEF InsideArgs, OwnsItsAttempt
    <2>4. CASE TryLockFails(t) \/ TryLockThrows(t)
        <3>1. TypeOK'
            <4>1. CASE TryLockFails(t)
                BY <4>1 DEF IInv, TypeOK, TryLockFails, Locations
            <4>2. CASE TryLockThrows(t)
                BY <4>2 DEF IInv, TypeOK, TryLockThrows, Locations
            <4> QED
                BY <2>4, <4>1, <4>2
        <3>2. /\ pc[t] = "try" /\ pc'[t] = "unwind" /\ got'[t] = got[t]
              /\ failIdx'[t] = got[t] /\ lockableIdx'[t] = lockableIdx[t]
            BY <2>4 DEF IInv, TypeOK, TryLockFails, TryLockThrows
        <3>3. InsideArgs(t)'
            BY <3>2, <2>2 DEF IInv, InsideArgs
        <3>4. \A k : Lockable(t, k)' = Lockable(t, k)
            BY <3>2, <2>2 DEF Lockable
        <3>5. OwnsItsAttempt(t)'
            BY <3>2, <3>4, <1>1 DEF IInv, NoLockLeaked, OwnsItsAttempt
        <3> QED
            BY <3>1, <3>3, <3>5
    <2>5. CASE Retry(t)
        <3>1. /\ pc[t] = "unwind" /\ pc'[t] = "block"
              /\ got[t] = 0 /\ got'[t] = 0
              /\ lockableIdx'[t] = (failIdx[t] + lockableIdx[t]) % n
            BY <2>5 DEF IInv, TypeOK, Retry, Unwound, RetryIdx
        <3>2. failIdx[t] \in 0..(n - 1) /\ lockableIdx[t] \in 0..(n - 1)
            BY <3>1 DEF IInv, InsideArgs
        <3>3. lockableIdx'[t] \in 0..(n - 1)
            BY <2>1, <3>1, <3>2
        <3>4. TypeOK'
            BY <2>5, <2>1, <3>1, <3>3 DEF IInv, TypeOK, Retry, Locations
        <3>5. InsideArgs(t)'
            BY <2>1, <2>2, <3>1, <3>3 DEF InsideArgs
        <3>6. Owned(t) = {}
            BY <3>1 DEF IInv, NoLockLeaked, OwnsItsAttempt
        <3> QED
            BY <3>1, <3>4, <3>5, <3>6, <1>1 DEF OwnsItsAttempt
    <2> QED
        BY <2>3, <2>4, <2>5
<1> QED
    BY <1>2, <1>3 DEF IInv, NoLockLeaked

LEMMA NextIInv == IInv /\ [Next]_vars => IInv'
<1> SUFFICES ASSUME IInv, [Next]_vars PROVE IInv'
    OBVIOUS
<1>1. ASSUME NEW t \in Threads, CallLock(t) PROVE IInv'
    BY <1>1, CallStep, RequestsAssumption DEF CallLock
<1>2. ASSUME NEW t \in Threads, CallTryLock(t) PROVE IInv'
    BY <1>2, CallStep, RequestsAssumption DEF CallTryLock
<1>3. ASSUME NEW t \in Threads, BlockingLock(t) PROVE IInv'
    BY <1>3, TakeStep DEF BlockingLock
<1>4. ASSUME NEW t \in Threads, LockThrows(t) \/ TryLockThrows(t) PROVE IInv'
    BY <1>4, LocalStep
<1>5. ASSUME NEW t \in Threads, Proceed(t) PROVE IInv'
    <2>1. CASE TryLockSucceeds(t)
        BY <2>1, TakeStep DEF TryLockSucceeds
    <2>2. CASE TryLockFails(t) \/ Retry(t) \/ TryLockReturns(t)
        BY <2>2, LocalStep
    <2>3. CASE Unwind(t)
        BY <2>3, UnwindStep
    <2>4. ASSUME NEW l \in Lockables, Unlock(t, l) PROVE IInv'
        BY <2>4, UnlockStep
    <2> QED
        BY <1>5, <2>1, <2>2, <2>3, <2>4 DEF Proceed
<1>6. CASE UNCHANGED vars
    <2>1. TypeOK'
        BY <1>6 DEF IInv, TypeOK, vars
    <2>2. ASSUME NEW u \in Threads PROVE InsideArgs(u)' /\ OwnsItsAttempt(u)'
        BY <1>6, Frame DEF IInv, NoLockLeaked, vars, Owned
    <2> QED
        BY <2>1, <2>2 DEF IInv, NoLockLeaked
<1> QED
    BY <1>1, <1>2, <1>3, <1>4, <1>5, <1>6 DEF Next, Step
-----------------------------------------------------------------------------
\* The inductive invariant holds in every reachable state.
THEOREM Invariant == Spec => []IInv
<1> QED
    BY InitIInv, NextIInv, PTL DEF Spec

\* Type correctness of the algorithms' state.
THEOREM TypeCorrect == Spec => []TypeOK
<1>1. IInv => TypeOK
    BY DEF IInv
<1> QED
    BY Invariant, <1>1, PTL

\* For any number of threads and lockables, no failed attempt, exception or
\* returned index leaves a lockable locked (UniqueLock in TryLock, LockHelper).
THEOREM NothingLeaked == Spec => []NoLockLeaked
<1>1. IInv => NoLockLeaked
    BY DEF IInv
<1> QED
    BY Invariant, <1>1, PTL

\* Whoever blocks in Lock(l1, ..., ln) owns no lockable, whatever the argument
\* orders of the callers are: there is no cycle of waiting threads.
THEOREM BlockedOwnNothing == Spec => []NoHoldAndWait
<1>1. IInv => NoHoldAndWait
    BY DEF IInv, NoLockLeaked, OwnsItsAttempt, NoHoldAndWait, Owned
<1> QED
    BY Invariant, <1>1, PTL

\* Only a thread's own steps move it.
LEMMA OwnStep ==
    ASSUME IInv, [Next]_vars, NEW t \in Threads, pc'[t] # pc[t]
    PROVE  Step(t)
<1>1. PICK u \in Threads : Step(u)
    BY DEF Next, vars
<1>2. ASSUME u # t PROVE pc'[t] = pc[t]
    <2>1. CASE CallLock(u) \/ CallTryLock(u)
        BY <1>2, <2>1 DEF CallLock, CallTryLock, Call, IInv, TypeOK
    <2>2. CASE BlockingLock(u) \/ LockThrows(u) \/ TryLockThrows(u)
        BY <1>2, <2>2 DEF BlockingLock, LockThrows, TryLockThrows, Take, IInv, TypeOK
    <2>3. CASE Proceed(u)
        BY <1>2, <2>3 DEF Proceed, TryLockSucceeds, TryLockFails, Take, Unwind,
            Retry, TryLockReturns, Unlock, IInv, TypeOK
    <2> QED
        BY <1>1, <2>1, <2>2, <2>3 DEF Step
<1> QED
    BY <1>1, <1>2

\* A step changes nothing of what other threads own.
LEMMA OthersOwn ==
    ASSUME IInv, NEW t \in Threads, Step(t), NEW u \in Threads, u # t
    PROVE  Owned(u)' = Owned(u)
<1>1. CASE UNCHANGED owner
    BY <1>1 DEF Owned
<1>2. CASE \E l \in Lockables : owner[l] = NoThread
                /\ owner' = [owner EXCEPT ![l] = t]
    BY <1>2, OthersKeep DEF IInv
<1>3. CASE \E l \in Lockables : owner[l] = t
                /\ owner' = [owner EXCEPT ![l] = NoThread]
    BY <1>3, OthersKeep DEF IInv
<1>4. ASSUME pc[t] \in {"block", "try"}, Take(t)
      PROVE  Lockable(t, got[t]) \in Lockables
    BY <1>4, RotationInList DEF IInv, InsideArgs, NumLockables, ArgLists
<1>5. ASSUME Unwind(t)
      PROVE  /\ Lockable(t, got[t] - 1) \in Lockables
             /\ owner[Lockable(t, got[t] - 1)] = t
    <2>1. got[t] - 1 \in 0..(got[t] - 1)
        BY <1>5 DEF Unwind, IInv, TypeOK, Unwound
    <2>2. Owned(t) = {Lockable(t, k) : k \in 0..(got[t] - 1)}
        BY <1>5 DEF IInv, NoLockLeaked, OwnsItsAttempt, Unwind
    <2>3. Lockable(t, got[t] - 1) \in Owned(t)
        BY <2>1, <2>2
    <2> QED
        BY <2>3 DEF Owned
<1>6. CASE CallLock(t) \/ CallTryLock(t)
    BY <1>6, <1>1 DEF CallLock, CallTryLock, Call
<1>7. CASE BlockingLock(t) \/ TryLockSucceeds(t)
    BY <1>7, <1>2, <1>4 DEF BlockingLock, TryLockSucceeds, Take, NextIsFree
<1>8. CASE LockThrows(t) \/ TryLockThrows(t) \/ TryLockFails(t) \/ Retry(t)
               \/ TryLockReturns(t)
    BY <1>8, <1>1 DEF LockThrows, TryLockThrows, TryLockFails, Retry, TryLockReturns
<1>9. CASE Unwind(t)
    BY <1>9, <1>3, <1>5 DEF Unwind
<1>10. CASE \E l \in Lockables : Unlock(t, l)
    BY <1>10, <1>3 DEF Unlock
<1> QED
    BY <1>6, <1>7, <1>8, <1>9, <1>10 DEF Step, Proceed

\* What a step of t can do to the place t is in.
LEMMA Moves ==
    ASSUME IInv, NEW t \in Threads, Step(t)
    PROVE  \/ pc[t] = "idle" /\ pc'[t] \in {"block", "try"}
           \/ pc[t] \in {"block", "try"} /\ Take(t)
           \/ pc[t] = "block" /\ pc'[t] = "idle"
           \/ pc[t] = "try" /\ pc'[t] = "unwind"
           \/ Retry(t)
           \/ pc[t] = "unwind" /\ pc'[t] \in {"unwind", "idle"}
           \/ pc[t] = "owned" /\ pc'[t] \in {"owned", "idle"}
<1>1. CASE CallLock(t) \/ CallTryLock(t)
    BY <1>1 DEF CallLock, CallTryLock, Call, IInv, TypeOK
<1>2. CASE BlockingLock(t) \/ LockThrows(t) \/ TryLockThrows(t)
    BY <1>2 DEF BlockingLock, LockThrows, TryLockThrows, IInv, TypeOK
<1>3. CASE TryLockSucceeds(t) \/ TryLockFails(t) \/ Unwind(t) \/ Retry(t)
            \/ TryLockReturns(t)
    BY <1>3 DEF TryLockSucceeds, TryLockFails, Unwind, TryLockReturns,
        IInv, TypeOK
<1>4. CASE \E l \in Lockables : Unlock(t, l)
    BY <1>4 DEF Unlock, IInv, TypeOK
<1> QED
    BY <1>1, <1>2, <1>3, <1>4 DEF Step, Proceed

\* (lockableIdx + kIdx) % kNumLockables is the argument that was busy.
LEMMA RetryIndex ==
    ASSUME NEW n \in Nat, n > 0, NEW r \in 0..(n - 1), NEW f \in 0..(n - 1)
    PROVE  Rotated((f + r) % n, 0, n) = Rotated(r, f, n)
<1>1. CASE f + r < n
    <2>1. (f + r) % n = f + r
        BY <1>1
    <2> QED
        BY <1>1, <2>1 DEF Rotated
<1>2. CASE f + r >= n
    <2>1. (f + r) % n = f + r - n
        BY <1>2
    <2> QED
        BY <1>2, <2>1 DEF Rotated
<1> QED
    BY <1>1, <1>2

\* A Lock() that starts again blocks on the lockable its attempt found busy.
THEOREM RetriesBusyLockable == Spec => BlocksOnBusy
<1>1. ASSUME IInv, [Next]_vars, NEW t \in Threads,
             pc[t] = "unwind", pc'[t] = "block"
      PROVE  Lockable(t, 0)' = Lockable(t, failIdx[t])
    <2> DEFINE n == NumLockables(t)
    <2>1. Retry(t)
        <3>1. ~Take(t) \/ pc[t] \notin {"block", "try"}
            BY <1>1
        <3> QED
            BY <1>1, <3>1, OwnStep, Moves
    <2>2. /\ n \in Nat /\ n > 0
          /\ failIdx[t] \in 0..(n - 1) /\ lockableIdx[t] \in 0..(n - 1)
        BY <1>1 DEF IInv, InsideArgs, NumLockables, ArgLists
    <2>3. /\ NumLockables(t)' = n /\ args'[t] = args[t]
          /\ lockableIdx'[t] = (failIdx[t] + lockableIdx[t]) % n
        BY <1>1, <2>1 DEF IInv, TypeOK, Retry, NumLockables, RetryIdx
    <2> QED
        BY <2>2, <2>3, RetryIndex DEF Lockable
<1>2. IInv /\ [Next]_vars =>
        [\A t \in Threads : pc[t] = "unwind" /\ pc'[t] = "block" =>
            Lockable(t, 0)' = Lockable(t, failIdx[t])]_vars
    BY <1>1
<1> QED
    BY Invariant, <1>2, PTL DEF Spec, BlocksOnBusy

\* A step that makes a call return with success leaves it with the whole list.
LEMMA TakeAll ==
    ASSUME IInv, NEW t \in Threads, pc[t] \in {"block", "try"}, Take(t),
           pc'[t] = "owned", NEW i \in DOMAIN args[t]
    PROVE  owner'[args[t][i]] = t
<1> DEFINE n == NumLockables(t)
<1>1. /\ args[t] \in ArgLists
      /\ lockableIdx[t] \in 0..(n - 1)
      /\ n \in Nat /\ n > 0
      /\ got[t] \in 0..(n - 1)
    BY DEF IInv, InsideArgs, NumLockables, ArgLists
<1>2. got[t] + 1 = n
    BY DEF IInv, TypeOK, Take, IsLast
<1>3. PICK k \in 0..(n - 1) : Lockable(t, k) = args[t][i]
    BY <1>1, RotationCovers DEF IInv
<1>4. Lockable(t, k) \in Lockables /\ Lockable(t, got[t]) \in Lockables
    BY <1>1, RotationInList DEF IInv
<1>5. CASE k = got[t]
    BY <1>3, <1>4, <1>5 DEF IInv, TypeOK, Take
<1>6. CASE k # got[t]
    <2>1. k \in 0..(got[t] - 1)
        BY <1>1, <1>2, <1>6
    <2>2. owner[Lockable(t, k)] = t
        <3>1. CASE pc[t] = "block"
            BY <2>1, <3>1 DEF IInv, InsideArgs
        <3>2. CASE pc[t] = "try"
            <4>1. Owned(t) = {Lockable(t, j) : j \in 0..(got[t] - 1)}
                BY <3>2 DEF IInv, NoLockLeaked, OwnsItsAttempt
            <4>2. Lockable(t, k) \in Owned(t)
                BY <2>1, <4>1
            <4> QED
                BY <4>2 DEF Owned
        <3> QED
            BY <3>1, <3>2
    <2> QED
        BY <1>3, <1>4, <2>2 DEF IInv, TypeOK, Take
<1> QED
    BY <1>5, <1>6

\* Lock() and a successful TryLock() return owning every lockable they were
\* given.
THEOREM SuccessOwnsAll == Spec => ReturnsWithAll
<1>1. ASSUME IInv, [Next]_vars, NEW t \in Threads,
             pc[t] # "owned", pc'[t] = "owned", NEW i \in DOMAIN args[t]
      PROVE  owner'[args[t][i]] = t
    <2>1. pc[t] \in {"block", "try"} /\ Take(t)
        <3>1. ~Retry(t)
            BY <1>1 DEF Retry, IInv, TypeOK
        <3> QED
            BY <1>1, <3>1, OwnStep, Moves
    <2> QED
        BY <1>1, <2>1, TakeAll
<1>2. IInv /\ [Next]_vars =>
        [\A t \in Threads : pc[t] # "owned" /\ pc'[t] = "owned" =>
            \A i \in DOMAIN args[t] : owner'[args[t][i]] = t]_vars
    BY <1>1
<1> QED
    BY Invariant, <1>2, PTL DEF Spec, ReturnsWithAll

LEMMA StepRefines == IInv /\ [Next]_vars => [Atomic!ANext]_heldByCaller
<1> SUFFICES ASSUME IInv, [Next]_vars, heldByCaller' # heldByCaller
             PROVE  Atomic!ANext
    OBVIOUS
<1> DEFINE Visible(u) == IF pc[u] = "owned" THEN Owned(u) ELSE {}
<1>1. heldByCaller = [u \in Threads |-> Visible(u)]
      /\ heldByCaller' = [u \in Threads |-> Visible(u)']
    BY DEF heldByCaller
<1>2. PICK t \in Threads : Step(t)
    BY DEF Next, vars, heldByCaller, Owned
<1>3. ASSUME NEW u \in Threads, u # t, Visible(u)' # Visible(u)
      PROVE  FALSE
    <2>1. pc'[u] = pc[u]
        <3>1. CASE CallLock(t) \/ CallTryLock(t)
            BY <1>3, <3>1 DEF CallLock, CallTryLock, Call, IInv, TypeOK
        <3>2. CASE BlockingLock(t) \/ LockThrows(t) \/ TryLockThrows(t)
            BY <1>3, <3>2 DEF BlockingLock, LockThrows, TryLockThrows, Take, IInv, TypeOK
        <3>3. CASE Proceed(t)
            BY <1>3, <3>3 DEF Proceed, TryLockSucceeds, TryLockFails, Take,
                Unwind, Retry, TryLockReturns, Unlock, IInv, TypeOK
        <3> QED
            BY <1>2, <3>1, <3>2, <3>3 DEF Step
    <2>2. Owned(u)' = Owned(u)
        BY <1>2, <1>3, OthersOwn
    <2> QED
        BY <1>3, <2>1, <2>2
<1>4. \A u \in Threads : u # t => Visible(u)' = Visible(u)
    BY <1>3
<1>5. Visible(t)' # Visible(t)
    BY <1>1, <1>4
<1>6. heldByCaller' = [heldByCaller EXCEPT ![t] = Visible(t)']
    BY <1>1, <1>4
<1>7. CASE pc[t] = "owned"
    <2>1. PICK l \in Lockables : Unlock(t, l)
        BY <1>2, <1>7 DEF Step, CallLock, CallTryLock, Call, BlockingLock,
           LockThrows, TryLockThrows, Proceed, TryLockSucceeds, TryLockFails, Unwind, Retry,
           TryLockReturns
    <2>2. Owned(t)' = Owned(t) \ {l} /\ l \in Owned(t)
        BY <2>1, NoThreadAssumption DEF Owned, IInv, TypeOK, Unlock
    <2>3. pc'[t] = IF Owned(t) = {l} THEN "idle" ELSE "owned"
        BY <2>1 DEF IInv, TypeOK, Unlock
    <2>4. Visible(t)' = Visible(t) \ {l} /\ l \in Visible(t)
        BY <1>7, <2>2, <2>3
    <2>5. Atomic!AUnlock(t, l)
        BY <1>1, <1>6, <2>4 DEF Atomic!AUnlock
    <2> QED
        BY <2>5 DEF Atomic!ANext
<1>8. CASE pc[t] # "owned"
    <2>1. Visible(t) = {} /\ pc'[t] = "owned"
        BY <1>5, <1>8
    <2>2. \A u \in Threads : Visible(u) \cap Visible(t)' = {}
        <3> SUFFICES ASSUME NEW u \in Threads, u # t
                     PROVE  Visible(u) \cap Visible(t)' = {}
            BY <2>1
        <3> QED
            BY <1>4 DEF Owned
    <2>3. Visible(t)' \in SUBSET Lockables
        BY DEF Owned
    <2>4. Atomic!Acquire(t, Visible(t)')
        BY <1>1, <1>6, <2>1, <2>2 DEF Atomic!Acquire
    <2> QED
        BY <2>3, <2>4 DEF Atomic!ANext
<1> QED
    BY <1>7, <1>8

\* Lock() and TryLock() implement the atomic acquisition of a set: callers
\* never see a part of it owned.
THEOREM Implements == Spec => LocksAtomically
<1>1. Init => Atomic!AInit
    BY DEF Init, Atomic!AInit, heldByCaller
<1> QED
    BY Invariant, <1>1, StepRefines, PTL DEF Spec, LocksAtomically, Atomic!ASpec

=============================================================================
