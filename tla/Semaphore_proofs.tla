---------------------------- MODULE Semaphore_proofs ----------------------------
(* Proofs about Semaphore, for any threads, permits and interruptions.         *)
EXTENDS Semaphore, FiniteSetTheorems, TLAPS

Nobody == \A r \in Requesters : requests[r] = 0

Accounted ==
    LET accounted == cnt + Cardinality(Owners)
    IN  IF Nobody THEN accounted = Permits ELSE accounted <= Permits

\* A thread that owns a permit is in no operation, so that no operation counts
\* it again; and a permit is lost only by a thread that was interrupted.
SInv ==
    /\ TypeOK
    /\ \A t \in Waiters : holds[t] => pc[t] \in {"idle", "notifying"}
    /\ \A t \in Threads : interruptionRequested[t] => ~Nobody
    /\ Accounted

Locations == WaitLocations \cup {"idle", "lock", "locked", "test", "taken", "waited", "threw",
                                 "success", "return", "notifying"}

LEMMA Actors ==
    /\ \A t \in Waiters : t \in Threads
    /\ \A r \in Requesters : r \in Threads
    /\ conditionVariable \in CondVars
<1>1. \E c \in CondVars : TRUE
    BY OneCondVarAssumption
<1>2. conditionVariable \in CondVars
    BY <1>1 DEF conditionVariable
<1> QED
    BY <1>2, ActorsAssumption, AdoptedAssumption

\* An interruption point goes one of two ways, by an exception only when
\* interrupted, and no request comes of it.
LEMMA PointKeeps ==
    ASSUME TypeOK, NEW t \in Threads, NEW a \in Locations, NEW b \in Locations,
           InterruptionPoint(t, a, b)
    PROVE  /\ \/ pc' = [pc EXCEPT ![t] = a]
              \/ pc' = [pc EXCEPT ![t] = b] /\ interruptionRequested[t]
           /\ pc' \in [Threads -> Locations]
           /\ interruptionRequested' \in [Threads -> BOOLEAN]
           /\ \A u \in Threads : interruptionRequested'[u] => interruptionRequested[u]
<1>1. /\ interruptionRequested \in [Threads -> BOOLEAN]
      /\ interruptionEnabled \in [Threads -> BOOLEAN]
      /\ pc \in [Threads -> Locations]
    BY DEF TypeOK, CvTypeOK, Locations
<1>2. interruptionRequested' = [interruptionRequested EXCEPT
            ![t] = interruptionRequested[t] /\ ~interruptionEnabled[t]]
    BY DEF InterruptionPoint
<1>3. \/ pc' = [pc EXCEPT ![t] = a]
      \/ pc' = [pc EXCEPT ![t] = b] /\ interruptionRequested[t]
    BY DEF InterruptionPoint, GoTo, IsInterrupted
<1>4. pc' \in [Threads -> Locations]
    BY <1>1, <1>3
<1>6. interruptionRequested' \in [Threads -> BOOLEAN]
    BY <1>1, <1>2
<1>7. \A u \in Threads : interruptionRequested'[u] => interruptionRequested[u]
    BY <1>1, <1>2
<1> QED
    BY <1>3, <1>4, <1>6, <1>7

LEMMA WaitingKeeps ==
    ASSUME TypeOK, NEW t \in Threads, NEW c \in CondVars \cup {NoCondVar},
           SetWaitingConditionVariable(t, c)
    PROVE  pWaitingConditionVariable' \in [Threads -> CondVars \cup {NoCondVar}]
BY DEF TypeOK, CvTypeOK, SetWaitingConditionVariable

\* A step of a wait stays in the wait or ends it, and requests nothing.
LEMMA WaitStepKeeps ==
    ASSUME TypeOK, NEW t \in Threads, WaitStep(t)
    PROVE  /\ CvTypeOK' /\ pc' \in [Threads -> Locations]
           /\ pc[t] \in WaitLocations
           /\ \E l \in WaitLocations \cup {"waited", "threw"} : pc' = [pc EXCEPT ![t] = l]
           /\ \A u \in Threads : interruptionRequested'[u] => interruptionRequested[u]
<1>0. CvTypeOK /\ pc \in [Threads -> Locations]
    BY DEF TypeOK, Locations
<1>1. CASE WaitEnter(t)
    <2>1. pc[t] \in WaitLocations
        BY <1>1 DEF WaitEnter, WaitLocations
    <2>2. "register" \in Locations /\ "threw" \in Locations /\ "register" \in WaitLocations
        BY DEF Locations, WaitLocations
    <2> QED
        BY <1>0, <1>1, <2>1, <2>2, PointKeeps DEF WaitEnter, CvTypeOK
<1>2. CASE WaitRegister(t)
    <2>1. condVar[t] \in CondVars \cup {NoCondVar}
        BY <1>0 DEF CvTypeOK
    <2> QED
        BY <1>0, <1>2, <2>1, WaitingKeeps DEF WaitRegister, CvTypeOK, GoTo, WaitLocations, Locations
<1>3. CASE WaitRegistered(t)
    <2>1. pc[t] \in WaitLocations
        BY <1>3 DEF WaitRegistered, WaitLocations
    <2>2. {"block", "unregisterThrow"} \subseteq Locations \cap WaitLocations
        BY DEF Locations, WaitLocations
    <2> QED
        BY <1>0, <1>3, <2>1, <2>2, PointKeeps DEF WaitRegistered, CvTypeOK
<1>4. CASE WaitBlock(t)
    BY <1>0, <1>4 DEF WaitBlock, UnlockMutex, CvTypeOK, GoTo, WaitLocations, Locations
<1>5. CASE WaitWakes(t)
    BY <1>0, <1>5 DEF WaitWakes, CvTypeOK, GoTo, WaitLocations, Locations
<1>6. CASE WaitRelock(t)
    BY <1>0, <1>6 DEF WaitRelock, LockMutex, CvTypeOK, GoTo, WaitLocations, Locations
<1>7. CASE WaitWoken(t)
    <2>1. pc[t] \in WaitLocations
        BY <1>7 DEF WaitWoken, WaitLocations
    <2>2. {"unregister", "unregisterThrow"} \subseteq Locations \cap WaitLocations
        BY DEF Locations, WaitLocations
    <2> QED
        BY <1>0, <1>7, <2>1, <2>2, PointKeeps DEF WaitWoken, CvTypeOK
<1>8. CASE WaitLeave(t)
    <2>1. NoCondVar \in CondVars \cup {NoCondVar}
        OBVIOUS
    <2> QED
        BY <1>0, <1>8, <2>1, WaitingKeeps DEF WaitLeave, CvTypeOK, GoTo, WaitLocations, Locations
<1> QED
    BY <1>1, <1>2, <1>3, <1>4, <1>5, <1>6, <1>7, <1>8 DEF WaitStep
-----------------------------------------------------------------------------
Owns(t) == holds[t] \/ pc[t] \in {"taken", "success"}

LEMMA OwnersFinite == IsFiniteSet(Owners) /\ Cardinality(Owners) \in Nat
<1>1. Owners \subseteq Waiters
    BY DEF Owners
<1>2. IsFiniteSet(Owners)
    BY <1>1, ActorsAssumption, FS_Subset
<1> QED
    BY <1>2, FS_CardinalityType

\* The three ways in which a step changes who owns a permit.
LEMMA OwnersSame ==
    ASSUME \A u \in Waiters : Owns(u)' <=> Owns(u)
    PROVE  Owners' = Owners
BY DEF Owners, Owns

LEMMA OwnersMore ==
    ASSUME NEW t \in Waiters, ~Owns(t), Owns(t)', \A u \in Waiters \ {t} : Owns(u)' <=> Owns(u)
    PROVE  Cardinality(Owners') = Cardinality(Owners) + 1
<1>1. Owners' = Owners \cup {t} /\ t \notin Owners
    BY DEF Owners, Owns
<1> QED
    BY <1>1, OwnersFinite, FS_AddElement

LEMMA OwnersLess ==
    ASSUME NEW t \in Waiters, Owns(t), ~Owns(t)', \A u \in Waiters \ {t} : Owns(u)' <=> Owns(u)
    PROVE  Cardinality(Owners') = Cardinality(Owners) - 1
<1>1. Owners' = Owners \ {t} /\ t \in Owners
    BY DEF Owners, Owns
<1> QED
    BY <1>1, OwnersFinite, FS_RemoveElement

LEMMA Transitive ==
    ASSUME NEW x \in Int, NEW y \in Int, NEW z \in Int, x <= y, y <= z
    PROVE  x <= z
OBVIOUS

\* A step that moves a permit keeps the account, one that loses it needs an
\* interruption.
LEMMA AccountKept ==
    ASSUME Accounted, cnt \in Nat, cnt' \in Nat, Cardinality(Owners') \in Nat,
           cnt' + Cardinality(Owners') <= cnt + Cardinality(Owners),
           Nobody' => Nobody /\ cnt' + Cardinality(Owners') = cnt + Cardinality(Owners)
    PROVE  Accounted'
<1> DEFINE a == Cardinality(Owners)
           b == Cardinality(Owners')
<1>1. a \in Nat /\ b \in Nat /\ Permits \in Nat
    BY OwnersFinite, PermitsAssumption
<1>2. /\ Nobody => cnt + a = Permits
      /\ ~Nobody => cnt + a <= Permits
    BY DEF Accounted
<1>3. /\ Nobody' /\ cnt' + b = Permits => Accounted'
      /\ ~Nobody' /\ cnt' + b <= Permits => Accounted'
    BY DEF Accounted
<1> HIDE DEF a, b
<1>4. CASE Nobody'
    <2>1. Nobody /\ cnt' + b = cnt + a
        BY <1>4 DEF a, b
    <2>2. cnt' + b = Permits
        BY <1>2, <2>1
    <2> QED
        BY <1>3, <1>4, <2>2
<1>5. CASE ~Nobody'
    <2>1. cnt' + b <= cnt + a
        BY DEF a, b
    <2>2. cnt + a <= Permits
        <3>1. CASE Nobody
            BY <1>1, <1>2, <3>1
        <3>2. CASE ~Nobody
            BY <1>2, <3>2
        <3> QED
            BY <3>1, <3>2
    <2>3. cnt' + b <= Permits
        <3>1. cnt' + b \in Int /\ cnt + a \in Int /\ Permits \in Int
            BY <1>1
        <3> QED
            BY <2>1, <2>2, <3>1, Transitive
    <2> QED
        BY <1>3, <1>5, <2>3
<1> QED
    BY <1>4, <1>5

\* A step of one thread that changes neither the permits nor the requests.
LEMMA MoveKeeps ==
    ASSUME SInv, NEW t \in Threads, NEW l \in Locations, pc' = [pc EXCEPT ![t] = l],
           CvTypeOK', op' \in [Threads -> {"none", "Wait", "WaitFor"}],
           UNCHANGED <<cnt, holds, requests>>,
           \A u \in Threads : interruptionRequested'[u] => interruptionRequested[u],
           t \in Waiters => Owns(t)' = Owns(t),
           t \in Waiters /\ holds[t] => l \in {"idle", "notifying"}
    PROVE  SInv'
<1>1. pc' \in [Threads -> Locations] /\ pc \in [Threads -> Locations]
    BY DEF SInv, TypeOK, Locations
<1>2. TypeOK'
    BY <1>1 DEF SInv, TypeOK, Locations
<1>3. \A u \in Waiters : Owns(u)' <=> Owns(u)
    BY <1>1, Actors DEF Owns
<1>4. Nobody' <=> Nobody
    BY DEF Nobody
<1>5. Accounted'
    <2>1. Owners' = Owners
        BY <1>3, OwnersSame
    <2>2. Cardinality(Owners') = Cardinality(Owners) /\ cnt' = cnt /\ cnt \in Nat
        BY <2>1 DEF SInv, TypeOK
    <2>3. Accounted
        BY DEF SInv
    <2> QED
        BY <1>4, <2>2, <2>3, OwnersFinite, AccountKept
<1>6. \A u \in Waiters : holds'[u] => pc'[u] \in {"idle", "notifying"}
    BY <1>1, Actors DEF SInv
<1>7. \A u \in Threads : interruptionRequested'[u] => ~Nobody'
    BY <1>4 DEF SInv
<1> QED
    BY <1>2, <1>5, <1>6, <1>7 DEF SInv
\* A step that moves a permit or requests an interruption, put together.
LEMMA SInvKeeps ==
    ASSUME SInv, CvTypeOK', pc' \in [Threads -> Locations], cnt' \in Nat,
           op' \in [Threads -> {"none", "Wait", "WaitFor"}],
           holds' \in [Threads -> BOOLEAN], requests' \in [Requesters -> 0..MaxRequests],
           \A t \in Waiters : holds'[t] => pc'[t] \in {"idle", "notifying"},
           \A t \in Threads : interruptionRequested'[t] => ~Nobody',
           Accounted'
    PROVE  SInv'
<1>1. TypeOK'
    BY DEF TypeOK, Locations
<1> QED
    BY <1>1 DEF SInv

\* The operations of a waiter that are more than a move.
LEMMA WaiterKeeps ==
    ASSUME SInv, NEW t \in Waiters, CallWait(t) \/ TryWait(t) \/ Notify(t) \/ Inside(t)
    PROVE  SInv'
<1>0. /\ t \in Threads /\ TypeOK /\ CvTypeOK /\ Accounted
      /\ pc \in [Threads -> Locations] /\ cnt \in Nat /\ Cardinality(Owners) \in Nat
      /\ op \in [Threads -> {"none", "Wait", "WaitFor"}] /\ holds \in [Threads -> BOOLEAN]
      /\ requests \in [Requesters -> 0..MaxRequests]
      /\ \A u \in Waiters : u \in Threads
      /\ \A u \in Waiters : holds[u] => pc[u] \in {"idle", "notifying"}
      /\ \A u \in Threads : interruptionRequested[u] => ~Nobody
      /\ interruptionRequested \in [Threads -> BOOLEAN]
    BY Actors, OwnersFinite DEF SInv, TypeOK, CvTypeOK, Locations
<1> DEFINE Simple == {"idle", "lock", "locked", "test", "taken", "threw", "success", "return",
                      "wait", "waited", "relock", "notifying"}
<1>00. \A l \in Simple : l \in Locations
    BY DEF Locations, WaitLocations
<1> HIDE DEF Simple
<1>1. CASE CallWait(t)
    <2>1. /\ pc[t] = "idle" /\ ~holds[t] /\ InterruptionPoint(t, "lock", "idle")
          /\ condVar' = [condVar EXCEPT ![t] = conditionVariable]
          /\ \E o \in {"Wait", "WaitFor"} : op' = [op EXCEPT ![t] = o]
          /\ UNCHANGED <<mtxOwner, status, interruptionEnabled, pWaitingConditionVariable,
                         interruptionRequestedMtx, cnt, holds, requests>>
        BY <1>1 DEF CallWait
    <2>2. "lock" \in Locations /\ "idle" \in Locations
        BY <1>00 DEF Simple
    <2>3. /\ \E l \in {"lock", "idle"} : pc' = [pc EXCEPT ![t] = l]
          /\ interruptionRequested' \in [Threads -> BOOLEAN]
          /\ \A u \in Threads : interruptionRequested'[u] => interruptionRequested[u]
        BY <1>0, <2>1, <2>2, PointKeeps
    <2>4. CvTypeOK'
        BY <1>0, <2>1, <2>3, Actors DEF CvTypeOK
    <2>5. op' \in [Threads -> {"none", "Wait", "WaitFor"}]
        BY <1>0, <2>1
    <2> PICK l \in {"lock", "idle"} : pc' = [pc EXCEPT ![t] = l]
        BY <2>3
    <2>6. pc'[t] = l /\ holds'[t] = holds[t] /\ l \in Locations
        BY <1>0, <2>1, <2>2
    <2>7. ~Owns(t) /\ ~Owns(t)'
        BY <2>1, <2>6 DEF Owns
    <2>8. Owns(t)' = Owns(t)
        BY <2>7 DEF Owns
    <2> QED
        BY <1>0, <2>1, <2>3, <2>4, <2>5, <2>6, <2>8, MoveKeeps
<1>2. CASE TryWait(t)
    <2>1. /\ pc[t] = "idle" /\ ~holds[t] /\ cnt > 0 /\ cnt' = cnt - 1
          /\ holds' = [holds EXCEPT ![t] = TRUE] /\ UNCHANGED <<cvVars, op, requests>>
        BY <1>2 DEF TryWait
    <2>2. ~Owns(t) /\ Owns(t)' /\ \A u \in Waiters \ {t} : Owns(u)' <=> Owns(u)
        BY <1>0, <2>1 DEF Owns, cvVars
    <2>3. Cardinality(Owners') = Cardinality(Owners) + 1
        BY <2>2, OwnersMore
    <2>4. (Nobody' <=> Nobody) /\ cnt' \in Nat
        BY <1>0, <2>1 DEF Nobody
    <2>5. Accounted'
        BY <1>0, <2>1, <2>3, <2>4, AccountKept
    <2>6. CvTypeOK' /\ pc' = pc /\ interruptionRequested' = interruptionRequested
        BY <1>0, <2>1 DEF CvTypeOK, cvVars
    <2> QED
        BY <1>0, <2>1, <2>4, <2>5, <2>6, SInvKeeps
<1>3. CASE Notify(t)
    <2>1. /\ pc[t] = "idle" /\ holds[t] /\ cnt' = cnt + 1
          /\ holds' = [holds EXCEPT ![t] = FALSE]
          /\ UNCHANGED <<condVar, mtxOwner, status, op, requests>>
          /\ UNCHANGED <<interruptionEnabled, interruptionRequested, pWaitingConditionVariable,
                         interruptionRequestedMtx>>
        BY <1>3 DEF Notify, InterruptionUnchanged
    <2> PICK S \in NotifyOne(conditionVariable) : pc' = Woken(S)
        BY <1>3 DEF Notify
    <2>2. \A u \in S : pc[u] = "asleep"
        BY DEF NotifyOne, Sleepers
    <2>3. /\ pc' \in [Threads -> Locations]
          /\ \A u \in Threads : \/ pc'[u] = pc[u]
                                \/ pc[u] = "asleep" /\ pc'[u] = "relock"
        BY <1>0, <1>00, <2>2 DEF Woken, Simple
    <2>4. /\ Owns(t) /\ ~Owns(t)'
        BY <1>0, <2>1, <2>3 DEF Owns
    <2>5. \A u \in Waiters \ {t} : Owns(u)' <=> Owns(u)
        BY <1>0, <2>1, <2>3 DEF Owns
    <2>6. Cardinality(Owners') = Cardinality(Owners) - 1
        BY <2>4, <2>5, OwnersLess
    <2>7. (Nobody' <=> Nobody) /\ cnt' \in Nat /\ Cardinality(Owners) - 1 \in Nat
        <3>1. Owners' \subseteq Waiters
            BY DEF Owners
        <3>2. IsFiniteSet(Owners')
            BY <3>1, ActorsAssumption, FS_Subset
        <3> QED
            BY <1>0, <2>1, <2>6, <3>2, FS_CardinalityType DEF Nobody
    <2>8. Accounted'
        BY <1>0, <2>1, <2>6, <2>7, AccountKept
    <2>9. CvTypeOK'
        BY <1>0, <2>1 DEF CvTypeOK
    <2>10. \A u \in Waiters : holds'[u] => pc'[u] \in {"idle", "notifying"}
        BY <1>0, <2>1, <2>3
    <2> QED
        BY <1>0, <2>1, <2>3, <2>7, <2>8, <2>9, <2>10, SInvKeeps
<1>4. CASE WaitStep(t) /\ UNCHANGED semVars
    <2>1. /\ CvTypeOK' /\ pc[t] \in WaitLocations
          /\ \E l \in WaitLocations \cup {"waited", "threw"} : pc' = [pc EXCEPT ![t] = l]
          /\ \A u \in Threads : interruptionRequested'[u] => interruptionRequested[u]
        BY <1>0, <1>4, WaitStepKeeps
    <2> PICK l \in WaitLocations \cup {"waited", "threw"} : pc' = [pc EXCEPT ![t] = l]
        BY <2>1
    <2>2. l \in Locations /\ l \notin {"taken", "success"}
        BY DEF Locations, WaitLocations
    <2>3. pc[t] \notin {"idle", "notifying", "taken", "success"} /\ pc'[t] = l
        BY <1>0, <2>1 DEF WaitLocations
    <2>4. ~holds[t] /\ UNCHANGED <<cnt, op, holds, requests>>
        BY <1>0, <1>4, <2>3 DEF semVars
    <2>5. ~Owns(t) /\ ~Owns(t)'
        BY <2>2, <2>3, <2>4 DEF Owns
    <2>6. Owns(t)' = Owns(t)
        BY <2>5 DEF Owns
    <2> QED
        BY <1>0, <2>1, <2>2, <2>4, <2>6, MoveKeeps
<1>5. CASE Lock(t)
    <2>1. /\ pc[t] = "lock" /\ mtxOwner' = [mtxOwner EXCEPT ![conditionVariable] = t]
          /\ pc' = [pc EXCEPT ![t] = "locked"]
          /\ UNCHANGED <<condVar, status, cnt, op, holds, requests>>
          /\ UNCHANGED <<interruptionEnabled, interruptionRequested, pWaitingConditionVariable,
                         interruptionRequestedMtx>>
        BY <1>5 DEF Lock, LockMutex, GoTo, InterruptionUnchanged, semVars
    <2>2. CvTypeOK' /\ "locked" \in Locations
        BY <1>0, <1>00, <2>1 DEF CvTypeOK, Simple
    <2>3. ~Owns(t) /\ ~Owns(t)' /\ ~holds[t]
        BY <1>0, <2>1 DEF Owns
    <2>4. Owns(t)' = Owns(t)
        BY <2>3 DEF Owns
    <2> QED
        BY <1>0, <2>1, <2>2, <2>3, <2>4, MoveKeeps
<1>6. CASE Locked(t)
    <2>1. /\ pc[t] = "locked" /\ InterruptionPoint(t, "test", "threw")
          /\ UNCHANGED <<condVar, mtxOwner, status, interruptionEnabled,
                         pWaitingConditionVariable, interruptionRequestedMtx>>
          /\ UNCHANGED <<cnt, op, holds, requests>>
        BY <1>6 DEF Locked, semVars
    <2>2. "test" \in Locations /\ "threw" \in Locations
        BY <1>00 DEF Simple
    <2>3. /\ \E l \in {"test", "threw"} : pc' = [pc EXCEPT ![t] = l]
          /\ interruptionRequested' \in [Threads -> BOOLEAN]
          /\ \A u \in Threads : interruptionRequested'[u] => interruptionRequested[u]
        BY <1>0, <2>1, <2>2, PointKeeps
    <2>4. CvTypeOK'
        BY <1>0, <2>1, <2>3 DEF CvTypeOK
    <2> PICK l \in {"test", "threw"} : pc' = [pc EXCEPT ![t] = l]
        BY <2>3
    <2>5. l \in Locations /\ pc'[t] = l
        BY <1>0, <2>2
    <2>6. ~Owns(t) /\ ~Owns(t)' /\ ~holds[t]
        BY <1>0, <2>1, <2>5 DEF Owns
    <2>7. Owns(t)' = Owns(t)
        BY <2>6 DEF Owns
    <2> QED
        BY <1>0, <2>1, <2>3, <2>4, <2>5, <2>6, <2>7, MoveKeeps
<1>7. CASE Test(t)
    <2>1. /\ pc[t] \in {"test", "waited"} /\ ~holds[t]
          /\ UNCHANGED <<condVar, mtxOwner, status, op, holds, requests>>
          /\ UNCHANGED <<interruptionEnabled, interruptionRequested, pWaitingConditionVariable,
                         interruptionRequestedMtx>>
        BY <1>0, <1>7 DEF Test, InterruptionUnchanged
    <2>2. CvTypeOK'
        BY <1>0, <2>1 DEF CvTypeOK
    <2>3. CASE cnt = 0
        <3>1. cnt' = cnt /\ \E l \in {"return", "wait"} : pc' = [pc EXCEPT ![t] = l]
            BY <1>7, <2>3 DEF Test, GoTo
        <3> PICK l \in {"return", "wait"} : pc' = [pc EXCEPT ![t] = l]
            BY <3>1
        <3>2. l \in Locations /\ pc'[t] = l
            BY <1>0, <1>00 DEF Simple
        <3>3. ~Owns(t) /\ ~Owns(t)'
            BY <1>0, <2>1, <3>2 DEF Owns
        <3>4. Owns(t)' = Owns(t)
            BY <3>3 DEF Owns
        <3> QED
            BY <1>0, <2>1, <2>2, <3>1, <3>2, <3>4, MoveKeeps
    <2>4. CASE cnt # 0
        <3>1. cnt' = cnt - 1 /\ pc' = [pc EXCEPT ![t] = "taken"] /\ "taken" \in Locations
            BY <1>7, <1>00, <2>4 DEF Test, GoTo, Simple
        <3>2. ~Owns(t) /\ Owns(t)' /\ \A u \in Waiters \ {t} : Owns(u)' <=> Owns(u)
            BY <1>0, <2>1, <3>1 DEF Owns
        <3>3. Cardinality(Owners') = Cardinality(Owners) + 1
            BY <3>2, OwnersMore
        <3>4. (Nobody' <=> Nobody) /\ cnt' \in Nat
            BY <1>0, <2>1, <2>4, <3>1 DEF Nobody
        <3>5. Accounted'
            BY <1>0, <3>1, <3>3, <3>4, AccountKept
        <3>6. pc' \in [Threads -> Locations]
            BY <1>0, <3>1
        <3>7. \A u \in Waiters : holds'[u] => pc'[u] \in {"idle", "notifying"}
            BY <1>0, <2>1, <3>1
        <3> QED
            BY <1>0, <2>1, <2>2, <3>4, <3>5, <3>6, <3>7, SInvKeeps
    <2> QED
        BY <2>3, <2>4
<1>8. CASE Taken(t)
    <2>1. /\ pc[t] = "taken" /\ ~holds[t] /\ InterruptionPoint(t, "success", "threw")
          /\ UNCHANGED <<condVar, mtxOwner, status, interruptionEnabled,
                         pWaitingConditionVariable, interruptionRequestedMtx>>
          /\ UNCHANGED <<cnt, op, holds, requests>>
        BY <1>0, <1>8 DEF Taken, semVars
    <2>2. "success" \in Locations /\ "threw" \in Locations
        BY <1>00 DEF Simple
    <2>3. /\ \/ pc' = [pc EXCEPT ![t] = "success"]
             \/ pc' = [pc EXCEPT ![t] = "threw"] /\ interruptionRequested[t]
          /\ pc' \in [Threads -> Locations]
          /\ interruptionRequested' \in [Threads -> BOOLEAN]
          /\ \A u \in Threads : interruptionRequested'[u] => interruptionRequested[u]
        BY <1>0, <2>1, <2>2, PointKeeps
    <2>4. CvTypeOK'
        BY <1>0, <2>1, <2>3 DEF CvTypeOK
    <2>5. CASE pc' = [pc EXCEPT ![t] = "success"]
        <3>1. pc'[t] = "success"
            BY <1>0, <2>5
        <3>2. Owns(t) /\ Owns(t)'
            BY <2>1, <3>1 DEF Owns
        <3>3. Owns(t)' = Owns(t)
            BY <2>1, <3>1, <3>2 DEF Owns
        <3> QED
            BY <1>0, <2>1, <2>2, <2>3, <2>4, <2>5, <3>3, MoveKeeps
    <2>6. CASE pc' = [pc EXCEPT ![t] = "threw"] /\ interruptionRequested[t]
        <3>1. pc'[t] = "threw" /\ ~Nobody
            BY <1>0, <2>6
        <3>2. Owns(t) /\ ~Owns(t)' /\ \A u \in Waiters \ {t} : Owns(u)' <=> Owns(u)
            BY <1>0, <2>1, <2>6, <3>1 DEF Owns
        <3>3. Cardinality(Owners') = Cardinality(Owners) - 1
            BY <3>2, OwnersLess
        <3>4. Cardinality(Owners') \in Nat
            <4>1. Owners' \subseteq Waiters
                BY DEF Owners
            <4> QED
                BY <4>1, ActorsAssumption, FS_Subset, FS_CardinalityType
        <3>5. ~Nobody' /\ cnt' = cnt
            BY <2>1, <3>1 DEF Nobody
        <3>6. Accounted'
            BY <1>0, <3>3, <3>4, <3>5, AccountKept
        <3>7. \A u \in Waiters : holds'[u] => pc'[u] \in {"idle", "notifying"}
            BY <1>0, <2>1, <2>6
        <3> QED
            BY <1>0, <2>1, <2>3, <2>4, <3>5, <3>6, <3>7, SInvKeeps
    <2> QED
        BY <2>3, <2>5, <2>6
<1>9. CASE Return(t)
    <2>1. /\ pc[t] \in {"success", "return", "threw"} /\ ~holds[t]
          /\ mtxOwner' = [mtxOwner EXCEPT ![conditionVariable] = NoThread]
          /\ holds' = [holds EXCEPT ![t] = (pc[t] = "success")]
          /\ pc' = [pc EXCEPT ![t] = "idle"] /\ "idle" \in Locations
          /\ UNCHANGED <<condVar, status, cnt, op, requests>>
          /\ UNCHANGED <<interruptionEnabled, interruptionRequested, pWaitingConditionVariable,
                         interruptionRequestedMtx>>
        BY <1>0, <1>00, <1>9 DEF Return, UnlockMutex, GoTo, InterruptionUnchanged, Simple
    <2>2. CvTypeOK'
        BY <1>0, <2>1 DEF CvTypeOK
    <2>3. pc'[t] = "idle" /\ (holds'[t] <=> pc[t] = "success")
        BY <1>0, <2>1
    <2>4. /\ holds' \in [Threads -> BOOLEAN] /\ pc' \in [Threads -> Locations]
          /\ \A u \in Threads \ {t} : holds'[u] = holds[u] /\ pc'[u] = pc[u]
        BY <1>0, <2>1
    <2>5. \A u \in Waiters : Owns(u)' <=> Owns(u)
        <3> TAKE u \in Waiters
        <3>1. CASE u = t
            BY <2>1, <2>3, <3>1 DEF Owns
        <3>2. CASE u # t
            BY <1>0, <2>4, <3>2 DEF Owns
        <3> QED
            BY <3>1, <3>2
    <2>6. Owners' = Owners
        BY <2>5, OwnersSame
    <2>7. (Nobody' <=> Nobody) /\ cnt' = cnt /\ Cardinality(Owners') = Cardinality(Owners)
        BY <2>1, <2>6 DEF Nobody
    <2>8. Accounted'
        BY <1>0, <2>7, AccountKept
    <2>9. \A u \in Waiters : holds'[u] => pc'[u] \in {"idle", "notifying"}
        BY <1>0, <2>3, <2>4
    <2> QED
        BY <1>0, <2>1, <2>2, <2>4, <2>7, <2>8, <2>9, SInvKeeps
<1> QED
    BY <1>1, <1>2, <1>3, <1>4, <1>5, <1>6, <1>7, <1>8, <1>9 DEF Inside

LEMMA RequesterKeeps ==
    ASSUME SInv, NEW r \in Requesters, NEW t \in Waiters, Request(r, t) \/ Notifying(r, t)
    PROVE  SInv'
<1>0. /\ t \in Threads /\ r \in Threads /\ TypeOK /\ CvTypeOK /\ Accounted
      /\ pc \in [Threads -> Locations] /\ cnt \in Nat /\ Cardinality(Owners) \in Nat
      /\ op \in [Threads -> {"none", "Wait", "WaitFor"}] /\ holds \in [Threads -> BOOLEAN]
      /\ requests \in [Requesters -> 0..MaxRequests]
      /\ \A u \in Waiters : u \in Threads
      /\ \A u \in Waiters : holds[u] => pc[u] \in {"idle", "notifying"}
      /\ \A u \in Threads : interruptionRequested[u] => ~Nobody
      /\ "idle" \in Locations /\ "notifying" \in Locations /\ "relock" \in Locations
    BY Actors, OwnersFinite DEF SInv, TypeOK, Locations, WaitLocations
<1>1. CASE Request(r, t)
    <2>1. /\ pc[r] = "idle" /\ requests[r] < MaxRequests
          /\ requests' = [requests EXCEPT ![r] = requests[r] + 1]
          /\ \E l \in {"idle", "notifying"} : pc' = [pc EXCEPT ![r] = l]
          /\ interruptionRequested' = [interruptionRequested EXCEPT ![t] = TRUE]
          /\ interruptionRequestedMtx' \in [Threads -> Threads \cup {NoThread}]
          /\ UNCHANGED <<condVar, mtxOwner, status, interruptionEnabled,
                         pWaitingConditionVariable, cnt, op, holds>>
        BY <1>0, <1>1 DEF Request, RequestInterruption, GoTo, CvTypeOK
    <2> PICK l \in {"idle", "notifying"} : pc' = [pc EXCEPT ![r] = l]
        BY <2>1
    <2>2. CvTypeOK'
        BY <1>0, <2>1 DEF CvTypeOK
    <2>3. pc' \in [Threads -> Locations] /\ pc'[r] = l /\ \A u \in Threads \ {r} : pc'[u] = pc[u]
        BY <1>0
    <2>4. requests' \in [Requesters -> 0..MaxRequests] /\ requests'[r] # 0
        BY <1>0, <2>1, PermitsAssumption
    <2>5. ~Nobody'
        BY <2>4 DEF Nobody
    <2>6. \A u \in Waiters : Owns(u)' <=> Owns(u)
        BY <1>0, <2>1, <2>3 DEF Owns
    <2>7. Owners' = Owners
        BY <2>6, OwnersSame
    <2>8. Accounted'
        BY <1>0, <2>1, <2>5, <2>7, AccountKept
    <2>9. \A u \in Waiters : holds'[u] => pc'[u] \in {"idle", "notifying"}
        BY <1>0, <2>1, <2>3
    <2> QED
        BY <1>0, <2>1, <2>2, <2>3, <2>4, <2>5, <2>8, <2>9, SInvKeeps
<1>2. CASE Notifying(r, t)
    <2> DEFINE S == Sleepers(pWaitingConditionVariable[t])
    <2>1. /\ pc[r] = "notifying" /\ pc' = [Woken(S) EXCEPT ![r] = "idle"]
          /\ interruptionRequestedMtx' = [interruptionRequestedMtx EXCEPT ![t] = NoThread]
          /\ UNCHANGED <<condVar, mtxOwner, status, interruptionEnabled,
                         interruptionRequested, pWaitingConditionVariable>>
          /\ UNCHANGED <<cnt, op, holds, requests>>
        BY <1>2 DEF Notifying, NotifyWaiting, semVars
    <2>2. \A u \in S : pc[u] = "asleep"
        BY DEF Sleepers
    <2> HIDE DEF S
    <2>3. Woken(S) \in [Threads -> Locations]
        BY <1>0 DEF Woken
    <2>4. /\ pc' \in [Threads -> Locations] /\ pc'[r] = "idle"
          /\ \A u \in Threads \ {r} : \/ pc'[u] = pc[u]
                                      \/ pc[u] = "asleep" /\ pc'[u] = "relock"
        BY <1>0, <2>1, <2>2, <2>3 DEF Woken
    <2>5. CvTypeOK'
        BY <1>0, <2>1 DEF CvTypeOK
    <2>6. \A u \in Waiters : Owns(u)' <=> Owns(u)
        BY <1>0, <2>1, <2>4 DEF Owns
    <2>7. Owners' = Owners /\ (Nobody' <=> Nobody)
        BY <2>1, <2>6, OwnersSame DEF Nobody
    <2>8. Accounted'
        BY <1>0, <2>1, <2>7, AccountKept
    <2>9. \A u \in Waiters : holds'[u] => pc'[u] \in {"idle", "notifying"}
        BY <1>0, <2>1, <2>4
    <2> QED
        BY <1>0, <2>1, <2>4, <2>5, <2>7, <2>8, <2>9, SInvKeeps
<1> QED
    BY <1>1, <1>2

LEMMA InitSInv == Init => SInv
<1> SUFFICES ASSUME Init
             PROVE  SInv
    OBVIOUS
<1>1. TypeOK
    BY PermitsAssumption DEF Init, CvInit, TypeOK, CvTypeOK
<1>2. Owners = {}
    <2>1. \A t \in Waiters : ~holds[t] /\ pc[t] = "idle"
        BY Actors DEF Init
    <2> QED
        BY <2>1 DEF Owners
<1>3. cnt + Cardinality(Owners) = Permits
    BY <1>2, FS_EmptySet, PermitsAssumption DEF Init
<1>4. Accounted
    BY <1>3, PermitsAssumption DEF Accounted
<1>5. \A t \in Threads : ~interruptionRequested[t]
    BY DEF Init, CvInit
<1>6. \A t \in Waiters : ~holds[t]
    BY Actors DEF Init
<1> QED
    BY <1>1, <1>4, <1>5, <1>6 DEF SInv

LEMMA NextSInv == SInv /\ [Next]_vars => SInv'
<1> SUFFICES ASSUME SInv, [Next]_vars
             PROVE  SInv'
    OBVIOUS
<1>1. CASE Next
    BY <1>1, WaiterKeeps, RequesterKeeps DEF Next
<1>2. CASE UNCHANGED vars
    <2>1. TypeOK'
        BY <1>2 DEF SInv, TypeOK, CvTypeOK, vars, cvVars, semVars
    <2>2. Accounted'
        BY <1>2 DEF SInv, Accounted, Owners, Nobody, vars, cvVars, semVars
    <2> QED
        BY <1>2, <2>1, <2>2 DEF SInv, Nobody, vars, cvVars, semVars
<1> QED
    BY <1>1, <1>2

\* The permits are accounted for with any number of threads, permits and
\* interruptions: none is handed out twice, none is lost without an interruption.
THEOREM PermitsAlwaysAccounted == Spec => []PermitsAccounted
<1>1. SInv => PermitsAccounted
    BY DEF SInv, Accounted, Nobody, PermitsAccounted
<1>2. Spec => []SInv
    BY InitSInv, NextSInv, PTL DEF Spec
<1> QED
    BY <1>1, <1>2, PTL
-----------------------------------------------------------------------------
\* Where the mutex is owned, and where a thread is registered with its wait.
Owning == (WaitLocations \ {"asleep", "relock"}) \cup
          {"waited", "threw", "locked", "test", "taken", "success", "return"}

Registered == WaitLocations \ {"wait", "register"}

\* The mutex is owned by whoever is at such a location, and by nobody else; a
\* thread in an operation uses the one condition variable.
MInv == \A t \in Threads :
    /\ pc[t] \in Owning <=> mtxOwner[conditionVariable] = t
    /\ pc[t] \in Owning \cup {"lock", "asleep", "relock"} => condVar[t] = conditionVariable
    /\ pWaitingConditionVariable[t] # NoCondVar =>
        /\ pWaitingConditionVariable[t] = conditionVariable
        /\ pc[t] \in Registered /\ t \notin Adopted

\* A step of one thread, which keeps, takes or gives back the mutex.
LEMMA MoveKeepsMInv ==
    ASSUME TypeOK, MInv, NEW t \in Threads, NEW l \in Locations, pc' = [pc EXCEPT ![t] = l],
           \A u \in Threads \ {t} : /\ condVar'[u] = condVar[u]
                                    /\ pWaitingConditionVariable'[u] = pWaitingConditionVariable[u],
           l \in Owning \cup {"lock", "asleep", "relock"} => condVar'[t] = conditionVariable,
           pWaitingConditionVariable'[t] # NoCondVar =>
                /\ pWaitingConditionVariable'[t] = conditionVariable
                /\ l \in Registered /\ t \notin Adopted,
           \/ mtxOwner' = mtxOwner /\ (l \in Owning <=> pc[t] \in Owning)
           \/ /\ mtxOwner[conditionVariable] = NoThread
              /\ mtxOwner'[conditionVariable] = t /\ l \in Owning
           \/ /\ mtxOwner[conditionVariable] = t
              /\ mtxOwner'[conditionVariable] = NoThread /\ l \notin Owning
    PROVE  MInv'
<1>1. pc \in [Threads -> Locations]
    BY DEF TypeOK, Locations
<1>2. pc'[t] = l /\ \A u \in Threads \ {t} : pc'[u] = pc[u]
    BY <1>1
<1>3. conditionVariable' = conditionVariable /\ Owning' = Owning /\ Registered' = Registered
    BY DEF conditionVariable, Owning, Registered
<1> HIDE DEF Owning, Registered
<1>4. \A u \in Threads : pc'[u] \in Owning <=> mtxOwner'[conditionVariable] = u
    BY <1>2, NobodyAssumption DEF MInv
<1>5. \A u \in Threads \ {t} :
        /\ pc'[u] \in Owning \cup {"lock", "asleep", "relock"} => condVar'[u] = conditionVariable
        /\ pWaitingConditionVariable'[u] # NoCondVar =>
            /\ pWaitingConditionVariable'[u] = conditionVariable
            /\ pc'[u] \in Registered /\ u \notin Adopted
    BY <1>2 DEF MInv
<1> QED
    BY <1>2, <1>3, <1>4, <1>5 DEF MInv

\* Threads that are woken, or done with waking, own nothing before and after.
LEMMA WakingKeepsMInv ==
    ASSUME MInv, UNCHANGED <<mtxOwner, condVar, pWaitingConditionVariable>>,
           \A u \in Threads : \/ pc'[u] = pc[u]
                              \/ pc[u] = "asleep" /\ pc'[u] = "relock"
                              \/ pc[u] = "notifying" /\ pc'[u] = "idle"
    PROVE  MInv'
BY DEF MInv, Owning, Registered, WaitLocations, conditionVariable

\* The steps of a wait.
LEMMA WaitStepKeepsMInv ==
    ASSUME TypeOK, MInv, NEW t \in Threads, WaitStep(t)
    PROVE  MInv'
<1>0. /\ condVar \in [Threads -> CondVars \cup {NoCondVar}]
      /\ mtxOwner \in [CondVars -> Threads \cup {NoThread}]
      /\ pWaitingConditionVariable \in [Threads -> CondVars \cup {NoCondVar}]
      /\ conditionVariable \in CondVars /\ conditionVariable # NoCondVar
    BY Actors, NobodyAssumption DEF TypeOK, CvTypeOK
<1>1. \A l \in Owning \cup {"asleep", "relock"} : l \in Locations
    BY DEF Owning, Locations, WaitLocations
<1>2. /\ pc[t] \in Owning <=> mtxOwner[conditionVariable] = t
      /\ pc[t] \in Owning \cup {"lock", "asleep", "relock"} => condVar[t] = conditionVariable
      /\ pWaitingConditionVariable[t] # NoCondVar =>
            /\ pWaitingConditionVariable[t] = conditionVariable
            /\ pc[t] \in Registered /\ t \notin Adopted
    BY DEF MInv
<1>3. /\ {"wait", "register", "registered", "block", "woken", "unregister",
          "unregisterThrow", "waited", "threw"} \subseteq Owning
      /\ {"registered", "block", "asleep", "relock", "woken", "unregister",
          "unregisterThrow"} \subseteq Registered
      /\ "asleep" \notin Owning /\ "relock" \notin Owning
      /\ "wait" \notin Registered /\ "register" \notin Registered
    BY DEF Owning, Registered, WaitLocations
<1> HIDE DEF Owning, Registered
<1>4. CASE WaitEnter(t)
    <2>1. /\ pc[t] = "wait" /\ \E l \in {"register", "threw"} : pc' = [pc EXCEPT ![t] = l]
          /\ UNCHANGED <<condVar, mtxOwner, pWaitingConditionVariable>>
        BY <1>1, <1>3, <1>4, PointKeeps DEF WaitEnter
    <2> QED
        BY <1>1, <1>2, <1>3, <2>1, MoveKeepsMInv
<1>5. CASE WaitRegister(t)
    <2>1. /\ pc[t] = "register" /\ pc' = [pc EXCEPT ![t] = "registered"]
          /\ UNCHANGED <<condVar, mtxOwner>> /\ condVar[t] = conditionVariable
        BY <1>2, <1>3, <1>5 DEF WaitRegister, GoTo
    <2>2. /\ \A u \in Threads \ {t} :
                pWaitingConditionVariable'[u] = pWaitingConditionVariable[u]
          /\ pWaitingConditionVariable'[t] =
                IF t \in Adopted THEN pWaitingConditionVariable[t] ELSE conditionVariable
        BY <1>0, <1>5, <2>1 DEF WaitRegister, SetWaitingConditionVariable
    <2> QED
        BY <1>1, <1>2, <1>3, <2>1, <2>2, MoveKeepsMInv
<1>6. CASE WaitRegistered(t)
    <2>1. /\ pc[t] = "registered"
          /\ \E l \in {"block", "unregisterThrow"} : pc' = [pc EXCEPT ![t] = l]
          /\ UNCHANGED <<condVar, mtxOwner, pWaitingConditionVariable>>
        BY <1>1, <1>3, <1>6, PointKeeps DEF WaitRegistered
    <2> QED
        BY <1>1, <1>2, <1>3, <2>1, MoveKeepsMInv
<1>7. CASE WaitBlock(t)
    <2>1. /\ pc[t] = "block" /\ pc' = [pc EXCEPT ![t] = "asleep"]
          /\ UNCHANGED <<condVar, pWaitingConditionVariable>>
          /\ mtxOwner' = [mtxOwner EXCEPT ![conditionVariable] = NoThread]
        BY <1>2, <1>3, <1>7 DEF WaitBlock, GoTo, UnlockMutex
    <2>2. mtxOwner'[conditionVariable] = NoThread
        BY <1>0, <2>1
    <2> QED
        BY <1>1, <1>2, <1>3, <2>1, <2>2, MoveKeepsMInv
<1>8. CASE WaitWakes(t)
    <2>1. /\ pc[t] = "asleep" /\ pc' = [pc EXCEPT ![t] = "relock"]
          /\ UNCHANGED <<condVar, mtxOwner, pWaitingConditionVariable>>
        BY <1>8 DEF WaitWakes, GoTo
    <2> QED
        BY <1>1, <1>2, <1>3, <2>1, MoveKeepsMInv
<1>9. CASE WaitRelock(t)
    <2>1. /\ pc[t] = "relock" /\ pc' = [pc EXCEPT ![t] = "woken"]
          /\ UNCHANGED <<condVar, pWaitingConditionVariable>>
          /\ mtxOwner[conditionVariable] = NoThread
          /\ mtxOwner' = [mtxOwner EXCEPT ![conditionVariable] = t]
        BY <1>2, <1>9 DEF WaitRelock, GoTo, LockMutex
    <2>2. mtxOwner'[conditionVariable] = t
        BY <1>0, <2>1
    <2> QED
        BY <1>1, <1>2, <1>3, <2>1, <2>2, MoveKeepsMInv
<1>10. CASE WaitWoken(t)
    <2>1. /\ pc[t] = "woken"
          /\ \E l \in {"unregister", "unregisterThrow"} : pc' = [pc EXCEPT ![t] = l]
          /\ UNCHANGED <<condVar, mtxOwner, pWaitingConditionVariable>>
        BY <1>1, <1>3, <1>10, PointKeeps DEF WaitWoken
    <2> QED
        BY <1>1, <1>2, <1>3, <2>1, MoveKeepsMInv
<1>11. CASE WaitLeave(t)
    <2>1. /\ pc[t] \in {"unregister", "unregisterThrow"}
          /\ \E l \in {"waited", "threw"} : pc' = [pc EXCEPT ![t] = l]
          /\ UNCHANGED <<condVar, mtxOwner>>
        BY <1>11 DEF WaitLeave, GoTo
    <2>2. \A u \in Threads \ {t} :
            pWaitingConditionVariable'[u] = pWaitingConditionVariable[u]
        BY <1>0, <1>11 DEF WaitLeave, SetWaitingConditionVariable
    <2>3. t \notin Adopted => pWaitingConditionVariable'[t] = NoCondVar
        BY <1>0, <1>11 DEF WaitLeave, SetWaitingConditionVariable
    <2>4. t \in Adopted => pWaitingConditionVariable'[t] = NoCondVar
        BY <1>2, <1>11 DEF WaitLeave, SetWaitingConditionVariable
    <2> QED
        BY <1>1, <1>2, <1>3, <2>1, <2>2, <2>3, <2>4, MoveKeepsMInv
<1> QED
    BY <1>4, <1>5, <1>6, <1>7, <1>8, <1>9, <1>10, <1>11 DEF WaitStep
\* The operations of a waiter, their waits included.
LEMMA WaiterKeepsMInv ==
    ASSUME TypeOK, MInv, NEW t \in Waiters, CallWait(t) \/ TryWait(t) \/ Notify(t) \/ Inside(t)
    PROVE  MInv'
<1>0. /\ t \in Threads /\ conditionVariable \in CondVars
      /\ condVar \in [Threads -> CondVars \cup {NoCondVar}]
      /\ mtxOwner \in [CondVars -> Threads \cup {NoThread}]
    BY Actors DEF TypeOK, CvTypeOK
<1>1. {"idle", "lock", "locked", "test", "taken", "success", "return", "threw", "wait"}
            \subseteq Locations
    BY DEF Locations, WaitLocations
<1>2. /\ pc[t] \in Owning <=> mtxOwner[conditionVariable] = t
      /\ pc[t] \in Owning \cup {"lock", "asleep", "relock"} => condVar[t] = conditionVariable
      /\ pWaitingConditionVariable[t] # NoCondVar => pc[t] \in Registered
    BY <1>0 DEF MInv
<1>3. /\ {"locked", "test", "waited", "taken", "success", "return", "threw", "wait"}
            \subseteq Owning
      /\ "idle" \notin Owning /\ "lock" \notin Owning
      /\ \A l \in {"idle", "lock", "locked", "test", "waited", "taken", "success", "return",
                   "threw"} : l \notin Registered
    BY DEF Owning, Registered, WaitLocations
<1> HIDE DEF Owning, Registered
<1>4. CASE CallWait(t)
    <2>1. /\ pc[t] = "idle" /\ \E l \in {"lock", "idle"} : pc' = [pc EXCEPT ![t] = l]
          /\ condVar' = [condVar EXCEPT ![t] = conditionVariable]
          /\ UNCHANGED <<mtxOwner, pWaitingConditionVariable>>
        BY <1>0, <1>1, <1>4, PointKeeps DEF CallWait
    <2>2. condVar'[t] = conditionVariable /\ \A u \in Threads \ {t} : condVar'[u] = condVar[u]
        BY <1>0, <2>1
    <2>3. pWaitingConditionVariable'[t] = NoCondVar
        BY <1>2, <1>3, <2>1
    <2>4. PICK l \in {"lock", "idle"} : pc' = [pc EXCEPT ![t] = l]
        BY <2>1
    <2>5. l \in Locations /\ l \notin Owning /\ pc[t] \notin Owning
        BY <1>1, <1>3, <2>1
    <2> QED
        BY <1>0, <2>1, <2>2, <2>3, <2>4, <2>5, MoveKeepsMInv
<1>5. CASE TryWait(t)
    BY <1>5, WakingKeepsMInv DEF TryWait, cvVars
<1>6. CASE Notify(t)
    <2>1. /\ UNCHANGED <<condVar, mtxOwner, pWaitingConditionVariable>>
          /\ \E S \in SUBSET Sleepers(conditionVariable) : pc' = Woken(S)
        BY <1>6 DEF Notify, NotifyOne, InterruptionUnchanged
    <2>2. PICK S \in SUBSET Sleepers(conditionVariable) : pc' = Woken(S)
        BY <2>1
    <2>3. \A u \in S : pc[u] = "asleep"
        BY DEF Sleepers
    <2>4. \A u \in Threads : pc'[u] = pc[u] \/ (pc[u] = "asleep" /\ pc'[u] = "relock")
        BY <2>2, <2>3 DEF Woken
    <2> QED
        BY <2>1, <2>4, WakingKeepsMInv
<1>7. CASE WaitStep(t)
    BY <1>0, <1>7, WaitStepKeepsMInv
<1>8. CASE Lock(t)
    <2>1. /\ pc[t] = "lock" /\ pc' = [pc EXCEPT ![t] = "locked"]
          /\ UNCHANGED <<condVar, pWaitingConditionVariable>>
          /\ mtxOwner[conditionVariable] = NoThread /\ mtxOwner'[conditionVariable] = t
        BY <1>0, <1>8 DEF Lock, LockMutex, GoTo, InterruptionUnchanged
    <2> QED
        BY <1>0, <1>1, <1>2, <1>3, <2>1, MoveKeepsMInv
<1>9. CASE Locked(t) \/ Test(t) \/ Taken(t)
    <2>1. /\ pc[t] \in {"locked", "test", "waited", "taken"}
          /\ \E l \in {"test", "threw", "return", "wait", "taken", "success"} :
                pc' = [pc EXCEPT ![t] = l]
          /\ UNCHANGED <<condVar, mtxOwner, pWaitingConditionVariable>>
        <3>1. CASE Locked(t)
            BY <1>0, <1>1, <3>1, PointKeeps DEF Locked
        <3>2. CASE Test(t)
            BY <3>2 DEF Test, GoTo, InterruptionUnchanged
        <3>3. CASE Taken(t)
            BY <1>0, <1>1, <3>3, PointKeeps DEF Taken
        <3> QED
            BY <1>9, <3>1, <3>2, <3>3
    <2> QED
        BY <1>0, <1>1, <1>2, <1>3, <2>1, MoveKeepsMInv
<1>10. CASE Return(t)
    <2>1. /\ pc[t] \in {"success", "return", "threw"} /\ pc' = [pc EXCEPT ![t] = "idle"]
          /\ UNCHANGED <<condVar, pWaitingConditionVariable>>
          /\ mtxOwner'[conditionVariable] = NoThread
        BY <1>0, <1>10 DEF Return, UnlockMutex, GoTo, InterruptionUnchanged
    <2> QED
        BY <1>0, <1>1, <1>2, <1>3, <2>1, MoveKeepsMInv
<1> QED
    BY <1>4, <1>5, <1>6, <1>7, <1>8, <1>9, <1>10 DEF Inside

LEMMA RequesterKeepsMInv ==
    ASSUME TypeOK, MInv, NEW r \in Requesters, NEW t \in Waiters \ Adopted,
           Request(r, t) \/ Notifying(r, t)
    PROVE  MInv'
<1>0. r \in Threads /\ pc \in [Threads -> Locations]
    BY Actors DEF TypeOK, Locations
<1>1. CASE Request(r, t)
    <2>1. /\ pc[r] = "idle" /\ \E l \in {"notifying", "idle"} : pc' = [pc EXCEPT ![r] = l]
          /\ UNCHANGED <<condVar, mtxOwner, pWaitingConditionVariable>>
        BY <1>1 DEF Request, RequestInterruption, GoTo
    <2>2. \A l \in {"notifying", "idle"} : /\ l \in Locations /\ l \notin Owning
                                           /\ l \notin Registered
        BY DEF Locations, Owning, Registered, WaitLocations
    <2>3. pWaitingConditionVariable[r] = NoCondVar
        BY <1>0, <2>1, <2>2 DEF MInv
    <2> QED
        BY <1>0, <2>1, <2>2, <2>3, MoveKeepsMInv
<1>2. CASE Notifying(r, t)
    <2> DEFINE S == Sleepers(pWaitingConditionVariable[t])
    <2>1. /\ pc[r] = "notifying" /\ pc' = [Woken(S) EXCEPT ![r] = "idle"]
          /\ UNCHANGED <<condVar, mtxOwner, pWaitingConditionVariable>>
        BY <1>2 DEF Notifying, NotifyWaiting
    <2>2. \A u \in S : pc[u] = "asleep"
        BY DEF Sleepers
    <2> HIDE DEF S
    <2>3. \A u \in Threads : \/ pc'[u] = pc[u]
                             \/ pc[u] = "asleep" /\ pc'[u] = "relock"
                             \/ pc[u] = "notifying" /\ pc'[u] = "idle"
        BY <1>0, <2>1, <2>2 DEF Woken
    <2> QED
        BY <2>1, <2>3, WakingKeepsMInv
<1> QED
    BY <1>1, <1>2

LEMMA MInvHolds == Spec => []MInv
<1>1. Init => MInv
    <2> SUFFICES ASSUME Init
                 PROVE  MInv
        OBVIOUS
    <2>1. mtxOwner[conditionVariable] = NoThread
        BY Actors DEF Init, CvInit
    <2> QED
        BY <2>1, NobodyAssumption DEF Init, CvInit, MInv, Owning, WaitLocations
<1>2. TypeOK /\ MInv /\ [Next]_vars => MInv'
    <2> SUFFICES ASSUME TypeOK, MInv, [Next]_vars
                 PROVE  MInv'
        OBVIOUS
    <2>1. CASE Next
        BY <2>1, WaiterKeepsMInv, RequesterKeepsMInv DEF Next
    <2>2. CASE UNCHANGED vars
        BY <2>2, WakingKeepsMInv DEF vars, cvVars
    <2> QED
        BY <2>1, <2>2
<1>3. SInv => TypeOK
    BY DEF SInv
<1> QED
    BY <1>1, <1>2, <1>3, InitSInv, NextSInv, PTL DEF Spec

\* Of the waits of any number of threads for a semaphore: each owns the mutex
\* everywhere but while it sleeps, also on its way out by an exception, where
\* the UniqueLock of Semaphore::Wait() unlocks it.
THEOREM WaitsOwnTheMutex == Spec => []WaitOwnsMutex
<1>1. MInv => WaitOwnsMutex
    BY DEF MInv, WaitOwnsMutex, Owning, WaitLocations
<1> QED
    BY <1>1, MInvHolds, PTL

\* The pointer that RequestInterruption() notifies through is never that of a
\* wait that has ended.
THEOREM PointerOnlyInWait == Spec => []WaitingPointerInWait
<1>1. MInv => WaitingPointerInWait
    BY DEF MInv, WaitingPointerInWait, Owning, Registered, WaitLocations
<1> QED
    BY <1>1, MInvHolds, PTL
=============================================================================
