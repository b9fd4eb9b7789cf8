-------------------------- MODULE ThreadsAndTasks_proofs --------------------------
(* Proofs about ThreadLifecycle, for any number of interruptions and whether   *)
(* or not the parent is itself a thread that can be interrupted, and about     *)
(* CancelableTask, for any number of owners of the future.                     *)
EXTENDS ThreadLifecycle, CancelableTask, FiniteSetTheorems, TLAPS

\* The locations of the parent in WaitToStart, WaitToJoin and WaitToJoinFor,
\* those from which an exception leaves the wait, and where each thread can be.
InWait == WaitLocations \cup {"lock", "test", "waited", "threw"}
Throwing == {"unregisterThrow", "threw"}
InDestructor == {"destructorNotifying", "destructorGuard", "destructorJoin"}
ParentLocations == InWait \cup InDestructor \cup {"idle", "notifying", "destroyed", "gone"}
ChildLocations == WaitLocations \cup {"none", "created", "start", "main", "waited", "threw",
                                      "unwinding", "store", "finish", "exit", "ended"}
Locations == ParentLocations \cup ChildLocations

Where ==
    /\ pc \in [Threads -> Locations]
    /\ pc[parent] \in ParentLocations
    /\ pc[child] \in ChildLocations
    /\ pc[other] \in {"idle", "notifying"}

LifeTypeOK ==
    /\ op \in {"none", "Start", "Join", "TryJoinFor"}
    /\ object \in {"alive", "destroying", "destroyed"}
    /\ pData \in BOOLEAN /\ nativeHandle \in BOOLEAN /\ pTmpData \in BOOLEAN
    /\ childData \in BOOLEAN /\ started \in BOOLEAN /\ joinedOrDetached \in BOOLEAN
    /\ detached \in BOOLEAN /\ terminated \in BOOLEAN
    /\ outcome \in Outcomes \cup {"none"} /\ joined \in Outcomes \cup {"none"}
    /\ wasEnabled \in [Threads -> BOOLEAN]
    /\ requests \in [Threads -> 0..MaxRequests]

Typed == CvTypeOK /\ Where /\ LifeTypeOK

\* What the parent is at tells what it holds: its local reference while it
\* waits, the object until the destructor let go of it.  Start() and the
\* destructor wait with interruption disabled, so that no exception leaves them.
ParentFollows ==
    /\ pTmpData <=> pc[parent] \in InWait
    /\ pc[parent] \in InWait =>
        /\ op # "none"
        /\ condVar[parent] = IF op = "Start" THEN startedCondVar ELSE joinedOrDetachedCondVar
    /\ op = "Start" =>
        /\ pc[parent] \in InWait \ Throwing /\ object = "alive"
        /\ pData /\ ~interruptionEnabled[parent]
    /\ pc[parent] \in {"idle", "notifying"} => object = "alive"
    /\ pc[parent] \in InDestructor \cup {"destroyed"} => object = "destroying"
    /\ pc[parent] \in InDestructor => pData /\ nativeHandle
    /\ pc[parent] = "destructorJoin" => ~interruptionEnabled[parent]
    /\ pc[parent] \in InWait /\ object = "destroying" =>
        op = "Join" /\ pc[parent] \notin Throwing /\ ~interruptionEnabled[parent]
    /\ pc[parent] = "destroyed" /\ pData => pc[child] = "none"
    /\ pc[parent] = "gone" <=> object = "destroyed"

\* What the child is at tells what the ThreadData holds.
ChildFollows ==
    /\ nativeHandle <=> pc[child] # "none"
    /\ childData <=> pc[child] \notin {"none", "created", "ended"}
    /\ started <=> pc[child] \notin {"none", "created", "start"}
    /\ pc[child] \in {"created", "start"} => op = "Start"
    /\ pc[child] = "none" => op = "none" /\ pc[parent] \notin InWait
    /\ pc[child] \in WaitLocations \cup {"waited", "threw"} => condVar[child] = workCondVar
    /\ outcome # "none" <=> pc[child] \in {"store", "finish", "exit", "ended"}
    /\ stored = IF pc[child] \in {"finish", "exit", "ended"} THEN outcome ELSE "none"
    /\ joinedOrDetached <=> detached \/ pc[child] \in {"exit", "ended"}

\* A thread that was let go of without being detached is joined.
ReleasedJoined ==
    pc[child] # "none" /\ ~pData /\ ~detached => outcome # "none" /\ joined = outcome

LifeInv == Typed /\ ParentFollows /\ ChildFollows /\ ReleasedJoined

\* What a cardinality of three says of three elements.
LEMMA ThreeApart ==
    ASSUME NEW a, NEW b, NEW c, Cardinality({a, b, c}) = 3
    PROVE  a # b /\ a # c /\ b # c
<1>1. ASSUME NEW x, NEW y PROVE Cardinality({x, y}) # 3
    <2>1. IsFiniteSet({x}) /\ Cardinality({x}) = 1
        BY FS_Singleton
    <2>2. Cardinality({x} \cup {y}) = IF y \in {x} THEN 1 ELSE 2
        BY <2>1, FS_AddElement
    <2>3. {x} \cup {y} = {x, y}
        OBVIOUS
    <2> QED
        BY <2>2, <2>3
<1>2. a = b => {a, b, c} = {a, c}
    OBVIOUS
<1>3. a = c \/ b = c => {a, b, c} = {a, b}
    OBVIOUS
<1> QED
    BY <1>1, <1>2, <1>3

LEMMA ThreeThreads ==
    /\ parent \in Threads /\ child \in Threads /\ other \in Threads
    /\ parent # child /\ parent # other /\ child # other
    /\ \A t \in Threads : t = parent \/ t = child \/ t = other
    /\ other \in Adopted /\ child \notin Adopted
BY ThreadsAssumption, ThreeApart

LEMMA ThreeCondVars ==
    /\ startedCondVar \in CondVars /\ joinedOrDetachedCondVar \in CondVars
    /\ workCondVar \in CondVars
    /\ startedCondVar # joinedOrDetachedCondVar /\ startedCondVar # workCondVar
    /\ joinedOrDetachedCondVar # workCondVar
BY CondVarsAssumption, ThreeApart
-----------------------------------------------------------------------------
\* An interruption point goes one of two ways, by an exception only with
\* interruption enabled.
LEMMA PointMoves ==
    ASSUME CvTypeOK, NEW t \in Threads, NEW a, NEW b, InterruptionPoint(t, a, b)
    PROVE  /\ \/ pc' = [pc EXCEPT ![t] = a] /\ ~IsInterrupted(t)
              \/ pc' = [pc EXCEPT ![t] = b] /\ IsInterrupted(t)
           /\ interruptionRequested' \in [Threads -> BOOLEAN]
BY DEF CvTypeOK, InterruptionPoint, GoTo, IsInterrupted

\* A step of a wait stays in it or ends it, and throws only when interruption
\* is enabled.
LEMMA WaitStepMoves ==
    ASSUME CvTypeOK, NEW t \in Threads, WaitStep(t)
    PROVE  /\ CvTypeOK' /\ UNCHANGED <<condVar, interruptionEnabled>>
           /\ pc[t] \in WaitLocations
           /\ \E l \in WaitLocations \cup {"waited", "threw"} :
                /\ pc' = [pc EXCEPT ![t] = l]
                /\ l \in Throwing => interruptionEnabled[t] \/ pc[t] \in Throwing
<1>1. CASE WaitEnter(t) \/ WaitRegistered(t) \/ WaitWoken(t)
    <2>1. PICK a \in {"register", "block", "unregister"}, b \in {"threw", "unregisterThrow"} :
            InterruptionPoint(t, a, b)
        BY <1>1 DEF WaitEnter, WaitRegistered, WaitWoken
    <2>2. /\ \E l \in {a, b} : /\ pc' = [pc EXCEPT ![t] = l]
                               /\ l \in Throwing => interruptionEnabled[t]
          /\ interruptionRequested' \in [Threads -> BOOLEAN]
        BY <2>1, PointMoves DEF IsInterrupted, Throwing
    <2>3. {a, b} \subseteq WaitLocations \cup {"waited", "threw"}
        BY DEF WaitLocations
    <2> QED
        BY <1>1, <2>2, <2>3 DEF CvTypeOK, WaitEnter, WaitRegistered, WaitWoken, WaitLocations
<1>2. CASE WaitRegister(t) \/ WaitLeave(t)
    <2>1. /\ pWaitingConditionVariable' \in [Threads -> CondVars \cup {NoCondVar}]
        BY <1>2 DEF CvTypeOK, WaitRegister, WaitLeave, SetWaitingConditionVariable
    <2> QED
        BY <1>2, <2>1 DEF CvTypeOK, WaitRegister, WaitLeave, WaitLocations, Throwing, GoTo
<1>3. CASE WaitBlock(t) \/ WaitWakes(t) \/ WaitRelock(t)
    BY <1>3 DEF CvTypeOK, WaitBlock, WaitWakes, WaitRelock, WaitLocations, Throwing, GoTo,
        UnlockMutex, LockMutex
<1> QED
    BY <1>1, <1>2, <1>3 DEF WaitStep

LEMMA WaitStepKeepsLifeInv ==
    ASSUME LifeInv, NEW t \in {parent, child}, WaitStep(t), UNCHANGED lifeVars
    PROVE  LifeInv'
<1>1. CvTypeOK /\ t \in Threads
    BY ThreeThreads DEF LifeInv, Typed
<1>2. CvTypeOK' /\ pc[t] \in WaitLocations /\ UNCHANGED <<condVar, interruptionEnabled>>
    BY <1>1, WaitStepMoves
<1>3. PICK l \in WaitLocations \cup {"waited", "threw"} :
        /\ pc' = [pc EXCEPT ![t] = l]
        /\ l \in Throwing => interruptionEnabled[t] \/ pc[t] \in Throwing
    BY <1>1, WaitStepMoves
<1> USE ThreeThreads DEF LifeInv, lifeVars, dataVars
<1>4. Typed'
    BY <1>1, <1>2, <1>3 DEF Typed, Where, LifeTypeOK, Locations, ParentLocations, ChildLocations, InWait
<1>5. pc'[t] = l /\ \A u \in Threads \ {t} : pc'[u] = pc[u]
    BY <1>1, <1>3 DEF Typed, Where
<1>6. ParentFollows'
    <2>1. CASE t = parent
        BY <1>2, <1>3, <1>5, <2>1 DEF ParentFollows, InWait, Throwing, InDestructor, WaitLocations
    <2>2. CASE t = child
        BY <1>2, <1>3, <1>5, <2>2 DEF ParentFollows, WaitLocations
    <2> QED
        BY <2>1, <2>2
<1>7. ChildFollows'
    <2>1. CASE t = parent
        BY <1>2, <1>3, <1>5, <2>1 DEF ChildFollows, InWait
    <2>2. CASE t = child
        BY <1>2, <1>3, <1>5, <2>2 DEF ChildFollows, WaitLocations
    <2> QED
        BY <2>1, <2>2
<1>8. ReleasedJoined'
    BY <1>2, <1>3, <1>5 DEF ReleasedJoined, WaitLocations
<1> QED
    BY <1>4, <1>6, <1>7, <1>8

LEMMA SleepersAsleep ==
    ASSUME NEW c
    PROVE  /\ Sleepers(c) \in SUBSET Threads /\ \A t \in Sleepers(c) : pc[t] = "asleep"
           /\ \A S \in NotifyOne(c) : S \in SUBSET Threads /\ \A t \in S : pc[t] = "asleep"
BY DEF Sleepers, NotifyOne

\* A thread goes on and wakes others: they stay in their wait.
LEMMA WakerGoes ==
    ASSUME Where, NEW t \in Threads, NEW l, NEW S \in SUBSET Threads,
           \A u \in S : pc[u] = "asleep",
           pc' = [Woken(S) EXCEPT ![t] = l],
           /\ t = parent => l \in ParentLocations
           /\ t = child => l \in ChildLocations
           /\ t = other => l \in {"idle", "notifying"}
    PROVE  /\ Where' /\ pc'[t] = l
           /\ \A u \in Threads \ {t} : \/ pc'[u] = pc[u]
                                       \/ pc[u] = "asleep" /\ pc'[u] = "relock"
<1>1. l \in Locations
    BY ThreeThreads DEF Locations, ParentLocations
<1>2. /\ pc' = [u \in Threads |-> IF u = t THEN l ELSE IF u \in S THEN "relock" ELSE pc[u]]
      /\ "relock" \in ParentLocations /\ "relock" \in ChildLocations
    BY DEF Woken, ParentLocations, ChildLocations, InWait, WaitLocations
<1>3. pc' \in [Threads -> Locations]
    BY <1>1, <1>2 DEF Where, Locations
<1>4. /\ pc'[t] = l
      /\ \A u \in Threads \ {t} : \/ pc'[u] = pc[u]
                                  \/ pc[u] = "asleep" /\ pc'[u] = "relock"
    BY <1>2
<1> QED
    BY <1>2, <1>3, <1>4, ThreeThreads DEF Where

LEMMA ParentGoes ==
    ASSUME Where, NEW l \in ParentLocations, pc' = [pc EXCEPT ![parent] = l]
    PROVE  /\ Where' /\ pc'[parent] = l
           /\ pc'[child] = pc[child] /\ pc'[other] = pc[other]
BY ThreeThreads DEF Where, Locations

LEMMA ChildGoes ==
    ASSUME Where, NEW l \in ChildLocations, pc' = [pc EXCEPT ![child] = l]
    PROVE  /\ Where' /\ pc'[child] = l
           /\ pc'[parent] = pc[parent] /\ pc'[other] = pc[other]
BY ThreeThreads DEF Where, Locations

\* Start() and the joins.
LEMMA WaitsKeepLifeInv ==
    ASSUME LifeInv, Start \/ Lock \/ TestStarted \/ Join \/ TestJoined \/ JoinThrows \/ DestroyJoin
    PROVE  LifeInv'
<1> USE ThreeThreads, ThreeCondVars DEF LifeInv, Typed, dataVars, InterruptionUnchanged, EnabledUnchanged
<1>0. {"idle", "lock", "test", "wait", "destroyed"} \subseteq ParentLocations
    BY DEF ParentLocations, InWait, WaitLocations
<1>00. /\ {"lock", "test", "wait"} \subseteq InWait \ Throwing /\ "idle" \notin InWait /\ "destroyed" \notin InWait
       /\ "waited" \in InWait /\ "threw" \in InWait \cap Throwing /\ "gone" \notin InWait
       /\ InDestructor \cap InWait = {} /\ "destroyed" \notin InDestructor /\ "idle" \notin InDestructor
    BY DEF InWait, InDestructor, WaitLocations, Throwing
<1>1. CASE Start
    <2>0. pc' = [pc EXCEPT ![parent] = "lock", ![child] = "created"]
        BY <1>1 DEF Start
    <2>1. Where' /\ pc'[parent] = "lock" /\ pc'[child] = "created"
        BY <1>0, <2>0 DEF Where, Locations, ChildLocations
    <2>2. CvTypeOK' /\ LifeTypeOK'
        BY <1>1 DEF CvTypeOK, LifeTypeOK, Start, DisableInterruption
    <2>3. ParentFollows'
        BY <1>00, <1>1, <2>1 DEF CvTypeOK, Start, DisableInterruption, ParentFollows
    <2>4. ReleasedJoined'
        BY <1>1 DEF Start, ReleasedJoined
    <2>5. ChildFollows'
        BY <1>1, <2>1 DEF Start, ParentFollows, ChildFollows, InWait, WaitLocations
    <2> QED
        BY <2>1, <2>2, <2>3, <2>4, <2>5
<1>2. CASE Lock
    <2>1. /\ Where' /\ pc'[parent] = "test"
          /\ pc'[child] = pc[child] /\ pc'[other] = pc[other]
        BY <1>0, <1>2, ParentGoes DEF Lock, GoTo
    <2>2. CvTypeOK' /\ LifeTypeOK'
        <3>1. CvTypeOK'
            BY <1>2 DEF CvTypeOK, Lock, LockMutex
        <3>2. LifeTypeOK'
            BY <1>2 DEF LifeTypeOK, Lock
        <3> QED
            BY <3>1, <3>2
    <2>3. ParentFollows'
        BY <1>00, <1>2, <2>1 DEF Lock, ParentFollows
    <2>4. ChildFollows' /\ ReleasedJoined'
        BY <1>00, <1>2, <2>1 DEF Lock, ChildFollows, ReleasedJoined
    <2> QED
        BY <2>1, <2>2, <2>3, <2>4
<1>3. CASE TestStarted
    <2>0. PICK l \in {"idle", "wait"} : pc' = [pc EXCEPT ![parent] = l]
        BY <1>3 DEF TestStarted, GoTo
    <2>1. /\ Where' /\ pc'[parent] = l
          /\ pc'[child] = pc[child] /\ pc'[other] = pc[other]
        BY <1>0, <2>0, ParentGoes
    <2>2. CvTypeOK' /\ LifeTypeOK'
        BY <1>3 DEF CvTypeOK, LifeTypeOK, TestStarted, RestoreInterruption, UnlockMutex
    <2>3. ParentFollows'
        BY <1>00, <1>3, <2>1 DEF Where, TestStarted, GoTo, ParentFollows
    <2>4. ChildFollows' /\ ReleasedJoined'
        BY <1>00, <1>3, <2>1 DEF Where, TestStarted, GoTo, ParentFollows, ChildFollows, ReleasedJoined
    <2> QED
        BY <2>1, <2>2, <2>3, <2>4
<1>4. CASE Join \/ DestroyJoin
    <2> PICK o \in {"Join", "TryJoinFor"}, from \in {"idle", "destructorJoin"} :
            BeginJoin(o, from) /\ (from = "destructorJoin" => o = "Join")
        BY <1>4 DEF Join, DestroyJoin
    <2>0. /\ pc[parent] = from /\ pData /\ nativeHandle /\ op' = o
          /\ pTmpData' = ~IsInterrupted(parent)
          /\ condVar' = [condVar EXCEPT ![parent] = joinedOrDetachedCondVar]
          /\ UNCHANGED <<mtxOwner, status, interruptionEnabled, pWaitingConditionVariable,
                interruptionRequestedMtx, object, pData, nativeHandle, childData, started,
                joinedOrDetached, outcome, stored, joined, detached, wasEnabled, requests, terminated>>
        BY DEF BeginJoin, IsJoinable
    <2>1. /\ \/ pc' = [pc EXCEPT ![parent] = "lock"] /\ ~IsInterrupted(parent)
             \/ pc' = [pc EXCEPT ![parent] = "idle"] /\ IsInterrupted(parent)
          /\ interruptionRequested' \in [Threads -> BOOLEAN]
        BY PointMoves DEF BeginJoin
    <2>2. PICK l \in {"idle", "lock"} : /\ pc' = [pc EXCEPT ![parent] = l]
                                        /\ pTmpData' <=> l = "lock"
                                        /\ l = "idle" => interruptionEnabled[parent]
        BY <2>0, <2>1 DEF IsInterrupted
    <2>3. /\ Where' /\ pc'[parent] = l
          /\ pc'[child] = pc[child] /\ pc'[other] = pc[other]
        BY <1>0, <2>2, ParentGoes
    <2>4. CvTypeOK'
        BY <2>0, <2>1 DEF CvTypeOK
    <2>5. LifeTypeOK'
        BY <2>0 DEF LifeTypeOK, IsInterrupted
    <2>6. ParentFollows'
        BY <1>00, <2>0, <2>2, <2>3 DEF CvTypeOK, ParentFollows, InDestructor
    <2>7. ChildFollows' /\ ReleasedJoined'
        <3>1. condVar'[child] = condVar[child]
            BY <2>0 DEF CvTypeOK
        <3>2. pc[child] # "none" /\ pc[child] \notin {"created", "start"}
            BY <1>00, <2>0 DEF ParentFollows, ChildFollows, InDestructor, InWait, WaitLocations
        <3> QED
            BY <2>0, <2>3, <3>1, <3>2 DEF ChildFollows, ReleasedJoined
    <2> QED
        BY <2>3, <2>4, <2>5, <2>6, <2>7
<1>5. CASE TestJoined
    <2>0. PICK l \in {"idle", "wait", "destroyed"} : pc' = [pc EXCEPT ![parent] = l]
        BY <1>5 DEF TestJoined, GoTo
    <2>1. /\ Where' /\ pc'[parent] = l
          /\ pc'[child] = pc[child] /\ pc'[other] = pc[other]
        BY <1>0, <2>0, ParentGoes
    <2>2. CvTypeOK'
        BY <1>5 DEF CvTypeOK, TestJoined, UnlockMutex
    <2>3. LifeTypeOK'
        BY <1>5 DEF LifeTypeOK, ChildFollows, TestJoined, Joined
    <2>4. ParentFollows'
        BY <1>00, <1>5, <2>1 DEF Where, LifeTypeOK, TestJoined, Joined, GoTo, ParentFollows
    <2>5. ChildFollows'
        BY <1>00, <1>5, <2>1 DEF Where, TestJoined, Joined, GoTo, ParentFollows, ChildFollows
    <2>6. ReleasedJoined'
        BY <1>5, <2>1 DEF TestJoined, Joined, ReleasedJoined, ChildFollows
    <2> QED
        BY <2>1, <2>2, <2>3, <2>4, <2>5, <2>6
<1>6. CASE JoinThrows
    <2>0. PICK l \in {"idle", "destroyed"} : pc' = [pc EXCEPT ![parent] = l]
        BY <1>6 DEF JoinThrows, GoTo
    <2>1. /\ Where' /\ pc'[parent] = l
          /\ pc'[child] = pc[child] /\ pc'[other] = pc[other]
        BY <1>0, <2>0, ParentGoes
    <2>2. CvTypeOK'
        BY <1>6 DEF CvTypeOK, JoinThrows, UnlockMutex
    <2>3. LifeTypeOK'
        BY <1>6 DEF LifeTypeOK, JoinThrows
    <2>4. ParentFollows'
        BY <1>00, <1>6, <2>1 DEF Where, LifeTypeOK, JoinThrows, GoTo, ParentFollows
    <2>5. ChildFollows' /\ ReleasedJoined'
        BY <1>00, <1>6, <2>1 DEF JoinThrows, ChildFollows, ReleasedJoined
    <2> QED
        BY <2>1, <2>2, <2>3, <2>4, <2>5
<1> QED
    BY <1>1, <1>2, <1>3, <1>4, <1>5, <1>6

\* TryJoin(), Detach(), RequestInterruption() and the destructor.
LEMMA CallsKeepLifeInv ==
    ASSUME LifeInv, TryJoin \/ Detach \/ Interrupt \/ Destroy \/ DestroyGuard \/ Destroyed
    PROVE  LifeInv'
<1> USE ThreeThreads, ThreeCondVars DEF LifeInv, Typed, lifeVars, dataVars, InterruptionUnchanged, EnabledUnchanged
<1>1. CASE TryJoin
    <2>1. /\ pc[parent] = "idle" /\ pData /\ nativeHandle /\ joinedOrDetached
          /\ pData' = FALSE /\ joined' = stored
          /\ UNCHANGED <<pc, condVar, mtxOwner, status, interruptionEnabled, interruptionRequested,
                pWaitingConditionVariable, interruptionRequestedMtx>>
          /\ UNCHANGED <<op, object, nativeHandle, pTmpData, childData, started,
                joinedOrDetached, outcome, stored, detached, wasEnabled, requests, terminated>>
        BY <1>1 DEF TryJoin, Joined, IsJoinable, cvVars
    <2>2. stored \in Outcomes \cup {"none"}
        BY DEF LifeTypeOK, ChildFollows
    <2>3. Typed'
        BY <2>1, <2>2 DEF Where, LifeTypeOK, CvTypeOK
    <2>4. ParentFollows'
        BY <2>1 DEF ParentFollows, InDestructor, InWait, WaitLocations
    <2>5. ChildFollows' /\ ReleasedJoined'
        BY <2>1 DEF ChildFollows, ReleasedJoined
    <2> QED
        BY <2>3, <2>4, <2>5
<1>2. CASE Detach
    <2>1. /\ pc[parent] = "idle" /\ pData /\ nativeHandle /\ joinedOrDetached' = TRUE
          /\ pData' = FALSE /\ detached' = TRUE
          /\ UNCHANGED <<pc, condVar, mtxOwner, status, interruptionEnabled, interruptionRequested,
                pWaitingConditionVariable, interruptionRequestedMtx>>
          /\ UNCHANGED <<op, object, nativeHandle, pTmpData, childData, started, joined,
                outcome, stored, wasEnabled, requests, terminated>>
        BY <1>2 DEF Detach, IsJoinable, cvVars
    <2>2. Typed'
        BY <2>1 DEF Where, LifeTypeOK, CvTypeOK
    <2>3. ParentFollows'
        BY <2>1 DEF ParentFollows, InDestructor, InWait, WaitLocations
    <2>4. ChildFollows' /\ ReleasedJoined'
        BY <2>1 DEF ChildFollows, ReleasedJoined
    <2> QED
        BY <2>2, <2>3, <2>4
<1>0. /\ InDestructor \cap InWait = {} /\ {"idle", "destroyed", "notifying", "gone"} \cap InWait = {}
      /\ {"idle", "destroyed", "notifying", "gone"} \cap InDestructor = {}
      /\ {"destructorNotifying", "destructorGuard", "destructorJoin"} \subseteq InDestructor
    BY DEF InDestructor, InWait, WaitLocations
<1>00. {"idle", "notifying", "destructorNotifying", "destructorGuard", "destructorJoin", "destroyed", "gone"}
            \subseteq ParentLocations
    BY DEF ParentLocations, InDestructor
<1>3. CASE Interrupt
    <2>1. PICK l \in {"idle", "notifying"} : pc' = [pc EXCEPT ![parent] = l]
        BY <1>3 DEF Interrupt, RequestChild, RequestInterruption, GoTo
    <2>2. /\ Where' /\ pc'[parent] = l /\ pc'[child] = pc[child] /\ pc'[other] = pc[other]
        BY <1>00, <2>1, ParentGoes
    <2>3. CvTypeOK'
        BY <1>3 DEF CvTypeOK, Interrupt, RequestChild, RequestInterruption
    <2>4. requests' \in [Threads -> 0..MaxRequests]
        BY <1>3, BoundAssumption DEF LifeTypeOK, Interrupt
    <2>5. LifeTypeOK'
        BY <1>3, <2>4 DEF LifeTypeOK, Interrupt
    <2>6. pc[parent] = "idle" /\ UNCHANGED <<condVar, wasEnabled, interruptionEnabled, op, object,
                                    dataVars, outcome, joined, detached>>
        BY <1>3 DEF Interrupt
    <2>7. ParentFollows'
        BY <1>0, <2>2, <2>6 DEF ParentFollows
    <2>8. ChildFollows' /\ ReleasedJoined'
        BY <1>0, <2>2, <2>6 DEF ChildFollows, ReleasedJoined
    <2> QED
        BY <2>2, <2>3, <2>5, <2>7, <2>8
<1>4. CASE Destroy
    <2>1. PICK l \in {"destructorNotifying", "destructorGuard", "destroyed"} :
            /\ pc' = [pc EXCEPT ![parent] = l]
            /\ l # "destroyed" <=> IsJoinable
        BY <1>4 DEF Destroy, RequestChild, RequestInterruption, GoTo
    <2>2. /\ Where' /\ pc'[parent] = l /\ pc'[child] = pc[child] /\ pc'[other] = pc[other]
        BY <1>00, <2>1, ParentGoes
    <2>3. CvTypeOK'
        BY <1>4 DEF CvTypeOK, Destroy, RequestChild, RequestInterruption
    <2>4. LifeTypeOK'
        BY <1>4 DEF LifeTypeOK, Destroy
    <2>5. /\ pc[parent] = "idle" /\ object' = "destroying"
          /\ UNCHANGED <<condVar, wasEnabled, interruptionEnabled, op, dataVars, outcome, joined,
                         detached>>
        BY <1>4 DEF Destroy
    <2>6. ParentFollows'
        BY <1>0, <2>1, <2>2, <2>5 DEF ParentFollows, ChildFollows, IsJoinable
    <2>7. ChildFollows' /\ ReleasedJoined'
        BY <1>0, <2>1, <2>2, <2>5 DEF ChildFollows, ReleasedJoined
    <2> QED
        BY <2>2, <2>3, <2>4, <2>6, <2>7
<1>5. CASE DestroyGuard
    <2>1. pc' = [pc EXCEPT ![parent] = "destructorJoin"]
        BY <1>5 DEF DestroyGuard, GoTo
    <2>2. /\ Where' /\ pc'[parent] = "destructorJoin" /\ pc'[child] = pc[child] /\ pc'[other] = pc[other]
        BY <1>00, <2>1, ParentGoes
    <2>3. /\ interruptionEnabled' = [interruptionEnabled EXCEPT ![parent] = FALSE]
          /\ wasEnabled' = [wasEnabled EXCEPT ![parent] = interruptionEnabled[parent]]
          /\ pc[parent] = "destructorGuard"
          /\ UNCHANGED <<condVar, mtxOwner, status, interruptionRequested,
                pWaitingConditionVariable, interruptionRequestedMtx, op, object, dataVars,
                outcome, joined, detached, requests, terminated>>
        BY <1>5 DEF DestroyGuard, DisableInterruption
    <2>4. CvTypeOK'
        BY <2>3 DEF CvTypeOK
    <2>5. LifeTypeOK'
        BY <2>3 DEF LifeTypeOK, CvTypeOK
    <2>6. ParentFollows'
        BY <1>0, <2>2, <2>3 DEF CvTypeOK, ParentFollows
    <2>7. ChildFollows' /\ ReleasedJoined'
        BY <1>0, <2>2, <2>3 DEF ChildFollows, ReleasedJoined
    <2> QED
        BY <2>2, <2>4, <2>5, <2>6, <2>7
<1>6. CASE Destroyed
    <2>1. pc' = [pc EXCEPT ![parent] = "gone"]
        BY <1>6 DEF Destroyed, GoTo
    <2>2. /\ Where' /\ pc'[parent] = "gone" /\ pc'[child] = pc[child] /\ pc'[other] = pc[other]
        BY <1>00, <2>1, ParentGoes
    <2>3. /\ pc[parent] = "destroyed" /\ object' = "destroyed" /\ pData' = FALSE
          /\ UNCHANGED <<condVar, mtxOwner, status, interruptionEnabled, interruptionRequested,
                pWaitingConditionVariable, interruptionRequestedMtx, op, nativeHandle, pTmpData,
                childData, started, joinedOrDetached, stored, wasEnabled,
                outcome, joined, detached, requests, terminated>>
        BY <1>6 DEF Destroyed
    <2>4. CvTypeOK'
        BY <2>3 DEF CvTypeOK
    <2>5. LifeTypeOK'
        BY <2>3 DEF LifeTypeOK
    <2>6. ParentFollows'
        BY <1>0, <2>2, <2>3 DEF ParentFollows
    <2>7. ChildFollows' /\ ReleasedJoined'
        BY <1>0, <2>2, <2>3 DEF ChildFollows, ReleasedJoined, ParentFollows
    <2> QED
        BY <2>2, <2>4, <2>5, <2>6, <2>7
<1> QED
    BY <1>1, <1>2, <1>3, <1>4, <1>5, <1>6

\* The child's own steps, from the native thread's start to its end.
LEMMA ChildKeepsLifeInv ==
    ASSUME LifeInv, TakeData \/ MainStep \/ MainEnds \/ MainWaited \/ MainInterrupted \/ Store \/ Exit
    PROVE  LifeInv'
<1> USE ThreeThreads, ThreeCondVars DEF LifeInv, Typed, lifeVars, dataVars, InterruptionUnchanged, EnabledUnchanged
<1>1. PICK l \in {"start", "main", "wait", "unwinding", "store", "finish", "ended"} :
            pc' = [pc EXCEPT ![child] = l]
    BY PointMoves DEF TakeData, MainStep, MainEnds, MainWaited, MainInterrupted, Store, Exit, GoTo, Where
<1>2. l \in ChildLocations
    BY DEF ChildLocations, WaitLocations
<1>3. /\ Where' /\ pc'[child] = l
      /\ pc'[parent] = pc[parent] /\ pc'[other] = pc[other]
    BY <1>1, <1>2, ChildGoes
<1>4. CvTypeOK'
    <2>1. CASE MainStep
        <3>1. interruptionRequested' \in [Threads -> BOOLEAN]
            BY <2>1, PointMoves DEF MainStep, Where, CvTypeOK
        <3>2. condVar' \in [Threads -> CondVars \cup {NoCondVar}]
            BY <2>1 DEF MainStep, Where, CvTypeOK
        <3>3. mtxOwner' \in [CondVars -> Threads \cup {NoThread}]
            BY <2>1 DEF MainStep, Where, CvTypeOK, LockMutex
        <3>4. interruptionEnabled' \in [Threads -> BOOLEAN]
            BY <2>1 DEF MainStep, LifeTypeOK, CvTypeOK, DisableInterruption, RestoreInterruption
        <3> QED
            BY <2>1, <3>1, <3>2, <3>3, <3>4 DEF MainStep, Where, CvTypeOK
    <2>2. CASE ~MainStep
        BY <2>2 DEF TakeData, MainEnds, MainWaited, MainInterrupted, Store, Exit, Where,
            CvTypeOK, UnlockMutex
    <2> QED
        BY <2>1, <2>2
<1>5. /\ condVar' = [condVar EXCEPT ![child] = condVar'[child]]
      /\ interruptionEnabled'[parent] = interruptionEnabled[parent]
      /\ wasEnabled' \in [Threads -> BOOLEAN]
      /\ outcome' \in Outcomes \cup {"none"}
      /\ UNCHANGED <<op, object, pData, nativeHandle, pTmpData, started, joinedOrDetached, joined,
                     detached, requests, terminated>>
    BY DEF TakeData, MainStep, MainEnds, MainWaited, MainInterrupted, Store, Exit, LifeTypeOK, CvTypeOK,
        DisableInterruption, RestoreInterruption, Outcomes
<1>6. childData' \in BOOLEAN
    BY DEF TakeData, MainStep, MainEnds, MainWaited, MainInterrupted, Store, Exit, LifeTypeOK
<1>7. Typed'
    BY <1>2, <1>3, <1>4, <1>5, <1>6 DEF LifeTypeOK
<1>8. pc[child] # "none" /\ l # "none" /\ condVar'[parent] = condVar[parent]
    BY <1>1, <1>5 DEF TakeData, MainStep, MainEnds, MainWaited, MainInterrupted, Store, Exit, Where, CvTypeOK
<1>9. ParentFollows'
    BY <1>3, <1>5, <1>8 DEF ParentFollows
<1>10. ChildFollows' /\ ReleasedJoined'
    <2> USE DEF ChildFollows, ReleasedJoined
    <2>1. CASE TakeData
        BY <1>3, <1>5, <2>1 DEF TakeData, GoTo, Where, WaitLocations
    <2>2. CASE MainStep
        <3>1. /\ pc[child] = "main" /\ l \in {"main", "wait", "unwinding"}
              /\ l = "wait" => condVar'[child] = workCondVar
              /\ UNCHANGED <<op, dataVars, joined, outcome, detached>>
            BY <1>3, <2>2, PointMoves DEF MainStep, GoTo, Where, CvTypeOK
        <3> QED
            BY <1>3, <1>5, <3>1 DEF WaitLocations
    <2>3. CASE MainEnds \/ MainInterrupted
        BY <1>3, <1>5, <2>3 DEF MainEnds, MainInterrupted, GoTo, Where, WaitLocations
    <2>4. CASE MainWaited
        BY <1>3, <1>5, <2>4 DEF MainWaited, GoTo, Where, WaitLocations
    <2>5. CASE Store \/ Exit
        BY <1>3, <1>5, <2>5 DEF Store, Exit, GoTo, Where, WaitLocations
    <2> QED
        BY <2>1, <2>2, <2>3, <2>4, <2>5
<1> QED
    BY <1>7, <1>9, <1>10

\* The child's notifications, and the two requesters of interruption.
LEMMA WakersKeepLifeInv ==
    ASSUME LifeInv, \/ SetStart \/ Finish \/ Notifying(parent, child) \/ Notifying(other, parent)
                    \/ InterruptParent
    PROVE  LifeInv'
<1> USE ThreeThreads, ThreeCondVars DEF LifeInv, Typed, lifeVars, dataVars, InterruptionUnchanged, EnabledUnchanged
<1>0. /\ {"main", "exit"} \subseteq ChildLocations /\ {"idle", "destructorGuard"} \subseteq ParentLocations
      /\ {"asleep", "relock"} \subseteq WaitLocations /\ {"asleep", "relock"} \subseteq InWait
      /\ {"asleep", "relock"} \cap (InDestructor \cup Throwing) = {}
      /\ "destructorGuard" \in InDestructor /\ "destructorNotifying" \in InDestructor
      /\ InDestructor \cap InWait = {} /\ {"idle", "notifying"} \cap (InWait \cup InDestructor) = {}
      /\ WaitLocations \cap {"none", "created", "start", "main", "store", "finish", "exit", "ended"} = {}
    BY DEF InDestructor, ParentLocations, ChildLocations, InWait, WaitLocations, Throwing
<1> DEFINE Moved(u) == \/ pc'[u] = pc[u]
                       \/ pc[u] = "asleep" /\ pc'[u] = "relock"
<1>1. CASE SetStart
    <2>1. PICK S \in NotifyOne(startedCondVar) : pc' = [Woken(S) EXCEPT ![child] = "main"]
        BY <1>1 DEF SetStart
    <2>2. Where' /\ pc'[child] = "main" /\ Moved(parent)
        <3>1. S \in SUBSET Threads /\ \A u \in S : pc[u] = "asleep"
            BY SleepersAsleep
        <3>2. "main" \in ChildLocations /\ child # parent /\ child # other
            BY <1>0
        <3>3. /\ Where' /\ pc'[child] = "main"
              /\ \A u \in Threads \ {child} : Moved(u)
            BY <2>1, <3>1, <3>2, WakerGoes
        <3> QED
            BY <3>3
    <2>3. /\ pc[child] = "start" /\ started' = TRUE
          /\ UNCHANGED <<condVar, mtxOwner, status, interruptionEnabled, interruptionRequested,
                pWaitingConditionVariable, interruptionRequestedMtx, op, object, pData,
                nativeHandle, pTmpData, childData, joinedOrDetached, stored, wasEnabled, outcome,
                joined, detached, requests, terminated>>
        BY <1>1 DEF SetStart
    <2>4. CvTypeOK' /\ LifeTypeOK'
        BY <2>3 DEF CvTypeOK, LifeTypeOK
    <2>5. ParentFollows'
        BY <1>0, <2>2, <2>3 DEF ParentFollows
    <2>6. ChildFollows' /\ ReleasedJoined'
        BY <1>0, <2>2, <2>3 DEF ChildFollows, ReleasedJoined
    <2> QED
        BY <2>2, <2>4, <2>5, <2>6
<1>2. CASE Finish
    <2>1. PICK S \in NotifyOne(joinedOrDetachedCondVar) \cup {{}} :
            pc' = [Woken(S) EXCEPT ![child] = "exit"]
        <3>1. Woken({}) = pc
            BY DEF Woken, Where
        <3> QED
            BY <1>2, <3>1 DEF Finish, GoTo
    <2>2. Where' /\ pc'[child] = "exit" /\ Moved(parent)
        <3>1. S \in SUBSET Threads /\ \A u \in S : pc[u] = "asleep"
            BY SleepersAsleep
        <3>2. "exit" \in ChildLocations /\ child # parent /\ child # other
            BY <1>0
        <3>3. /\ Where' /\ pc'[child] = "exit"
              /\ \A u \in Threads \ {child} : Moved(u)
            BY <2>1, <3>1, <3>2, WakerGoes
        <3> QED
            BY <3>3
    <2>3. /\ pc[child] = "finish" /\ joinedOrDetached' = TRUE /\ terminated' \in BOOLEAN
          /\ UNCHANGED <<condVar, mtxOwner, status, interruptionEnabled, interruptionRequested,
                pWaitingConditionVariable, interruptionRequestedMtx, op, object, pData,
                nativeHandle, pTmpData, childData, started, stored, wasEnabled, outcome,
                joined, detached, requests>>
        BY <1>2 DEF Finish, LifeTypeOK
    <2>4. CvTypeOK' /\ LifeTypeOK'
        BY <2>3 DEF CvTypeOK, LifeTypeOK
    <2>5. ParentFollows'
        BY <1>0, <2>2, <2>3 DEF ParentFollows
    <2>6. ChildFollows' /\ ReleasedJoined'
        BY <1>0, <2>2, <2>3 DEF ChildFollows, ReleasedJoined
    <2> QED
        BY <2>2, <2>4, <2>5, <2>6
<1>3. ASSUME NEW r \in {parent, other}, NEW t \in Threads, Notifying(r, t)
      PROVE  LifeInv'
    <2> DEFINE l == IF pc[r] = "notifying" THEN "idle" ELSE "destructorGuard"
               S == Sleepers(pWaitingConditionVariable[t])
    <2>1. pc' = [Woken(S) EXCEPT ![r] = l] /\ pc[r] \in {"notifying", "destructorNotifying"}
        BY <1>3 DEF Notifying, NotifyWaiting
    <2>2. Where' /\ pc'[r] = l /\ \A u \in Threads \ {r} : Moved(u)
        <3>1. r = other => l = "idle"
            BY <2>1 DEF Where
        <3>2. l \in ParentLocations
            BY <1>0
        <3>3. S \in SUBSET Threads /\ \A u \in S : pc[u] = "asleep"
            BY SleepersAsleep
        <3>4. r \in Threads /\ r # child
            OBVIOUS
        <3> HIDE DEF S, l
        <3> QED
            BY <2>1, <3>1, <3>2, <3>3, <3>4, WakerGoes
    <2>3. /\ interruptionRequestedMtx' = [interruptionRequestedMtx EXCEPT ![t] = NoThread]
          /\ UNCHANGED <<condVar, mtxOwner, status, interruptionEnabled, interruptionRequested,
                pWaitingConditionVariable, op, object, pData, nativeHandle, pTmpData, childData,
                started, joinedOrDetached, stored, wasEnabled, outcome, joined, detached,
                requests, terminated>>
        BY <1>3 DEF Notifying, NotifyWaiting
    <2>4. CvTypeOK' /\ LifeTypeOK'
        BY <2>3 DEF CvTypeOK, LifeTypeOK
    <2>5. /\ \/ pc[parent] = "notifying" /\ pc'[parent] = "idle"
             \/ pc[parent] = "destructorNotifying" /\ pc'[parent] = "destructorGuard"
             \/ Moved(parent)
          /\ Moved(child)
        <3>1. CASE r = parent
            BY <2>1, <2>2, <3>1
        <3>2. CASE r = other
            BY <2>2, <3>2
        <3> QED
            BY <3>1, <3>2
    <2>6. ParentFollows'
        BY <1>0, <2>3, <2>5 DEF ParentFollows
    <2>7. ChildFollows' /\ ReleasedJoined'
        BY <1>0, <2>3, <2>5 DEF ChildFollows, ReleasedJoined
    <2> QED
        BY <2>2, <2>4, <2>6, <2>7
<1>4. CASE InterruptParent
    <2>1. /\ \E l \in {"notifying", "idle"} : pc' = [pc EXCEPT ![other] = l]
          /\ interruptionRequested' = [interruptionRequested EXCEPT ![parent] = TRUE]
          /\ requests[parent] < MaxRequests
          /\ requests' = [requests EXCEPT ![parent] = @ + 1]
          /\ UNCHANGED <<condVar, mtxOwner, status, interruptionEnabled,
                pWaitingConditionVariable, op, object, pData, nativeHandle, pTmpData, childData,
                started, joinedOrDetached, stored, wasEnabled, outcome, joined, detached,
                terminated>>
        BY <1>4 DEF InterruptParent, RequestInterruption, GoTo
    <2>2. /\ pc'[parent] = pc[parent] /\ pc'[child] = pc[child]
          /\ pc'[other] \in {"idle", "notifying"} /\ pc' \in [Threads -> Locations]
        BY <2>1 DEF Where, Locations, ParentLocations
    <2>3. Where'
        BY <2>2 DEF Where
    <2>4. requests' \in [Threads -> 0..MaxRequests]
        BY <2>1, BoundAssumption DEF LifeTypeOK
    <2>5. CvTypeOK'
        BY <1>4, <2>1 DEF CvTypeOK, InterruptParent, RequestInterruption
    <2>6. LifeTypeOK'
        BY <2>1, <2>4 DEF LifeTypeOK
    <2>7. ParentFollows' /\ ChildFollows' /\ ReleasedJoined'
        BY <2>1, <2>2 DEF ParentFollows, ChildFollows, ReleasedJoined
    <2> QED
        BY <2>3, <2>5, <2>6, <2>7
<1> QED
    BY <1>1, <1>2, <1>3, <1>4

LEMMA LifeInvAlways == Spec => []LifeInv
<1>1. Init => LifeInv
    <2> SUFFICES ASSUME Init PROVE LifeInv
        OBVIOUS
    <2> USE ThreeThreads DEF Init, CvInit
    <2>1. /\ {"idle", "none"} \subseteq Locations /\ "idle" \in ParentLocations
          /\ "none" \in ChildLocations
          /\ "idle" \notin InWait /\ "idle" \notin InDestructor
          /\ "none" \notin WaitLocations
        BY DEF Locations, ParentLocations, ChildLocations, InWait, InDestructor, WaitLocations
    <2>2. CvTypeOK
        BY DEF CvTypeOK
    <2>3. Where
        BY <2>1 DEF Where
    <2>4. LifeTypeOK
        <3>1. 0 \in 0..MaxRequests
            BY BoundAssumption
        <3>2. wasEnabled \in [Threads -> BOOLEAN] /\ requests \in [Threads -> 0..MaxRequests]
            BY <3>1
        <3>3. detached \in BOOLEAN /\ joinedOrDetached \in BOOLEAN
            OBVIOUS
        <3> QED
            BY <3>2, <3>3 DEF LifeTypeOK
    <2>5. ParentFollows
        BY <2>1 DEF ParentFollows
    <2>6. ChildFollows /\ ReleasedJoined
        BY <2>1 DEF ChildFollows, ReleasedJoined
    <2> QED
        BY <2>2, <2>3, <2>4, <2>5, <2>6 DEF LifeInv, Typed
<1>2. LifeInv /\ [Next]_vars => LifeInv'
    <2> SUFFICES ASSUME LifeInv, [Next]_vars PROVE LifeInv'
        OBVIOUS
    <2>1. CASE ParentCall
        BY <2>1, WaitsKeepLifeInv, CallsKeepLifeInv DEF ParentCall
    <2>2. CASE ParentStep
        BY <2>2, WaitStepKeepsLifeInv, WaitsKeepLifeInv, CallsKeepLifeInv, WakersKeepLifeInv DEF ParentStep
    <2>3. CASE ChildStep \/ MainStep \/ MainEnds
        BY <2>3, WaitStepKeepsLifeInv, ChildKeepsLifeInv, WakersKeepLifeInv DEF ChildStep
    <2>4. CASE InterruptParent \/ Notifying(other, parent)
        BY <2>4, WakersKeepLifeInv
    <2>5. CASE UNCHANGED vars
        BY <2>5 DEF vars, cvVars, lifeVars, dataVars, LifeInv, Typed, CvTypeOK, Where, LifeTypeOK,
            ParentFollows, ChildFollows, ReleasedJoined
    <2> QED
        BY <2>1, <2>2, <2>3, <2>4, <2>5 DEF Next, Over
<1> QED
    BY <1>1, <1>2, PTL DEF Spec
-----------------------------------------------------------------------------
\* Where a thread owns the mutex of its condition variable, and where the
\* pointer to that variable may be set.
Owning == (WaitLocations \ {"asleep", "relock"}) \cup {"waited", "threw", "test"}
Registered == WaitLocations \ {"wait", "register"}

\* A mutex is owned by the thread that is in a wait for its variable, and by
\* nobody else.
OwnersFollow == \A t \in Threads, c \in CondVars :
    mtxOwner[c] = t <=> pc[t] \in Owning /\ condVar[t] = c

PointersFollow == \A t \in Threads :
    pWaitingConditionVariable[t] # NoCondVar =>
        /\ pWaitingConditionVariable[t] = condVar[t]
        /\ pc[t] \in Registered /\ t \notin Adopted

CvInv == OwnersFollow /\ PointersFollow

\* A step of one thread, which keeps, locks or unlocks a mutex.
LEMMA MoveKeepsCvInv ==
    ASSUME CvTypeOK, Where, CvInv, NEW t \in Threads, NEW l, pc' = [pc EXCEPT ![t] = l],
           \A u \in Threads \ {t} : /\ condVar'[u] = condVar[u]
                                    /\ pWaitingConditionVariable'[u] = pWaitingConditionVariable[u],
           pWaitingConditionVariable'[t] # NoCondVar =>
                /\ pWaitingConditionVariable'[t] = condVar'[t]
                /\ l \in Registered /\ t \notin Adopted,
           \/ /\ mtxOwner' = mtxOwner /\ (l \in Owning <=> pc[t] \in Owning)
              /\ l \in Owning => condVar'[t] = condVar[t]
           \/ /\ pc[t] \notin Owning /\ l \in Owning
              /\ \E c \in CondVars : /\ mtxOwner[c] = NoThread /\ condVar'[t] = c
                                     /\ mtxOwner' = [mtxOwner EXCEPT ![c] = t]
           \/ /\ pc[t] \in Owning /\ l \notin Owning
              /\ condVar[t] \in CondVars
              /\ mtxOwner' = [mtxOwner EXCEPT ![condVar[t]] = NoThread]
    PROVE  CvInv'
<1>1. pc'[t] = l /\ \A u \in Threads \ {t} : pc'[u] = pc[u]
    BY DEF Where
<1>2. Owning' = Owning /\ Registered' = Registered
    BY DEF Owning, Registered
<1>3. ASSUME NEW u \in Threads, NEW c \in CondVars
      PROVE  mtxOwner'[c] = u <=> pc'[u] \in Owning /\ condVar'[u] = c
    <2>1. /\ mtxOwner[c] = u <=> pc[u] \in Owning /\ condVar[u] = c
          /\ mtxOwner[c] = t <=> pc[t] \in Owning /\ condVar[t] = c
          /\ NoThread \notin Threads /\ mtxOwner \in [CondVars -> Threads \cup {NoThread}]
        BY NobodyAssumption DEF CvInv, OwnersFollow, CvTypeOK
    <2>2. CASE /\ mtxOwner' = mtxOwner /\ (l \in Owning <=> pc[t] \in Owning)
               /\ l \in Owning => condVar'[t] = condVar[t]
        BY <1>1, <2>1, <2>2
    <2>3. CASE /\ pc[t] \notin Owning /\ l \in Owning
               /\ \E d \in CondVars : /\ mtxOwner[d] = NoThread /\ condVar'[t] = d
                                      /\ mtxOwner' = [mtxOwner EXCEPT ![d] = t]
        <3> PICK d \in CondVars : /\ mtxOwner[d] = NoThread /\ condVar'[t] = d
                                  /\ mtxOwner' = [mtxOwner EXCEPT ![d] = t]
            BY <2>3
        <3>1. mtxOwner'[c] = IF c = d THEN t ELSE mtxOwner[c]
            BY <2>1
        <3>2. c = d => ~(pc[u] \in Owning /\ condVar[u] = c)
            BY <2>1
        <3> QED
            BY <1>1, <2>1, <2>3, <3>1, <3>2
    <2>4. CASE /\ pc[t] \in Owning /\ l \notin Owning /\ condVar[t] \in CondVars
               /\ mtxOwner' = [mtxOwner EXCEPT ![condVar[t]] = NoThread]
        <3>1. mtxOwner'[c] = IF c = condVar[t] THEN NoThread ELSE mtxOwner[c]
            BY <2>1, <2>4
        <3>2. c = condVar[t] => mtxOwner[c] = t
            BY <2>1, <2>4
        <3> QED
            BY <1>1, <2>1, <2>4, <3>1, <3>2
    <2> QED
        BY <2>2, <2>3, <2>4
<1> HIDE DEF Owning, Registered
<1>4. OwnersFollow'
    BY <1>2, <1>3 DEF OwnersFollow
<1>5. PointersFollow'
    BY <1>1, <1>2 DEF CvInv, PointersFollow
<1> QED
    BY <1>4, <1>5 DEF CvInv

\* Steps without a mutex: threads are woken, or go between places where they
\* own nothing.
LEMMA WakingKeepsCvInv ==
    ASSUME CvInv, UNCHANGED <<mtxOwner, condVar, pWaitingConditionVariable>>,
           \A u \in Threads : \/ pc'[u] = pc[u]
                              \/ pc[u] = "asleep" /\ pc'[u] = "relock"
                              \/ {pc[u], pc'[u]} \cap (Owning \cup Registered) = {}
    PROVE  CvInv'
<1>1. /\ "asleep" \notin Owning /\ "relock" \notin Owning
      /\ "asleep" \in Registered /\ "relock" \in Registered
    BY DEF Owning, Registered, WaitLocations
<1>2. Owning' = Owning /\ Registered' = Registered
    BY DEF Owning, Registered
<1> HIDE DEF Owning, Registered
<1>3. OwnersFollow'
    BY <1>1, <1>2 DEF CvInv, OwnersFollow
<1>4. PointersFollow'
    BY <1>1, <1>2 DEF CvInv, PointersFollow
<1> QED
    BY <1>3, <1>4 DEF CvInv

LEMMA OwningLocations ==
    /\ {"wait", "register", "registered", "block", "woken", "unregister", "unregisterThrow",
        "waited", "threw", "test"} \subseteq Owning
    /\ {"registered", "block", "asleep", "relock", "woken", "unregister", "unregisterThrow"}
            \subseteq Registered
    /\ {"asleep", "relock", "idle", "lock", "notifying", "destructorNotifying", "destructorGuard",
        "destructorJoin", "destroyed", "gone", "none", "created", "start", "main", "unwinding",
        "store", "finish", "exit", "ended"} \cap Owning = {}
    /\ {"wait", "register", "waited", "threw", "test", "idle", "lock", "notifying",
        "destructorNotifying", "destructorGuard", "destructorJoin", "destroyed", "gone", "none",
        "created", "start", "main", "unwinding", "store", "finish", "exit", "ended"}
            \cap Registered = {}
BY DEF Owning, Registered, WaitLocations

LEMMA WaitStepKeepsCvInv ==
    ASSUME CvTypeOK, Where, CvInv, NEW t \in Threads, WaitStep(t), condVar[t] \in CondVars
    PROVE  CvInv'
<1>1. /\ pWaitingConditionVariable[t] # NoCondVar =>
            /\ pWaitingConditionVariable[t] = condVar[t]
            /\ pc[t] \in Registered /\ t \notin Adopted
      /\ pWaitingConditionVariable \in [Threads -> CondVars \cup {NoCondVar}]
    BY DEF CvInv, PointersFollow, CvTypeOK
<1>2. CASE WaitEnter(t) \/ WaitRegistered(t) \/ WaitWoken(t)
    <2>1. PICK l : pc' = [pc EXCEPT ![t] = l] /\ \/ pc[t] = "wait" /\ l \in {"register", "threw"}
                                                 \/ pc[t] = "registered" /\ l \in {"block", "unregisterThrow"}
                                                 \/ pc[t] = "woken" /\ l \in {"unregister", "unregisterThrow"}
        BY <1>2, PointMoves DEF WaitEnter, WaitRegistered, WaitWoken
    <2>2. UNCHANGED <<condVar, mtxOwner, pWaitingConditionVariable>>
        BY <1>2 DEF WaitEnter, WaitRegistered, WaitWoken
    <2>3. l \in Owning /\ pc[t] \in Owning /\ (pc[t] \in Registered => l \in Registered)
        BY <2>1, OwningLocations
    <2> QED
        BY <1>1, <2>1, <2>2, <2>3, MoveKeepsCvInv
<1>3. CASE WaitRegister(t)
    <2>1. /\ pc[t] = "register" /\ pc' = [pc EXCEPT ![t] = "registered"]
          /\ UNCHANGED <<condVar, mtxOwner>>
        BY <1>3 DEF WaitRegister, GoTo
    <2>2. /\ \A u \in Threads \ {t} :
                pWaitingConditionVariable'[u] = pWaitingConditionVariable[u]
          /\ pWaitingConditionVariable'[t] =
                IF t \in Adopted THEN pWaitingConditionVariable[t] ELSE condVar[t]
        BY <1>1, <1>3 DEF WaitRegister, SetWaitingConditionVariable
    <2> QED
        BY <1>1, <2>1, <2>2, MoveKeepsCvInv, OwningLocations
<1>4. CASE WaitBlock(t)
    <2>1. /\ pc[t] = "block" /\ pc' = [pc EXCEPT ![t] = "asleep"]
          /\ UNCHANGED <<condVar, pWaitingConditionVariable>>
          /\ mtxOwner' = [mtxOwner EXCEPT ![condVar[t]] = NoThread]
        BY <1>4 DEF WaitBlock, GoTo, UnlockMutex
    <2> QED
        BY <1>1, <2>1, MoveKeepsCvInv, OwningLocations
<1>5. CASE WaitWakes(t)
    <2>1. /\ pc[t] = "asleep" /\ pc' = [pc EXCEPT ![t] = "relock"]
          /\ UNCHANGED <<condVar, mtxOwner, pWaitingConditionVariable>>
        BY <1>5 DEF WaitWakes, GoTo
    <2> QED
        BY <1>1, <2>1, MoveKeepsCvInv, OwningLocations
<1>6. CASE WaitRelock(t)
    <2>1. /\ pc[t] = "relock" /\ pc' = [pc EXCEPT ![t] = "woken"]
          /\ UNCHANGED <<condVar, pWaitingConditionVariable>>
          /\ mtxOwner[condVar[t]] = NoThread
          /\ mtxOwner' = [mtxOwner EXCEPT ![condVar[t]] = t]
        BY <1>6 DEF WaitRelock, GoTo, LockMutex
    <2> QED
        BY <1>1, <2>1, MoveKeepsCvInv, OwningLocations
<1>7. CASE WaitLeave(t)
    <2>1. PICK l \in {"waited", "threw"} : pc' = [pc EXCEPT ![t] = l]
        BY <1>7 DEF WaitLeave, GoTo
    <2>2. pc[t] \in {"unregister", "unregisterThrow"} /\ UNCHANGED <<condVar, mtxOwner>>
        BY <1>7 DEF WaitLeave
    <2>3. \A u \in Threads \ {t} :
                pWaitingConditionVariable'[u] = pWaitingConditionVariable[u]
        BY <1>1, <1>7 DEF WaitLeave, SetWaitingConditionVariable
    <2>4. pWaitingConditionVariable'[t] = NoCondVar
        BY <1>1, <1>7 DEF WaitLeave, SetWaitingConditionVariable
    <2> QED
        BY <2>1, <2>2, <2>3, <2>4, MoveKeepsCvInv, OwningLocations
<1> QED
    BY <1>2, <1>3, <1>4, <1>5, <1>6, <1>7 DEF WaitStep

\* The steps of the parent that take its waits further or call a new one.
LEMMA ParentKeepsCvInv ==
    ASSUME LifeInv, CvInv,
           \/ Start \/ Lock \/ TestStarted \/ Join \/ TestJoined \/ JoinThrows \/ DestroyJoin
           \/ TryJoin \/ Detach \/ Interrupt \/ Destroy \/ DestroyGuard \/ Destroyed
    PROVE  CvInv'
<1> USE ThreeThreads, ThreeCondVars DEF InterruptionUnchanged, EnabledUnchanged
<1>0. /\ CvTypeOK /\ Where
      /\ pWaitingConditionVariable[parent] # NoCondVar =>
            /\ pWaitingConditionVariable[parent] = condVar[parent]
            /\ pc[parent] \in Registered /\ parent \notin Adopted
      /\ pWaitingConditionVariable[child] # NoCondVar => pc[child] \in Registered
      /\ condVar \in [Threads -> CondVars \cup {NoCondVar}]
      /\ pc \in [Threads -> Locations]
    BY DEF LifeInv, Typed, CvInv, PointersFollow, CvTypeOK, Where
<1>1. pc[parent] \in {"lock", "test", "waited", "threw"} =>
        /\ condVar[parent] = IF op = "Start" THEN startedCondVar ELSE joinedOrDetachedCondVar
        /\ op # "none"
        /\ pWaitingConditionVariable[parent] = NoCondVar
    BY <1>0, OwningLocations DEF LifeInv, ParentFollows, InWait
<1>2. CASE Start
    <2>1. /\ pc[parent] = "idle" /\ pc' = [pc EXCEPT ![parent] = "lock", ![child] = "created"]
          /\ condVar' = [condVar EXCEPT ![parent] = startedCondVar]
          /\ UNCHANGED <<mtxOwner, pWaitingConditionVariable>>
        BY <1>2 DEF Start
    <2>2. pc[child] = "none"
        BY <1>2, OwningLocations DEF Start, LifeInv, ParentFollows, ChildFollows, InWait, WaitLocations,
            Typed, Where, ChildLocations
    <2>3. pWaitingConditionVariable[parent] = NoCondVar /\ pWaitingConditionVariable[child] = NoCondVar
        BY <1>0, <2>1, <2>2, OwningLocations
    <2>4. /\ pc'[parent] = "lock" /\ pc'[child] = "created" /\ pc'[other] = pc[other]
          /\ condVar'[parent] = startedCondVar
          /\ \A u \in Threads \ {parent} : condVar'[u] = condVar[u]
        BY <1>0, <2>1
    <2>5. OwnersFollow'
        <3>1. \A c \in CondVars : mtxOwner[c] # parent /\ mtxOwner[c] # child
            BY <2>1, <2>2, OwningLocations DEF CvInv, OwnersFollow
        <3>2. "lock" \notin Owning /\ "created" \notin Owning /\ Owning' = Owning
            BY OwningLocations DEF Owning
        <3> QED
            BY <2>1, <2>4, <3>1, <3>2 DEF CvInv, OwnersFollow
    <2>6. PointersFollow'
        BY <2>1, <2>3, <2>4 DEF CvInv, PointersFollow, Registered
    <2> QED
        BY <2>5, <2>6 DEF CvInv
<1>3. CASE Lock
    <2>1. /\ pc[parent] = "lock" /\ pc' = [pc EXCEPT ![parent] = "test"]
          /\ mtxOwner[condVar[parent]] = NoThread
          /\ mtxOwner' = [mtxOwner EXCEPT ![condVar[parent]] = parent]
          /\ UNCHANGED <<condVar, pWaitingConditionVariable>>
        BY <1>3 DEF Lock, LockMutex, GoTo
    <2>2. condVar[parent] \in CondVars
        BY <1>1, <2>1
    <2> QED
        BY <1>0, <1>1, <2>1, <2>2, MoveKeepsCvInv, OwningLocations
<1>4. CASE TestStarted \/ TestJoined \/ JoinThrows
    <2>1. /\ pc[parent] \in {"test", "waited", "threw"}
          /\ UNCHANGED <<condVar, pWaitingConditionVariable>>
          /\ \/ mtxOwner' = mtxOwner /\ pc' = [pc EXCEPT ![parent] = "wait"]
             \/ /\ mtxOwner' = [mtxOwner EXCEPT ![condVar[parent]] = NoThread]
                /\ \E l \in {"idle", "destroyed"} : pc' = [pc EXCEPT ![parent] = l]
        <3>1. CASE TestStarted
            BY <1>1, <3>1 DEF TestStarted, GoTo, UnlockMutex
        <3>2. CASE TestJoined
            BY <1>1, <3>2 DEF TestJoined, GoTo, UnlockMutex
        <3>3. CASE JoinThrows
            BY <1>1, <3>3 DEF JoinThrows, GoTo, UnlockMutex
        <3> QED
            BY <1>4, <3>1, <3>2, <3>3
    <2>2. condVar[parent] \in CondVars /\ pc[parent] \in Owning
        BY <1>1, <2>1, OwningLocations
    <2>3. CASE mtxOwner' = mtxOwner /\ pc' = [pc EXCEPT ![parent] = "wait"]
        BY <1>0, <1>1, <2>1, <2>2, <2>3, MoveKeepsCvInv, OwningLocations
    <2>4. ASSUME mtxOwner' = [mtxOwner EXCEPT ![condVar[parent]] = NoThread],
                 NEW l \in {"idle", "destroyed"}, pc' = [pc EXCEPT ![parent] = l]
          PROVE  CvInv'
        <3>1. l \notin Owning
            BY OwningLocations
        <3> QED
            BY <1>0, <1>1, <2>1, <2>2, <2>4, <3>1, MoveKeepsCvInv
    <2> QED
        BY <2>1, <2>3, <2>4
<1>5. CASE Join \/ DestroyJoin
    <2>1. PICK o \in {"Join", "TryJoinFor"}, from \in {"idle", "destructorJoin"} : BeginJoin(o, from)
        BY <1>5 DEF Join, DestroyJoin
    <2>2. /\ pc[parent] \in {"idle", "destructorJoin"}
          /\ condVar' = [condVar EXCEPT ![parent] = joinedOrDetachedCondVar]
          /\ UNCHANGED <<mtxOwner, pWaitingConditionVariable>>
        BY <2>1 DEF BeginJoin
    <2>3. PICK l \in {"idle", "lock"} : pc' = [pc EXCEPT ![parent] = l]
        BY <1>0, <2>1, PointMoves DEF BeginJoin
    <2>4. /\ l \notin Owning /\ pc[parent] \notin Owning
          /\ pWaitingConditionVariable[parent] = NoCondVar
        BY <1>0, <2>2, OwningLocations
    <2>5. \A u \in Threads \ {parent} : condVar'[u] = condVar[u]
        BY <1>0, <2>2
    <2> QED
        BY <1>0, <2>2, <2>3, <2>4, <2>5, MoveKeepsCvInv
<1>6. CASE TryJoin \/ Detach
    BY <1>6, WakingKeepsCvInv DEF TryJoin, Detach, cvVars
<1>7. CASE Interrupt \/ Destroy \/ DestroyGuard \/ Destroyed
    <2>1. PICK l \in {"idle", "notifying", "destructorNotifying", "destructorGuard",
                      "destructorJoin", "destroyed", "gone"} : pc' = [pc EXCEPT ![parent] = l]
        BY <1>7 DEF Interrupt, Destroy, DestroyGuard, Destroyed, RequestChild, RequestInterruption, GoTo
    <2>2. /\ UNCHANGED <<mtxOwner, condVar, pWaitingConditionVariable>>
          /\ pc[parent] \in {"idle", "destructorGuard", "destroyed"}
        BY <1>7 DEF Interrupt, Destroy, DestroyGuard, Destroyed
    <2>3. l \notin Owning /\ pc[parent] \notin Owning /\ l \notin Registered /\ pc[parent] \notin Registered
        BY <2>2, OwningLocations
    <2> QED
        BY <1>0, <2>1, <2>2, <2>3, MoveKeepsCvInv
<1> QED
    BY <1>2, <1>3, <1>4, <1>5, <1>6, <1>7

LEMMA ChildKeepsCvInv ==
    ASSUME LifeInv, CvInv,
           TakeData \/ MainStep \/ MainEnds \/ MainWaited \/ MainInterrupted \/ Store \/ Exit
    PROVE  CvInv'
<1> USE ThreeThreads, ThreeCondVars DEF InterruptionUnchanged, EnabledUnchanged
<1>0. /\ CvTypeOK /\ Where
      /\ pWaitingConditionVariable[child] # NoCondVar => pc[child] \in Registered
      /\ condVar \in [Threads -> CondVars \cup {NoCondVar}]
    BY DEF LifeInv, Typed, CvInv, PointersFollow, CvTypeOK
<1>1. CASE TakeData \/ MainEnds \/ MainInterrupted \/ Store \/ Exit
    <2>1. PICK l \in {"start", "store", "finish", "ended"} : pc' = [pc EXCEPT ![child] = l]
        BY <1>1 DEF TakeData, MainEnds, MainInterrupted, Store, Exit, GoTo
    <2>2. /\ UNCHANGED <<mtxOwner, condVar, pWaitingConditionVariable>>
          /\ pc[child] \in {"created", "main", "unwinding", "store", "exit"}
        BY <1>1 DEF TakeData, MainEnds, MainInterrupted, Store, Exit
    <2>3. l \notin Owning /\ pc[child] \notin Owning /\ pc[child] \notin Registered
        BY <2>2, OwningLocations
    <2> QED
        BY <1>0, <2>1, <2>2, <2>3, MoveKeepsCvInv
<1>2. CASE MainStep
    <2>1. /\ pc[child] = "main" /\ UNCHANGED pWaitingConditionVariable
          /\ \/ /\ \E l \in {"main", "unwinding"} : pc' = [pc EXCEPT ![child] = l]
                /\ UNCHANGED <<mtxOwner, condVar>>
             \/ /\ pc' = [pc EXCEPT ![child] = "wait"]
                /\ condVar' = [condVar EXCEPT ![child] = workCondVar]
                /\ mtxOwner[workCondVar] = NoThread
                /\ mtxOwner' = [mtxOwner EXCEPT ![workCondVar] = child]
        BY <1>0, <1>2, PointMoves DEF MainStep, GoTo, LockMutex
    <2>2. /\ pWaitingConditionVariable[child] = NoCondVar /\ pc[child] \notin Owning
          /\ "main" \notin Owning /\ "unwinding" \notin Owning /\ "wait" \in Owning
        BY <1>0, <2>1, OwningLocations
    <2>3. CASE /\ \E l \in {"main", "unwinding"} : pc' = [pc EXCEPT ![child] = l]
               /\ UNCHANGED <<mtxOwner, condVar>>
        BY <1>0, <2>1, <2>2, <2>3, MoveKeepsCvInv
    <2>4. CASE /\ pc' = [pc EXCEPT ![child] = "wait"]
               /\ condVar' = [condVar EXCEPT ![child] = workCondVar]
               /\ mtxOwner[workCondVar] = NoThread
               /\ mtxOwner' = [mtxOwner EXCEPT ![workCondVar] = child]
        <3>1. condVar'[child] = workCondVar /\ \A u \in Threads \ {child} : condVar'[u] = condVar[u]
            BY <1>0, <2>4
        <3> QED
            BY <1>0, <2>1, <2>2, <2>4, <3>1, MoveKeepsCvInv
    <2> QED
        BY <2>1, <2>3, <2>4
<1>3. CASE MainWaited
    <2>1. PICK l \in {"main", "unwinding"} : pc' = [pc EXCEPT ![child] = l]
        BY <1>3 DEF MainWaited, GoTo
    <2>2. /\ pc[child] \in {"waited", "threw"} /\ UNCHANGED <<condVar, pWaitingConditionVariable>>
          /\ mtxOwner' = [mtxOwner EXCEPT ![workCondVar] = NoThread]
        BY <1>3 DEF MainWaited, UnlockMutex
    <2>3. condVar[child] = workCondVar
        BY <2>2 DEF LifeInv, ChildFollows
    <2>4. l \notin Owning /\ pc[child] \in Owning /\ pc[child] \notin Registered
        BY <2>2, OwningLocations
    <2> QED
        BY <1>0, <2>1, <2>2, <2>3, <2>4, MoveKeepsCvInv
<1> QED
    BY <1>1, <1>2, <1>3

LEMMA WakersKeepCvInv ==
    ASSUME LifeInv, CvInv, \/ SetStart \/ Finish \/ Notifying(parent, child)
                           \/ Notifying(other, parent) \/ InterruptParent
    PROVE  CvInv'
<1> USE ThreeThreads DEF InterruptionUnchanged, EnabledUnchanged
<1>0. Where /\ pc \in [Threads -> Locations]
    BY DEF LifeInv, Typed, Where
<1>1. CASE SetStart \/ Finish
    <2>1. PICK S \in NotifyOne(startedCondVar) \cup NotifyOne(joinedOrDetachedCondVar) \cup {{}},
               l \in {"main", "exit"} : pc' = [Woken(S) EXCEPT ![child] = l]
        <3>1. Woken({}) = pc
            BY <1>0 DEF Woken
        <3> QED
            BY <1>1, <3>1 DEF SetStart, Finish, GoTo
    <2>2. \A u \in S : pc[u] = "asleep"
        BY SleepersAsleep
    <2>3. /\ UNCHANGED <<mtxOwner, condVar, pWaitingConditionVariable>>
          /\ pc[child] \in {"start", "finish"}
        BY <1>1 DEF SetStart, Finish
    <2>4. /\ pc'[child] = l
          /\ \A u \in Threads \ {child} : pc'[u] = pc[u] \/ (pc[u] = "asleep" /\ pc'[u] = "relock")
        BY <2>1, <2>2 DEF Woken
    <2>5. {pc[child], l} \cap (Owning \cup Registered) = {}
        BY <2>3, OwningLocations
    <2> QED
        BY <2>3, <2>4, <2>5, WakingKeepsCvInv
<1>2. ASSUME NEW r \in {parent, other}, NEW t \in Threads, Notifying(r, t)
      PROVE  CvInv'
    <2> DEFINE S == Sleepers(pWaitingConditionVariable[t])
    <2>1. PICK l \in {"idle", "destructorGuard"} : pc' = [Woken(S) EXCEPT ![r] = l]
        BY <1>2 DEF Notifying, NotifyWaiting
    <2>2. \A u \in S : pc[u] = "asleep"
        BY SleepersAsleep
    <2> HIDE DEF S
    <2>3. /\ UNCHANGED <<mtxOwner, condVar, pWaitingConditionVariable>>
          /\ pc[r] \in {"notifying", "destructorNotifying"}
        BY <1>2 DEF Notifying
    <2>4. /\ pc'[r] = l
          /\ \A u \in Threads \ {r} : pc'[u] = pc[u] \/ (pc[u] = "asleep" /\ pc'[u] = "relock")
        BY <2>1, <2>2 DEF Woken
    <2>5. {pc[r], l} \cap (Owning \cup Registered) = {}
        BY <2>3, OwningLocations
    <2> QED
        BY <2>3, <2>4, <2>5, WakingKeepsCvInv
<1>3. CASE InterruptParent
    <2>1. PICK l \in {"idle", "notifying"} : pc' = [pc EXCEPT ![other] = l]
        BY <1>3 DEF InterruptParent, RequestInterruption, GoTo
    <2>2. UNCHANGED <<mtxOwner, condVar, pWaitingConditionVariable>> /\ pc[other] = "idle"
        BY <1>3 DEF InterruptParent
    <2>3. {pc[other], l} \cap (Owning \cup Registered) = {}
        BY <2>2, OwningLocations
    <2> QED
        BY <1>0, <2>1, <2>2, <2>3, WakingKeepsCvInv
<1> QED
    BY <1>1, <1>2, <1>3

LEMMA CvInvAlways == Spec => []CvInv
<1>1. Init => CvInv
    <2> SUFFICES ASSUME Init PROVE CvInv
        OBVIOUS
    <2>1. \A t \in Threads : pc[t] \notin Owning
        BY OwningLocations DEF Init
    <2> QED
        BY <2>1, NobodyAssumption DEF Init, CvInit, CvInv, OwnersFollow, PointersFollow
<1>2. LifeInv /\ CvInv /\ [Next]_vars => CvInv'
    <2> SUFFICES ASSUME LifeInv, CvInv, [Next]_vars PROVE CvInv'
        OBVIOUS
    <2>0. CvTypeOK /\ Where /\ parent \in Threads /\ child \in Threads
        BY ThreeThreads DEF LifeInv, Typed
    <2>1. CASE ParentCall
        BY <2>1, ParentKeepsCvInv DEF ParentCall
    <2>2. CASE WaitStep(parent)
        <3>1. condVar[parent] \in CondVars
            BY <2>0, <2>2, WaitStepMoves, ThreeCondVars DEF LifeInv, ParentFollows, InWait
        <3> QED
            BY <2>0, <2>2, <3>1, WaitStepKeepsCvInv
    <2>3. CASE ParentStep /\ ~WaitStep(parent)
        BY <2>3, ParentKeepsCvInv, WakersKeepCvInv DEF ParentStep
    <2>4. CASE WaitStep(child)
        <3>1. condVar[child] \in CondVars
            BY <2>0, <2>4, WaitStepMoves, ThreeCondVars DEF LifeInv, ChildFollows
        <3> QED
            BY <2>0, <2>4, <3>1, WaitStepKeepsCvInv
    <2>5. CASE (ChildStep /\ ~WaitStep(child)) \/ MainStep \/ MainEnds
        BY <2>5, ChildKeepsCvInv, WakersKeepCvInv DEF ChildStep
    <2>6. CASE InterruptParent \/ Notifying(other, parent)
        BY <2>6, WakersKeepCvInv
    <2>7. CASE UNCHANGED vars
        BY <2>7, WakingKeepsCvInv DEF vars, cvVars
    <2> QED
        BY <2>1, <2>2, <2>3, <2>4, <2>5, <2>6, <2>7 DEF Next, Over
<1> QED
    BY <1>1, <1>2, LifeInvAlways, PTL DEF Spec
-----------------------------------------------------------------------------
\* The child takes its reference to the ThreadData before the parent can drop
\* its own; until then the parent waits in Start() with its local reference.
THEOREM DataAlwaysOutlivesUse == Spec => []DataOutlivesUse
<1>1. LifeInv => TypeOK
    <2> SUFFICES ASSUME LifeInv PROVE TypeOK
        OBVIOUS
    <2>1. pc \in [Threads -> WaitLocations \cup {"idle", "none", "lock", "test", "waited", "threw",
                "notifying", "destructorNotifying", "destructorGuard", "destructorJoin",
                "destroyed", "gone", "created", "start", "main", "unwinding", "store", "finish",
                "exit", "ended"}]
        BY DEF LifeInv, Typed, Where, Locations, ParentLocations, ChildLocations, InWait, InDestructor
    <2>2. {pData, nativeHandle, pTmpData, childData, started, joinedOrDetached, detached,
           terminated} \subseteq BOOLEAN
        BY DEF LifeInv, Typed, LifeTypeOK
    <2>3. stored \in IF pc[child] \in {"finish", "exit", "ended"} THEN Outcomes ELSE {"none"}
        BY DEF LifeInv, Typed, LifeTypeOK, ChildFollows
    <2> QED
        BY <2>1, <2>2, <2>3 DEF LifeInv, Typed, LifeTypeOK, TypeOK
<1>2. LifeInv => (pc[child] \notin {"none", "ended"} => DataAlive)
    BY DEF LifeInv, ParentFollows, ChildFollows, DataAlive
<1>3. LifeInv => (pc[parent] \in WaitLocations \cup {"lock", "test", "waited", "threw"} => pTmpData)
    BY DEF LifeInv, ParentFollows, InWait
<1>4. LifeInv => DataOutlivesUse
    BY <1>1, <1>2, <1>3 DEF DataOutlivesUse
<1> QED
    BY <1>4, LifeInvAlways, PTL

\* No Thread object lets go of a thread that it neither joined nor detached,
\* in whatever order its operations are called and interrupted.
THEOREM AlwaysReleasedOnlyCompleted == Spec => []ReleasedOnlyCompleted
<1>1. LifeInv => ReleasedOnlyCompleted
    BY DEF LifeInv, Typed, LifeTypeOK, ReleasedJoined, ReleasedOnlyCompleted
<1> QED
    BY <1>1, LifeInvAlways, PTL

\* The waits of the parent and of the child own the mutex that is used with
\* their condition variable everywhere but while they sleep.
THEOREM ThreadWaitsOwnTheirMutex == Spec => []WaitOwnsMutex
<1>1. LifeInv /\ CvInv => WaitOwnsMutex
    <2> SUFFICES ASSUME LifeInv, CvInv, NEW t \in Threads
                 PROVE  /\ pc[t] \in (WaitLocations \ {"asleep", "relock"}) \cup {"waited", "threw"} =>
                                mtxOwner[condVar[t]] = t
                        /\ pc[t] \in {"asleep", "relock"} => mtxOwner[condVar[t]] # t
        BY DEF WaitOwnsMutex
    <2>1. pc[t] \in WaitLocations \cup {"waited", "threw"} => condVar[t] \in CondVars
        BY ThreeThreads, ThreeCondVars DEF LifeInv, Typed, Where, ParentFollows, ChildFollows, InWait,
            WaitLocations
    <2>2. {"asleep", "relock"} \subseteq WaitLocations
        BY DEF WaitLocations
    <2> QED
        BY <2>1, <2>2 DEF CvInv, OwnersFollow, Owning
<1> QED
    BY <1>1, LifeInvAlways, CvInvAlways, PTL

\* RequestInterruption() of the child, by the parent or by the destructor, and
\* of the parent notify a wait that is still going on.
THEOREM ThreadPointerOnlyInWait == Spec => []WaitingPointerInWait
<1>1. CvInv => WaitingPointerInWait
    BY DEF CvInv, PointersFollow, WaitingPointerInWait, Registered
<1> QED
    BY <1>1, CvInvAlways, PTL

\* interruptionEnabled_, which RequestInterruption() reads without a lock, is
\* written only by its own thread, and never while the thread is registered.
THEOREM ThreadEnabledReadStable == Spec => EnabledReadStable
<1>1. LifeInv /\ CvInv /\ CvInv' /\ [Next]_vars =>
        [\A t \in Threads :
            pWaitingConditionVariable[t] # NoCondVar \/ pWaitingConditionVariable'[t] # NoCondVar
                => interruptionEnabled'[t] = interruptionEnabled[t]]_cvVars
    <2> SUFFICES ASSUME LifeInv, CvInv, CvInv', [Next]_vars, NEW t \in Threads,
                        \/ pWaitingConditionVariable[t] # NoCondVar
                        \/ pWaitingConditionVariable'[t] # NoCondVar
                 PROVE  interruptionEnabled'[t] = interruptionEnabled[t]
        OBVIOUS
    <2>1. /\ interruptionEnabled \in [Threads -> BOOLEAN]
          /\ CvTypeOK
        BY DEF LifeInv, Typed, CvTypeOK
    <2>2. pc[t] \in Registered \/ pc'[t] \in Registered
        BY DEF CvInv, PointersFollow, Registered
    <2> USE ThreeThreads DEF EnabledUnchanged
    <2>3. CASE UNCHANGED interruptionEnabled
        BY <2>3
    <2>4. CASE Start
        <3>1. /\ pc[parent] = "idle" /\ pc'[parent] = "lock"
              /\ interruptionEnabled' = [interruptionEnabled EXCEPT ![parent] = FALSE]
            BY <2>4 DEF Start, DisableInterruption, LifeInv, Typed, Where
        <3>2. t # parent
            BY <2>2, <3>1, OwningLocations
        <3> QED
            BY <2>1, <3>1, <3>2
    <2>5. CASE TestStarted
        <3>1. /\ pc[parent] \in {"test", "waited"} /\ pc'[parent] \in {"idle", "wait"}
              /\ \/ interruptionEnabled' = interruptionEnabled
                 \/ interruptionEnabled' = [interruptionEnabled EXCEPT ![parent] = wasEnabled[parent]]
            BY <2>5 DEF TestStarted, GoTo, RestoreInterruption, LifeInv, Typed, Where
        <3>2. t # parent
            BY <2>2, <3>1, OwningLocations
        <3> QED
            BY <2>1, <3>1, <3>2
    <2>6. CASE DestroyGuard
        <3>1. /\ pc[parent] = "destructorGuard" /\ pc'[parent] = "destructorJoin"
              /\ interruptionEnabled' = [interruptionEnabled EXCEPT ![parent] = FALSE]
            BY <2>6 DEF DestroyGuard, GoTo, DisableInterruption, LifeInv, Typed, Where
        <3>2. t # parent
            BY <2>2, <3>1, OwningLocations
        <3> QED
            BY <2>1, <3>1, <3>2
    <2>7. CASE MainStep
        <3>1. pc[child] = "main" /\ pc'[child] \in {"main", "wait", "unwinding"}
            BY <2>1, <2>7, PointMoves DEF MainStep, GoTo, LifeInv, Typed, Where
        <3>2. \/ interruptionEnabled' = interruptionEnabled
              \/ \E b : interruptionEnabled' = [interruptionEnabled EXCEPT ![child] = b]
            BY <2>7 DEF MainStep, DisableInterruption, RestoreInterruption
        <3>3. t # child
            BY <2>2, <3>1, OwningLocations
        <3> QED
            BY <2>1, <3>2, <3>3
    <2>8. ASSUME NEW u \in Threads, WaitStep(u)
          PROVE  UNCHANGED interruptionEnabled
        BY <2>1, <2>8, WaitStepMoves
    <2>9. CASE ParentCall
        BY <2>3, <2>4, <2>9 DEF ParentCall, Join, BeginJoin, TryJoin, Detach, Interrupt, Destroy, cvVars
    <2>10. CASE ParentStep
        BY <2>3, <2>5, <2>6, <2>8, <2>10 DEF ParentStep, Lock, TestJoined, JoinThrows, Notifying,
            DestroyJoin, BeginJoin, Destroyed
    <2>11. CASE ChildStep \/ MainEnds
        BY <2>3, <2>8, <2>11 DEF ChildStep, MainEnds, TakeData, SetStart, MainWaited, MainInterrupted,
            Store, Finish, Exit
    <2>12. CASE InterruptParent \/ Notifying(other, parent)
        BY <2>3, <2>12 DEF InterruptParent, Notifying
    <2>13. CASE UNCHANGED vars
        BY <2>3, <2>13 DEF vars, cvVars
    <2> QED
        BY <2>7, <2>9, <2>10, <2>11, <2>12, <2>13 DEF Next, Over
<1> QED
    BY <1>1, LifeInvAlways, CvInvAlways, PTL DEF Spec, EnabledReadStable

\* Run() ends the process exactly when an exception other than an interruption
\* left the main function of a thread that was detached before.
THEOREM ThreadTerminatesForDetached == Spec => TerminatesForDetachedException
<1>1. LifeInv /\ LifeInv' /\ [Next]_vars =>
        [pc[child] = "finish" /\ pc'[child] # "finish" =>
            terminated' = (detached /\ outcome = "exception")]_vars
    <2> SUFFICES ASSUME LifeInv, LifeInv', Next, pc[child] = "finish", pc'[child] # "finish"
                 PROVE  terminated' = (detached /\ outcome = "exception")
        OBVIOUS
    <2> USE ThreeThreads
    <2>0. pc \in [Threads -> Locations]
        BY DEF LifeInv, Typed, Where
    <2>1. CASE Finish /\ ~terminated
        <3>1. (joinedOrDetached <=> detached) /\ stored = outcome
            BY DEF LifeInv, ChildFollows
        <3> QED
            BY <2>1, <3>1 DEF Finish, LifeInv, Typed, LifeTypeOK
    <2>2. ASSUME NEW t \in Threads, NEW l, pc' = [pc EXCEPT ![t] = l], t # child
          PROVE  FALSE
        BY <2>0, <2>2
    <2>3. ASSUME NEW t \in {parent, child}, WaitStep(t)
          PROVE  FALSE
        <3>1. /\ pc[t] \in WaitLocations /\ \E l : pc' = [pc EXCEPT ![t] = l]
              /\ "finish" \notin WaitLocations
            BY <2>3, WaitStepMoves DEF LifeInv, Typed, WaitLocations
        <3> QED
            BY <2>2, <3>1
    <2>4. ~Start
        BY DEF Start, LifeInv, ParentFollows, ChildFollows, InWait, WaitLocations
    <2>5. ASSUME NEW r \in {parent, other}, NEW t \in Threads, Notifying(r, t)
          PROVE  FALSE
        <3>1. pc'[child] = Woken(Sleepers(pWaitingConditionVariable[t]))[child]
            BY <2>5 DEF Notifying, NotifyWaiting, Woken
        <3>2. child \notin Sleepers(pWaitingConditionVariable[t])
            BY DEF Sleepers
        <3> QED
            BY <3>1, <3>2 DEF Woken
    <2>6. CASE ParentCall
        BY <2>0, <2>2, <2>4, <2>6, PointMoves DEF ParentCall, Join, BeginJoin, TryJoin, Detach, Interrupt,
            Destroy, RequestChild, RequestInterruption, GoTo, cvVars, LifeInv, Typed
    <2>7. CASE ParentStep
        BY <2>2, <2>3, <2>5, <2>7, PointMoves DEF ParentStep, Lock, TestStarted, TestJoined, JoinThrows,
            DestroyGuard, DestroyJoin, BeginJoin, Destroyed, GoTo, LifeInv, Typed
    <2>8. CASE ChildStep /\ ~Finish
        BY <2>3, <2>8 DEF ChildStep, TakeData, SetStart, MainWaited, MainInterrupted, Store, Exit
    <2>9. ~MainStep /\ ~MainEnds
        BY DEF MainStep, MainEnds
    <2>10. CASE InterruptParent \/ Notifying(other, parent)
        BY <2>2, <2>5, <2>10 DEF InterruptParent, RequestInterruption, GoTo
    <2> QED
        BY <2>1, <2>6, <2>7, <2>8, <2>9, <2>10 DEF Next, Over, ChildStep, vars, cvVars
<1> QED
    BY <1>1, LifeInvAlways, PTL DEF Spec, TerminatesForDetachedException
-----------------------------------------------------------------------------
(***************************************************************************)
(* CancelableTask: what the future says follows what the task did.         *)
(***************************************************************************)
\* The steps in which the run tells the future its outcome.
Reporting == {"reportCanceled", "reportResult", "reportException", "qtReportException",
              "reportFinished"}

\* What the future says of the run.
StateFollowsRun ==
    /\ Running <=> at \in {"queued", "run", "task"} \cup Reporting
    /\ "Finished" \in state <=> at = "done"
    /\ at = "created" => \A o \in Owners : doing[o] = "idle"

\* What the task did, as far as the run has come.
DidFollowsRun ==
    /\ at \in {"created", "queued", "run", "task"} => did = "none"
    /\ at = "reportCanceled" => did = "TaskCanceledException"
    /\ at = "reportResult" => did = "result"
    /\ at \in {"reportException", "qtReportException"} => did \in Exceptions
    /\ at \in {"reportFinished", "done"} => did \in Exceptions \cup {"result"}

\* The stores are empty until the last report, then hold what the task did.
StoresFollowRun ==
    /\ exceptionStore = IF at \in {"qtReportException", "reportFinished", "done"} /\ did # "result"
                        THEN did ELSE "none"
    /\ resultStore = (at \in {"reportFinished", "done"} /\ did = "result")

\* An owner has something only when the task cannot do anything else any more.
GotIsFinal == \A o \in Owners :
    /\ got[o] = "returned" => at \in {"reportFinished", "done"} /\ did = "result"
    /\ got[o] \in Exceptions => at \in {"qtReportException", "reportFinished", "done"} /\ got[o] = did

CInv == TaskTypeOK /\ StateFollowsRun /\ DidFollowsRun /\ StoresFollowRun /\ GotIsFinal

LEMMA InitCInv == TaskInit => CInv
BY TaskThreadsAssumption DEF TaskInit, CInv, TaskTypeOK, StateFollowsRun, DidFollowsRun, StoresFollowRun,
    GotIsFinal, Running, Exceptions, Reporting

LEMMA StepKeepsCInv == CInv /\ [TaskNext]_taskVars => CInv'
<1> SUFFICES ASSUME CInv, [TaskNext]_taskVars PROVE CInv'
    OBVIOUS
<1> USE TaskThreadsAssumption DEF CInv, TaskTypeOK, StateFollowsRun, DidFollowsRun, StoresFollowRun,
        GotIsFinal, Running, Exceptions, Reporting, qtVars, ownerVars
<1>1. CASE StartTask
    BY <1>1 DEF StartTask
<1>2. CASE Take
    BY <1>2 DEF Take
<1>3. CASE RunBegins
    BY <1>3 DEF RunBegins
<1>4. CASE TaskEnds
    BY <1>4 DEF TaskEnds
<1>5. CASE ReportCanceled
    BY <1>5 DEF ReportCanceled
<1>6. CASE ReportResult
    BY <1>6 DEF ReportResult
<1>7. CASE ReportException
    BY <1>7 DEF ReportException
<1>8. CASE QtReportException
    BY <1>8 DEF QtReportException
<1>9. CASE ReportFinished
    BY <1>9 DEF ReportFinished
<1>10. CASE Cancel
    BY <1>10 DEF Cancel
<1>11. ASSUME NEW o \in Owners, Result(o) PROVE CInv'
    BY <1>11 DEF Result
<1>12. ASSUME NEW o \in Owners, Released(o) PROVE CInv'
    BY <1>12 DEF Released
<1>13. CASE UNCHANGED taskVars
    BY <1>13 DEF taskVars
<1> QED
    BY <1>1, <1>2, <1>3, <1>4, <1>5, <1>6, <1>7, <1>8, <1>9, <1>10, <1>11, <1>12, <1>13
        DEF TaskNext, Run

LEMMA CInvAlways == TaskSpec => []CInv
BY InitCInv, StepKeepsCInv, PTL DEF TaskSpec

\* The future holds what the task did, wherever a cancellation fell between.
THEOREM OutcomeAlwaysReported == TaskSpec => []OutcomeReported
<1>1. CInv => OutcomeReported
    BY DEF CInv, StateFollowsRun, DidFollowsRun, StoresFollowRun, OutcomeReported, Exceptions
<1> QED
    BY <1>1, CInvAlways, PTL

\* result() returns with a result, or throws what the task threw.
THEOREM WaitersAlwaysGetOutcome == TaskSpec => []WaitersGetOutcome
<1>1. CInv => WaitersGetOutcome
    BY DEF CInv, StoresFollowRun, GotIsFinal, WaitersGetOutcome
<1> QED
    BY <1>1, CInvAlways, PTL
=============================================================================
