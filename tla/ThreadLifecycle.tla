--------------------------- MODULE ThreadLifecycle ---------------------------
(***************************************************************************)
(* One Thread object (thread.cpp, thread_unx.cpp) and the ThreadData it    *)
(* shares with the thread it creates (thread_data.hpp): Start, Join,       *)
(* TryJoin, TryJoinFor, Detach, RequestInterruption and the destructor in  *)
(* the parent thread, Run in the child, and another thread that interrupts *)
(* the parent.  The parent calls in any order its documentation allows.    *)
(***************************************************************************)
EXTENDS ConditionVariable

CONSTANTS
    parent, child, other,       \* the three threads
    startedCondVar,             \* of StartInfo
    joinedOrDetachedCondVar,    \* of JoinedOrDetachedInfo
    workCondVar,                \* one the main function of the child waits on
    MaxRequests                 \* bound: interruptions requested per requester

ASSUME ThreadsAssumption ==
    Threads = {parent, child, other} /\ Cardinality(Threads) = 3
        /\ other \in Adopted /\ child \notin Adopted
ASSUME CondVarsAssumption ==
    /\ CondVars = {startedCondVar, joinedOrDetachedCondVar, workCondVar}
    /\ Cardinality(CondVars) = 3
ASSUME BoundAssumption == MaxRequests \in Nat

VARIABLES
    op,                 \* the operation of the Thread object the parent is in
    object,             \* "alive", "destroying" or "destroyed"
    pData,              \* Thread::pData_ is not null
    nativeHandle,       \* a native handle was stored in the ThreadData
    pTmpData,           \* the parent's local DataPtr is not null
    childData,          \* the child's DataPtr is not null
    started,            \* StartInfo::started_
    joinedOrDetached,   \* JoinedOrDetachedInfo::joinedOrDetached_
    outcome,            \* how the main function ended
    stored,             \* retCode_ or exceptionPtr_ of the ThreadData
    joined,             \* what the parent's join obtained
    detached,           \* Detach() was called, or the thread created detached
    wasEnabled,         \* DisableInterruptionGuard::kInterruptionWasEnabled_
    requests,           \* requests[t]: interruptions requested of t
    terminated          \* std::terminate() was called

dataVars == <<pData, nativeHandle, pTmpData, childData, started,
              joinedOrDetached, stored>>
lifeVars == <<op, object, dataVars, outcome, joined, detached, wasEnabled,
              requests, terminated>>
vars == <<cvVars, lifeVars>>

Outcomes == {"returned", "interrupted", "exception"}
-----------------------------------------------------------------------------
Init ==
    /\ CvInit
    /\ pc = [t \in Threads |-> IF t = child THEN "none" ELSE "idle"]
    /\ op = "none"
    /\ object = "alive"
    /\ pData = TRUE
    /\ nativeHandle = FALSE
    /\ pTmpData = FALSE
    /\ childData = FALSE
    /\ started = FALSE
    /\ detached \in BOOLEAN      \* Attributes::GetDetached()
    /\ joinedOrDetached = detached
    /\ outcome = "none"
    /\ stored = "none"
    /\ joined = "none"
    /\ wasEnabled = [t \in Threads |-> FALSE]
    /\ requests = [t \in Threads |-> 0]
    /\ terminated = FALSE

\* IsJoinable(): GetId() != Id().
IsJoinable == pData /\ nativeHandle

\* The ThreadData exists as long as a shared_ptr refers to it.
DataAlive == pData \/ pTmpData \/ childData

EnabledUnchanged == UNCHANGED <<interruptionEnabled, wasEnabled>>
InterruptionUnchanged == UNCHANGED <<interruptionRequested,
                            pWaitingConditionVariable, interruptionRequestedMtx>>

\* DisableInterruptionGuard, its constructor and its destructor.
DisableInterruption(t) ==
    /\ wasEnabled' = [wasEnabled EXCEPT ![t] = interruptionEnabled[t]]
    /\ interruptionEnabled' = [interruptionEnabled EXCEPT ![t] = FALSE]

RestoreInterruption(t) ==
    /\ interruptionEnabled' = [interruptionEnabled EXCEPT ![t] = wasEnabled[t]]
    /\ UNCHANGED wasEnabled
-----------------------------------------------------------------------------
\* Start() and Thread::Create().  A DisableInterruptionGuard covers the wait
\* for the child to take its reference to the ThreadData.
Start ==
    /\ pc[parent] = "idle" /\ object = "alive"
    /\ pData /\ ~started
    /\ op' = "Start"
    /\ nativeHandle' = TRUE
    /\ pTmpData' = TRUE
    /\ DisableInterruption(parent)
    /\ pc' = [pc EXCEPT ![parent] = "lock", ![child] = "created"]
    /\ condVar' = [condVar EXCEPT ![parent] = startedCondVar]
    /\ InterruptionUnchanged
    /\ UNCHANGED <<mtxOwner, status, object, pData, childData, started,
                   joinedOrDetached, outcome, stored, joined, detached,
                   requests, terminated>>

\* The mutex of StartInfo or JoinedOrDetachedInfo, in WaitToStart, WaitToJoin
\* and WaitToJoinFor.
Lock ==
    /\ pc[parent] = "lock"
    /\ LockMutex(parent, condVar[parent])
    /\ GoTo(parent, "test")
    /\ InterruptionUnchanged /\ EnabledUnchanged
    /\ UNCHANGED <<condVar, status, op, object, dataVars, outcome, joined,
                   detached, requests, terminated>>

\* Mutant: if (!started_) for while (!started_).
TestStarted_Once ==
    /\ pc[parent] \in {"test", "waited"} /\ op = "Start"
    /\ IF started \/ pc[parent] = "waited"
       THEN /\ GoTo(parent, "idle")
            /\ op' = "none"
            /\ UnlockMutex(startedCondVar)
            /\ RestoreInterruption(parent)
            /\ pData' = ~detached
            /\ pTmpData' = FALSE
       ELSE /\ GoTo(parent, "wait")
            /\ EnabledUnchanged
            /\ UNCHANGED <<op, mtxOwner, pData, pTmpData>>
    /\ InterruptionUnchanged
    /\ UNCHANGED <<condVar, status, object, nativeHandle, childData, started,
                   joinedOrDetached, outcome, stored, joined, detached,
                   requests, terminated>>

\* while (!started_) in WaitToStart; past it Start() unlocks, restores the
\* interruption and drops the data of a thread that is created detached.
TestStarted ==
    /\ pc[parent] \in {"test", "waited"} /\ op = "Start"
    /\ IF started
       THEN /\ GoTo(parent, "idle")
            /\ op' = "none"
            /\ UnlockMutex(startedCondVar)
            /\ RestoreInterruption(parent)
            /\ pData' = ~detached
            /\ pTmpData' = FALSE
       ELSE /\ GoTo(parent, "wait")
            /\ EnabledUnchanged
            /\ UNCHANGED <<op, mtxOwner, pData, pTmpData>>
    /\ InterruptionUnchanged
    /\ UNCHANGED <<condVar, status, object, nativeHandle, childData, started,
                   joinedOrDetached, outcome, stored, joined, detached,
                   requests, terminated>>

\* Join(), TryJoinFor() and TryJoinUntil(): the first interruption point.  The
\* destructor gets here with interruption disabled.
BeginJoin(o, from) ==
    /\ pc[parent] = from
    /\ IsJoinable
    /\ op' = o
    /\ InterruptionPoint(parent, "lock", "idle")
    /\ pTmpData' = ~IsInterrupted(parent)
    /\ condVar' = [condVar EXCEPT ![parent] = joinedOrDetachedCondVar]
    /\ UNCHANGED <<mtxOwner, status, interruptionEnabled,
                   pWaitingConditionVariable, interruptionRequestedMtx, object,
                   pData, nativeHandle, childData, started, joinedOrDetached,
                   outcome, stored, joined, detached, wasEnabled, requests,
                   terminated>>

Join ==
    /\ object = "alive"
    /\ \E o \in {"Join", "TryJoinFor"} : BeginJoin(o, "idle")

\* pData_.reset() and the return code or the exception of the child.
Joined ==
    /\ pData' = FALSE
    /\ joined' = stored

\* while (!joinedOrDetached_) in WaitToJoin and WaitToJoinFor, where a timeout
\* ends the loop and leaves the thread joinable.
TestJoined ==
    /\ pc[parent] \in {"test", "waited"} /\ op \in {"Join", "TryJoinFor"}
    /\ LET timedOut == /\ op = "TryJoinFor" /\ pc[parent] = "waited"
                       /\ status[parent] = "timeout"
       IN  IF joinedOrDetached
           THEN /\ Joined
                /\ pTmpData' = FALSE
                /\ UnlockMutex(joinedOrDetachedCondVar)
                /\ GoTo(parent, IF object = "destroying" THEN "destroyed" ELSE "idle")
           ELSE /\ UNCHANGED <<pData, joined>>
                /\ pTmpData' = ~timedOut
                /\ IF timedOut THEN UnlockMutex(joinedOrDetachedCondVar)
                               ELSE UNCHANGED mtxOwner
                /\ GoTo(parent, IF timedOut THEN "idle" ELSE "wait")
    /\ InterruptionUnchanged /\ EnabledUnchanged
    /\ UNCHANGED <<condVar, status, op, object, nativeHandle, childData,
                   started, joinedOrDetached, outcome, stored, detached,
                   requests, terminated>>

\* The parent is interrupted in the wait: the child is not joined.  In the
\* destructor the exception is swallowed and the object goes away.
JoinThrows ==
    /\ pc[parent] = "threw"
    /\ UnlockMutex(condVar[parent])
    /\ pTmpData' = FALSE
    /\ GoTo(parent, IF object = "destroying" THEN "destroyed" ELSE "idle")
    /\ InterruptionUnchanged /\ EnabledUnchanged
    /\ UNCHANGED <<condVar, status, op, object, pData, nativeHandle, childData,
                   started, joinedOrDetached, outcome, stored, joined,
                   detached, requests, terminated>>

\* TryJoin(), and TryJoinFor(relTime <= 0): no wait.  When the child has not
\* finished it returns false and changes nothing.
TryJoin ==
    /\ pc[parent] = "idle" /\ object = "alive"
    /\ IsJoinable
    /\ mtxOwner[joinedOrDetachedCondVar] = NoThread
    /\ joinedOrDetached
    /\ Joined
    /\ UNCHANGED <<cvVars, op, object, nativeHandle, pTmpData, childData,
                   started, joinedOrDetached, outcome, stored, detached,
                   wasEnabled, requests, terminated>>

Detach ==
    /\ pc[parent] = "idle" /\ object = "alive"
    /\ IsJoinable
    /\ mtxOwner[joinedOrDetachedCondVar] = NoThread
    /\ joinedOrDetached' = TRUE
    /\ pData' = FALSE
    /\ detached' = TRUE
    /\ UNCHANGED <<cvVars, op, object, nativeHandle, pTmpData, childData,
                   started, outcome, stored, joined, wasEnabled, requests,
                   terminated>>
-----------------------------------------------------------------------------
\* RequestInterruption() of the child by the parent, in two steps when the
\* child is in a wait.
RequestChild(notifying, returns) ==
    /\ IsJoinable
    /\ RequestInterruption(parent, child, notifying, returns)

Interrupt ==
    /\ pc[parent] = "idle" /\ object = "alive"
    /\ requests[child] < MaxRequests
    /\ requests' = [requests EXCEPT ![child] = @ + 1]
    /\ RequestChild("notifying", "idle")
    /\ EnabledUnchanged
    /\ UNCHANGED <<condVar, mtxOwner, status, pWaitingConditionVariable, op,
                   object, dataVars, outcome, joined, detached, terminated>>

Notifying(r, t) ==
    /\ pc[r] \in {"notifying", "destructorNotifying"}
    /\ interruptionRequestedMtx[t] = r
    /\ NotifyWaiting(r, t, IF pc[r] = "notifying" THEN "idle" ELSE "destructorGuard")
    /\ UNCHANGED <<condVar, mtxOwner, status, interruptionEnabled,
                   interruptionRequested, pWaitingConditionVariable, lifeVars>>

\* Mutant: the destructor joins without a request.
Destroy_Silent ==
    /\ pc[parent] = "idle" /\ object = "alive"
    /\ object' = "destroying"
    /\ IF IsJoinable
       THEN /\ GoTo(parent, "destructorGuard")
            /\ UNCHANGED <<interruptionRequested, interruptionRequestedMtx>>
       ELSE /\ GoTo(parent, "destroyed")
            /\ UNCHANGED <<interruptionRequested, interruptionRequestedMtx>>
    /\ EnabledUnchanged
    /\ UNCHANGED <<condVar, mtxOwner, status, pWaitingConditionVariable, op,
                   dataVars, outcome, joined, detached, requests, terminated>>

\* ~Thread(): RequestInterruption() of a joinable thread ...
Destroy ==
    /\ pc[parent] = "idle" /\ object = "alive"
    /\ object' = "destroying"
    /\ IF IsJoinable
       THEN RequestChild("destructorNotifying", "destructorGuard")
       ELSE /\ GoTo(parent, "destroyed")
            /\ UNCHANGED <<interruptionRequested, interruptionRequestedMtx>>
    /\ EnabledUnchanged
    /\ UNCHANGED <<condVar, mtxOwner, status, pWaitingConditionVariable, op,
                   dataVars, outcome, joined, detached, requests, terminated>>

\* Mutant: the destructor joins as an interruption point.
DestroyGuard_None ==
    /\ pc[parent] = "destructorGuard"
    /\ EnabledUnchanged
    /\ GoTo(parent, "destructorJoin")
    /\ InterruptionUnchanged
    /\ UNCHANGED <<condVar, mtxOwner, status, op, object, dataVars, outcome,
                   joined, detached, requests, terminated>>

\* ... a DisableInterruptionGuard ...
DestroyGuard ==
    /\ pc[parent] = "destructorGuard"
    /\ DisableInterruption(parent)
    /\ GoTo(parent, "destructorJoin")
    /\ InterruptionUnchanged
    /\ UNCHANGED <<condVar, mtxOwner, status, op, object, dataVars, outcome,
                   joined, detached, requests, terminated>>

\* ... and Join(), whose exceptions are swallowed.
DestroyJoin == BeginJoin("Join", "destructorJoin")

\* The guard and the members of the object are destroyed.
Destroyed ==
    /\ pc[parent] = "destroyed"
    /\ object' = "destroyed"
    /\ pData' = FALSE
    /\ GoTo(parent, "gone")
    /\ InterruptionUnchanged /\ EnabledUnchanged
    /\ UNCHANGED <<condVar, mtxOwner, status, op, nativeHandle, pTmpData,
                   childData, started, joinedOrDetached, outcome, stored,
                   joined, detached, requests, terminated>>

\* The thread that owns the parent's Thread object interrupts the parent.
InterruptParent ==
    /\ pc[other] = "idle"
    /\ parent \notin Adopted
    /\ requests[parent] < MaxRequests
    /\ requests' = [requests EXCEPT ![parent] = @ + 1]
    /\ RequestInterruption(other, parent, "notifying", "idle")
    /\ EnabledUnchanged
    /\ UNCHANGED <<condVar, mtxOwner, status, pWaitingConditionVariable, op,
                   object, dataVars, outcome, joined, detached, terminated>>
-----------------------------------------------------------------------------
\* Run(), in the child: shared_from_this() of the pointer it was given.
TakeData ==
    /\ pc[child] = "created"
    /\ childData' = TRUE
    /\ GoTo(child, "start")
    /\ InterruptionUnchanged /\ EnabledUnchanged
    /\ UNCHANGED <<condVar, mtxOwner, status, op, object, pData, nativeHandle,
                   pTmpData, started, joinedOrDetached, outcome, stored,
                   joined, detached, requests, terminated>>

\* SetStartAndNotifyOne() and pThreadLocalData.
SetStart ==
    /\ pc[child] = "start"
    /\ mtxOwner[startedCondVar] = NoThread
    /\ started' = TRUE
    /\ \E S \in NotifyOne(startedCondVar) : pc' = [Woken(S) EXCEPT ![child] = "main"]
    /\ InterruptionUnchanged /\ EnabledUnchanged
    /\ UNCHANGED <<condVar, mtxOwner, status, op, object, pData, nativeHandle,
                   pTmpData, childData, joinedOrDetached, outcome, stored,
                   joined, detached, requests, terminated>>

\* The main function: it disables and restores interruption around parts of
\* its work, waits on a condition variable of its own that nobody notifies,
\* calls InterruptionPoint(), and ends one way or another.
MainStep ==
    /\ pc[child] = "main"
    /\ \/ /\ GoTo(child, "main")
          /\ IF interruptionEnabled[child]
             THEN DisableInterruption(child) ELSE RestoreInterruption(child)
          /\ UNCHANGED <<condVar, mtxOwner, interruptionRequested, outcome>>
       \/ /\ interruptionEnabled[child]
          /\ LockMutex(child, workCondVar)
          /\ condVar' = [condVar EXCEPT ![child] = workCondVar]
          /\ GoTo(child, "wait")
          /\ EnabledUnchanged
          /\ UNCHANGED <<interruptionRequested, outcome>>
       \/ /\ InterruptionPoint(child, "main", "unwinding")
          /\ EnabledUnchanged
          /\ UNCHANGED <<condVar, mtxOwner, outcome>>
    /\ UNCHANGED <<status, pWaitingConditionVariable, interruptionRequestedMtx,
                   op, object, dataVars, joined, detached, requests, terminated>>

MainEnds ==
    /\ pc[child] = "main"
    /\ interruptionEnabled[child]
    /\ outcome' \in {"returned", "exception"}
    /\ GoTo(child, "store")
    /\ InterruptionUnchanged /\ EnabledUnchanged
    /\ UNCHANGED <<condVar, mtxOwner, status, op, object, dataVars, joined,
                   detached, requests, terminated>>

\* The wait of the main function ends; ThreadInterruptedException leaves it.
MainWaited ==
    /\ pc[child] \in {"waited", "threw"}
    /\ UnlockMutex(workCondVar)
    /\ GoTo(child, IF pc[child] = "waited" THEN "main" ELSE "unwinding")
    /\ InterruptionUnchanged /\ EnabledUnchanged
    /\ UNCHANGED <<condVar, status, op, object, dataVars, outcome, joined,
                   detached, requests, terminated>>

MainInterrupted ==
    /\ pc[child] = "unwinding"
    /\ outcome' = "interrupted"
    /\ GoTo(child, "store")
    /\ InterruptionUnchanged /\ EnabledUnchanged
    /\ UNCHANGED <<condVar, mtxOwner, status, op, object, dataVars, joined,
                   detached, requests, terminated>>

\* SetRetCode() or SetExceptionPtr().
Store ==
    /\ pc[child] = "store"
    /\ stored' = outcome
    /\ GoTo(child, "finish")
    /\ InterruptionUnchanged /\ EnabledUnchanged
    /\ UNCHANGED <<condVar, mtxOwner, status, op, object, pData, nativeHandle,
                   pTmpData, childData, started, joinedOrDetached, outcome,
                   joined, detached, requests, terminated>>

\* Mutant: ThreadInterruptedException is not told from other exceptions.
Finish_AnyException ==
    /\ pc[child] = "finish"
    /\ mtxOwner[joinedOrDetachedCondVar] = NoThread
    /\ IF joinedOrDetached
       THEN /\ GoTo(child, "exit")
            /\ terminated' = (stored # "returned")
            /\ UNCHANGED joinedOrDetached
       ELSE /\ joinedOrDetached' = TRUE
            /\ \E S \in NotifyOne(joinedOrDetachedCondVar) :
                    pc' = [Woken(S) EXCEPT ![child] = "exit"]
            /\ UNCHANGED terminated
    /\ InterruptionUnchanged /\ EnabledUnchanged
    /\ UNCHANGED <<condVar, mtxOwner, status, op, object, pData, nativeHandle,
                   pTmpData, childData, started, outcome, stored, joined,
                   detached, requests>>

\* IfIsNotJoinedOrDetachedThenSetJoinAndNotifyOne(); an exception of a thread
\* that was detached before terminates the process.
Finish ==
    /\ pc[child] = "finish"
    /\ mtxOwner[joinedOrDetachedCondVar] = NoThread
    /\ IF joinedOrDetached
       THEN /\ GoTo(child, "exit")
            /\ terminated' = (stored = "exception")
            /\ UNCHANGED joinedOrDetached
       ELSE /\ joinedOrDetached' = TRUE
            /\ \E S \in NotifyOne(joinedOrDetachedCondVar) :
                    pc' = [Woken(S) EXCEPT ![child] = "exit"]
            /\ UNCHANGED terminated
    /\ InterruptionUnchanged /\ EnabledUnchanged
    /\ UNCHANGED <<condVar, mtxOwner, status, op, object, pData, nativeHandle,
                   pTmpData, childData, started, outcome, stored, joined,
                   detached, requests>>

\* The DataPtr of Run() is destroyed and the native thread ends.
Exit ==
    /\ pc[child] = "exit"
    /\ childData' = FALSE
    /\ GoTo(child, "ended")
    /\ InterruptionUnchanged /\ EnabledUnchanged
    /\ UNCHANGED <<condVar, mtxOwner, status, op, object, pData, nativeHandle,
                   pTmpData, started, joinedOrDetached, outcome, stored,
                   joined, detached, requests, terminated>>
-----------------------------------------------------------------------------
\* What a thread does without a choice of its caller.
ParentStep ==
    \/ WaitStep(parent) /\ UNCHANGED lifeVars
    \/ Lock \/ TestStarted \/ TestJoined \/ JoinThrows
    \/ Notifying(parent, child) \/ DestroyGuard \/ DestroyJoin \/ Destroyed

ChildStep ==
    \/ WaitStep(child) /\ UNCHANGED lifeVars
    \/ TakeData \/ SetStart \/ MainWaited \/ MainInterrupted \/ Store
    \/ Finish \/ Exit

ParentCall == Start \/ Join \/ TryJoin \/ Detach \/ Interrupt \/ Destroy

\* Everything is over: the object destroyed and its thread, if any, ended.
Over ==
    /\ pc[parent] = "gone"
    /\ pc[child] \in {"none", "ended"}
    /\ pc[other] = "idle"
    /\ UNCHANGED vars

Next ==
    \/ /\ ~terminated
       /\ \/ ParentCall \/ ParentStep
          \/ ChildStep \/ MainStep \/ MainEnds
          \/ InterruptParent \/ Notifying(other, parent)
    \/ terminated /\ UNCHANGED vars
    \/ Over

Spec == Init /\ [][Next]_vars

\* Threads are scheduled and mutexes that become free again and again are
\* obtained; the main function goes on until it is interrupted or ends, and an
\* interruption point of it comes up again and again.
Fairness ==
    /\ SF_vars(~terminated /\ ParentStep)
    /\ SF_vars(~terminated /\ ChildStep)
    /\ WF_vars(~terminated /\ Notifying(other, parent))
    /\ SF_vars(~terminated /\ MainStep /\ pc'[child] # "main")
    /\ WF_vars(~terminated /\ MainStep)

FairSpec == Spec /\ Fairness
-----------------------------------------------------------------------------
TypeOK ==
    /\ CvTypeOK
    /\ pc \in [Threads -> WaitLocations \cup {"idle", "none", "lock", "test",
                "waited", "threw", "notifying", "destructorNotifying",
                "destructorGuard", "destructorJoin", "destroyed", "gone",
                "created", "start", "main", "unwinding", "store", "finish",
                "exit", "ended"}]
    /\ op \in {"none", "Start", "Join", "TryJoinFor"}
    /\ object \in {"alive", "destroying", "destroyed"}
    /\ {pData, nativeHandle, pTmpData, childData, started, joinedOrDetached,
        detached, terminated} \subseteq BOOLEAN
    /\ {outcome, joined} \subseteq Outcomes \cup {"none"}
    /\ stored \in IF pc[child] \in {"finish", "exit", "ended"}
                  THEN Outcomes ELSE {"none"}
    /\ wasEnabled \in [Threads -> BOOLEAN]
    /\ requests \in [Threads -> 0..MaxRequests]

\* Types apart: the ThreadData outlives every use of it: the child, which is given a raw
\* pointer, takes its reference before the parent can drop its own, in Start()
\* of a thread created detached, in Detach() or in the destructor.
DataOutlivesUse ==
    /\ TypeOK
    /\ pc[child] \notin {"none", "ended"} => DataAlive
    /\ pc[parent] \in WaitLocations \cup {"lock", "test", "waited", "threw"} =>
            pTmpData

\* An object that let go of a thread it had not detached has joined it: the
\* main function ended before, and the parent has its result.  The destructor
\* of an interrupted parent is no exception.
ReleasedOnlyCompleted ==
    pc[child] # "none" /\ ~pData /\ ~detached =>
        outcome \in Outcomes /\ joined = outcome

\* Run() tells an exception that somebody can still join for from one that
\* nobody can: it ends the process exactly when the thread was created detached
\* or Detach() came first.  A detached thread that was interrupted just ends.
TerminatesForDetachedException == [][
    pc[child] = "finish" /\ pc'[child] # "finish" =>
        terminated' = (detached /\ outcome = "exception")]_vars

\* The destructor ends: the interruption it requests reaches the main function
\* whatever wait it is in, with or without its notification.
DestructorEnds == object = "destroying" ~> (object = "destroyed" \/ terminated)

\* A requested interruption ends the main function, also when it was requested
\* while interruption was disabled or just before a wait began to sleep.
InterruptionEndsMain ==
    interruptionRequested[child] /\ outcome = "none" /\ pc[child] # "none" ~>
        outcome # "none"
=============================================================================
