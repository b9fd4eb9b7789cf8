------------------------------ MODULE Semaphore ------------------------------
(***************************************************************************)
(* The interruptible Semaphore of semaphore.cpp, built on a mutex and a    *)
(* ConditionVariable.  Threads wait for permits and give them back; a      *)
(* thread of Requesters interrupts the others at any moment.               *)
(***************************************************************************)
EXTENDS ConditionVariable

CONSTANTS
    Permits,        \* the initial count
    Waiters,        \* threads that use the semaphore
    Requesters,     \* threads that only request interruptions
    MaxRequests     \* bound: interruptions each of them requests

ASSUME PermitsAssumption == Permits \in Nat /\ MaxRequests \in Nat
ASSUME ActorsAssumption ==
    Waiters \subseteq Threads /\ Requesters \subseteq Adopted /\ IsFiniteSet(Waiters)
ASSUME OneCondVarAssumption == \E c \in CondVars : CondVars = {c}

VARIABLES
    cnt,            \* Semaphore::cnt_
    op,             \* op[t]: the operation t is in
    holds,          \* holds[t]: t owns a permit, a wait of t returned true
    requests        \* requests[r]: interruptions requested so far

semVars == <<cnt, op, holds, requests>>
vars == <<cvVars, semVars>>

conditionVariable == CHOOSE c \in CondVars : TRUE
-----------------------------------------------------------------------------
Init ==
    /\ CvInit
    /\ pc = [t \in Threads |-> "idle"]
    /\ cnt = Permits
    /\ op = [t \in Threads |-> "none"]
    /\ holds = [t \in Threads |-> FALSE]
    /\ requests = [r \in Requesters |-> 0]

InterruptionUnchanged == UNCHANGED <<interruptionEnabled,
    interruptionRequested, pWaitingConditionVariable, interruptionRequestedMtx>>

\* Wait() or WaitFor(relTime > 0): the first interruption point, without the
\* mutex.  A thread waits for one permit at a time.
CallWait(t) ==
    /\ pc[t] = "idle"
    /\ ~holds[t]
    /\ \E o \in {"Wait", "WaitFor"} : op' = [op EXCEPT ![t] = o]
    /\ condVar' = [condVar EXCEPT ![t] = conditionVariable]
    /\ InterruptionPoint(t, "lock", "idle")
    /\ UNCHANGED <<mtxOwner, status, interruptionEnabled,
                   pWaitingConditionVariable, interruptionRequestedMtx,
                   cnt, holds, requests>>

\* UniqueLock<Mutex> uniqueLock(mutex_).
Lock(t) ==
    /\ pc[t] = "lock"
    /\ LockMutex(t, conditionVariable)
    /\ GoTo(t, "locked")
    /\ InterruptionUnchanged
    /\ UNCHANGED <<condVar, status, semVars>>

\* The second interruption point, with the mutex locked.
Locked(t) ==
    /\ pc[t] = "locked"
    /\ InterruptionPoint(t, "test", "threw")
    /\ UNCHANGED <<condVar, mtxOwner, status, interruptionEnabled,
                   pWaitingConditionVariable, interruptionRequestedMtx, semVars>>

\* while (cnt_ == 0) and, past the loop, --cnt_.  A WaitFor whose wait timed
\* out gives up when there still is no permit.
Test(t) ==
    /\ pc[t] \in {"test", "waited"}
    /\ IF cnt = 0
       THEN /\ GoTo(t, IF /\ pc[t] = "waited" /\ op[t] = "WaitFor"
                          /\ status[t] = "timeout"
                       THEN "return" ELSE "wait")
            /\ UNCHANGED cnt
       ELSE cnt' = cnt - 1 /\ GoTo(t, "taken")
    /\ InterruptionUnchanged
    /\ UNCHANGED <<condVar, mtxOwner, status, op, holds, requests>>

\* The interruption point after --cnt_.
Taken(t) ==
    /\ pc[t] = "taken"
    /\ InterruptionPoint(t, "success", "threw")
    /\ UNCHANGED <<condVar, mtxOwner, status, interruptionEnabled,
                   pWaitingConditionVariable, interruptionRequestedMtx, semVars>>

\* Mutant: WaitFor returns what its last wait did.
Return_Status(t) ==
    /\ pc[t] \in {"success", "return", "threw"}
    /\ UnlockMutex(conditionVariable)
    /\ holds' = [holds EXCEPT ![t] = 
        pc[t] = "success" /\ ~(op[t] = "WaitFor" /\ status[t] = "timeout")]
    /\ GoTo(t, "idle")
    /\ InterruptionUnchanged
    /\ UNCHANGED <<condVar, status, cnt, op, requests>>

\* ~UniqueLock, on every way out.
Return(t) ==
    /\ pc[t] \in {"success", "return", "threw"}
    /\ UnlockMutex(conditionVariable)
    /\ holds' = [holds EXCEPT ![t] = pc[t] = "success"]
    /\ GoTo(t, "idle")
    /\ InterruptionUnchanged
    /\ UNCHANGED <<condVar, status, cnt, op, requests>>

\* TryWait(): everything under the mutex, no interruption point.  When there is
\* no permit it returns false and changes nothing.  WaitFor(relTime <= 0) is the
\* first interruption point of CallWait and then this.
TryWait(t) ==
    /\ pc[t] = "idle"
    /\ ~holds[t]
    /\ mtxOwner[conditionVariable] = NoThread
    /\ cnt > 0
    /\ cnt' = cnt - 1
    /\ holds' = [holds EXCEPT ![t] = TRUE]
    /\ UNCHANGED <<cvVars, op, requests>>

\* Notify(), by a thread that gives its permit back.
Notify(t) ==
    /\ pc[t] = "idle"
    /\ holds[t]
    /\ mtxOwner[conditionVariable] = NoThread
    /\ cnt' = cnt + 1
    /\ \E S \in NotifyOne(conditionVariable) : pc' = Woken(S)
    /\ holds' = [holds EXCEPT ![t] = FALSE]
    /\ InterruptionUnchanged
    /\ UNCHANGED <<condVar, mtxOwner, status, op, requests>>

\* A requester interrupts a waiter: Thread::RequestInterruption() of the Thread
\* object of t, which an adopted thread does not have.
Request(r, t) ==
    /\ pc[r] = "idle"
    /\ requests[r] < MaxRequests
    /\ requests' = [requests EXCEPT ![r] = @ + 1]
    /\ RequestInterruption(r, t, "notifying", "idle")
    /\ UNCHANGED <<condVar, mtxOwner, status, interruptionEnabled,
                   pWaitingConditionVariable, cnt, op, holds>>

Notifying(r, t) ==
    /\ pc[r] = "notifying"
    /\ interruptionRequestedMtx[t] = r
    /\ NotifyWaiting(r, t, "idle")
    /\ UNCHANGED <<condVar, mtxOwner, status, interruptionEnabled,
                   interruptionRequested, pWaitingConditionVariable, semVars>>

\* What a thread does inside an operation.
Inside(t) ==
    \/ WaitStep(t) /\ UNCHANGED semVars
    \/ Lock(t) \/ Locked(t) \/ Test(t) \/ Taken(t) \/ Return(t)

Next ==
    \/ \E t \in Waiters : CallWait(t) \/ TryWait(t) \/ Notify(t) \/ Inside(t)
    \/ \E r \in Requesters, t \in Waiters \ Adopted : Request(r, t) \/ Notifying(r, t)

Spec == Init /\ [][Next]_vars

\* Every thread inside an operation is scheduled, a mutex that becomes free
\* again and again is given to whoever blocks on it, and a permit is returned.
Fairness ==
    /\ \A t \in Waiters : SF_vars(Inside(t)) /\ WF_vars(Notify(t))
    /\ \A r \in Requesters, t \in Waiters \ Adopted : WF_vars(Notifying(r, t))

FairSpec == Spec /\ Fairness
-----------------------------------------------------------------------------
TypeOK ==
    /\ CvTypeOK
    /\ pc \in [Threads -> WaitLocations \cup {"idle", "lock", "locked", "test",
                "taken", "waited", "threw", "success", "return", "notifying"}]
    /\ cnt \in Nat
    /\ op \in [Threads -> {"none", "Wait", "WaitFor"}]
    /\ holds \in [Threads -> BOOLEAN]
    /\ requests \in [Requesters -> 0..MaxRequests]

Owners == {t \in Waiters : holds[t] \/ pc[t] \in {"taken", "success"}}

\* Types apart: no more threads than permits ever own one, whatever wakeup finds its permit
\* stolen, and while nobody has been interrupted no permit is lost either: also
\* not by a wait that timed out and then found one.
PermitsAccounted ==
    /\ TypeOK
    /\ LET accounted == cnt + Cardinality(Owners)
       IN  IF \A r \in Requesters : requests[r] = 0
           THEN accounted = Permits ELSE accounted <= Permits

\* Every permit is free or owned by a thread whose wait returned.
PermitsConserved == cnt + Cardinality(Owners) = Permits

Waiting == {t \in Waiters : pc[t] \in WaitLocations /\ op[t] = "Wait"}

\* Free permits and waiting threads do not coexist for ever: a notification
\* that reached a thread which is interrupted as it wakes is not needed by the
\* others, whose wait ends every CPPDEVTK_CHECK_INTERRUPT_REL_TIME.
NoIdlePermit == (cnt > 0 /\ Waiting # {}) ~> (cnt = 0 \/ Waiting = {})

\* A request made of a thread inside an operation ends the operation, with the
\* exception or with a permit, whether or not its notification reaches the wait.
InterruptionEndsWait == \A t \in Waiters :
    (interruptionRequested[t] /\ pc[t] # "idle") ~> pc[t] = "idle"
=============================================================================
