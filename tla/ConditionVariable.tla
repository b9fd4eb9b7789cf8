-------------------------- MODULE ConditionVariable --------------------------
(***************************************************************************)
(* ConditionVariable::Wait and WaitFor (condition_variable.cpp) with       *)
(* thread interruption (ThreadData::InterruptionInfo of thread_data.hpp).  *)
(*                                                                         *)
(* A library of actions: the modules that use a condition variable extend  *)
(* this one, set pc[t] to "wait" to call Wait and go on from "waited" (it  *)
(* returned) or "threw" (ThreadInterruptedException left it).  Both leave  *)
(* the mutex locked, as the caller's UniqueLock still owns it.             *)
(***************************************************************************)
EXTENDS Integers, FiniteSets

CONSTANTS
    Threads,
    Adopted,        \* threads not created by Thread: interruption is off
    CondVars,       \* condition variables, each with the mutex it is used with
    NoThread, NoCondVar

ASSUME AdoptedAssumption == Adopted \subseteq Threads
ASSUME NobodyAssumption == NoThread \notin Threads /\ NoCondVar \notin CondVars

VARIABLES
    pc,                         \* pc[t]: where thread t is
    condVar,                    \* condVar[t]: the condition variable t waits on
    mtxOwner,                   \* mtxOwner[c]: who owns the mutex of c
    status,                     \* status[t]: what DoWaitFor returned
    interruptionEnabled,        \* the fields of the InterruptionInfo of t
    interruptionRequested,
    pWaitingConditionVariable,
    interruptionRequestedMtx    \* its owner

cvVars == <<pc, condVar, mtxOwner, status, interruptionEnabled,
            interruptionRequested, pWaitingConditionVariable,
            interruptionRequestedMtx>>

\* The locations inside Wait and WaitFor.
WaitLocations == {"wait", "register", "registered", "block", "asleep",
                  "relock", "woken", "unregister", "unregisterThrow"}
-----------------------------------------------------------------------------
CvInit ==
    /\ condVar = [t \in Threads |-> NoCondVar]
    /\ mtxOwner = [c \in CondVars |-> NoThread]
    /\ status = [t \in Threads |-> "no_timeout"]
    /\ interruptionEnabled = [t \in Threads |-> t \notin Adopted]
    /\ interruptionRequested = [t \in Threads |-> FALSE]
    /\ pWaitingConditionVariable = [t \in Threads |-> NoCondVar]
    /\ interruptionRequestedMtx = [t \in Threads |-> NoThread]

GoTo(t, location) == pc' = [pc EXCEPT ![t] = location]

Sleepers(c) == {t \in Threads : pc[t] = "asleep" /\ condVar[t] = c}

\* The sets of sleepers a call of NotifyOne can wake.
NotifyOne(c) ==
    IF Sleepers(c) = {} THEN {{}} ELSE {{t} : t \in Sleepers(c)}

\* pc after the threads of S were woken.
Woken(S) == [t \in Threads |-> IF t \in S THEN "relock" ELSE pc[t]]

LockMutex(t, c) ==
    /\ mtxOwner[c] = NoThread
    /\ mtxOwner' = [mtxOwner EXCEPT ![c] = t]

UnlockMutex(c) == mtxOwner' = [mtxOwner EXCEPT ![c] = NoThread]

\* this_thread::InterruptionPoint(): a request is cleared and thrown, under
\* the mutex of the thread's InterruptionInfo.
IsInterrupted(t) == interruptionEnabled[t] /\ interruptionRequested[t]

InterruptionPoint(t, returns, throws) ==
    /\ interruptionEnabled[t] => interruptionRequestedMtx[t] = NoThread
    /\ GoTo(t, IF IsInterrupted(t) THEN throws ELSE returns)
    /\ interruptionRequested' = [interruptionRequested EXCEPT
                                    ![t] = @ /\ ~interruptionEnabled[t]]

\* Thread::RequestInterruption() of t by r: the flag is set and, when t is in
\* a wait, the mutex of its InterruptionInfo stays locked over NotifyAll().
\* interruptionEnabled_ is read without synchronization with t, but it decides
\* nothing unless t is in a wait, where t does not write it: EnabledReadStable.
RequestInterruption(r, t, notifying, returns) ==
    LET notifies == /\ interruptionEnabled[t]
                    /\ pWaitingConditionVariable[t] # NoCondVar
    IN  /\ interruptionRequestedMtx[t] = NoThread
        /\ interruptionRequested' = [interruptionRequested EXCEPT ![t] = TRUE]
        /\ GoTo(r, IF notifies THEN notifying ELSE returns)
        /\ interruptionRequestedMtx' =
                [interruptionRequestedMtx EXCEPT ![t] = IF notifies THEN r ELSE @]

\* ... and pWaitingConditionVariable_->NotifyAll().
NotifyWaiting(r, t, returns) ==
    /\ pc' = [Woken(Sleepers(pWaitingConditionVariable[t])) EXCEPT ![r] = returns]
    /\ interruptionRequestedMtx' =
            [interruptionRequestedMtx EXCEPT ![t] = NoThread]

\* SetWaitingConditionVariable() of the thread that waits.
SetWaitingConditionVariable(t, c) ==
    IF t \in Adopted
    THEN UNCHANGED pWaitingConditionVariable
    ELSE /\ interruptionRequestedMtx[t] = NoThread
         /\ pWaitingConditionVariable' =
                [pWaitingConditionVariable EXCEPT ![t] = c]
-----------------------------------------------------------------------------
\* Wait(uniqueLock) and WaitFor(uniqueLock, relTime), relTime > 0, in order.

WaitEnter(t) ==
    /\ pc[t] = "wait"
    /\ InterruptionPoint(t, "register", "threw")
    /\ UNCHANGED <<condVar, mtxOwner, status, interruptionEnabled,
                   pWaitingConditionVariable, interruptionRequestedMtx>>

WaitRegister(t) ==
    /\ pc[t] = "register"
    /\ SetWaitingConditionVariable(t, condVar[t])
    /\ GoTo(t, "registered")
    /\ UNCHANGED <<condVar, mtxOwner, status, interruptionEnabled,
                   interruptionRequested, interruptionRequestedMtx>>

WaitRegistered(t) ==
    /\ pc[t] = "registered"
    /\ InterruptionPoint(t, "block", "unregisterThrow")
    /\ UNCHANGED <<condVar, mtxOwner, status, interruptionEnabled,
                   pWaitingConditionVariable, interruptionRequestedMtx>>

\* pthread_cond_timedwait: unlocks the mutex and sleeps in one step ...
WaitBlock(t) ==
    /\ pc[t] = "block"
    /\ GoTo(t, "asleep")
    /\ UnlockMutex(condVar[t])
    /\ status' = [status EXCEPT ![t] = "no_timeout"]
    /\ UNCHANGED <<condVar, interruptionEnabled, interruptionRequested,
                   pWaitingConditionVariable, interruptionRequestedMtx>>

\* Mutant: a wait that times out sleeps on; only a notification ends it.
WaitWakes_Retries(t) ==
    /\ pc[t] = "asleep"
    /\ \E s \in {"timeout", "no_timeout"} : status' = [status EXCEPT ![t] = s]
    /\ UNCHANGED <<pc, condVar, mtxOwner, interruptionEnabled,
                   interruptionRequested, pWaitingConditionVariable,
                   interruptionRequestedMtx>>

\* ... until CPPDEVTK_CHECK_INTERRUPT_REL_TIME elapses, whatever relTime is,
\* or a notification or a spurious wakeup ends it (the status tells which) ...
WaitWakes(t) ==
    /\ pc[t] = "asleep"
    /\ GoTo(t, "relock")
    /\ \E s \in {"timeout", "no_timeout"} : status' = [status EXCEPT ![t] = s]
    /\ UNCHANGED <<condVar, mtxOwner, interruptionEnabled,
                   interruptionRequested, pWaitingConditionVariable,
                   interruptionRequestedMtx>>

\* Mutant: the mutex is not locked again.
WaitRelock_Unlocked(t) ==
    /\ pc[t] = "relock"
    /\ GoTo(t, "woken")
    /\ UNCHANGED <<condVar, mtxOwner, status, interruptionEnabled,
                   interruptionRequested, pWaitingConditionVariable,
                   interruptionRequestedMtx>>

\* ... and locks the mutex again.
WaitRelock(t) ==
    /\ pc[t] = "relock"
    /\ LockMutex(t, condVar[t])
    /\ GoTo(t, "woken")
    /\ UNCHANGED <<condVar, status, interruptionEnabled,
                   interruptionRequested, pWaitingConditionVariable,
                   interruptionRequestedMtx>>

WaitWoken(t) ==
    /\ pc[t] = "woken"
    /\ InterruptionPoint(t, "unregister", "unregisterThrow")
    /\ UNCHANGED <<condVar, mtxOwner, status, interruptionEnabled,
                   pWaitingConditionVariable, interruptionRequestedMtx>>

\* Mutant: the pointer is cleared only when the wait returns normally.
WaitLeave_NoGuard(t) ==
    /\ pc[t] \in {"unregister", "unregisterThrow"}
    /\ IF pc[t] = "unregister"
       THEN SetWaitingConditionVariable(t, NoCondVar)
       ELSE UNCHANGED pWaitingConditionVariable
    /\ GoTo(t, IF pc[t] = "unregister" THEN "waited" ELSE "threw")
    /\ UNCHANGED <<condVar, mtxOwner, status, interruptionEnabled,
                   interruptionRequested, interruptionRequestedMtx>>

\* Mutant: the pointer is never cleared.
WaitLeave_Registered(t) ==
    /\ pc[t] \in {"unregister", "unregisterThrow"}
    /\ GoTo(t, IF pc[t] = "unregister" THEN "waited" ELSE "threw")
    /\ UNCHANGED <<condVar, mtxOwner, status, interruptionEnabled,
                   interruptionRequested, pWaitingConditionVariable,
                   interruptionRequestedMtx>>

\* CPPDEVTK_ON_BLOCK_EXIT, on both ways out.
WaitLeave(t) ==
    /\ pc[t] \in {"unregister", "unregisterThrow"}
    /\ SetWaitingConditionVariable(t, NoCondVar)
    /\ GoTo(t, IF pc[t] = "unregister" THEN "waited" ELSE "threw")
    /\ UNCHANGED <<condVar, mtxOwner, status, interruptionEnabled,
                   interruptionRequested, interruptionRequestedMtx>>

WaitStep(t) ==
    \/ WaitEnter(t) \/ WaitRegister(t) \/ WaitRegistered(t) \/ WaitBlock(t)
    \/ WaitWakes(t) \/ WaitRelock(t) \/ WaitWoken(t) \/ WaitLeave(t)
-----------------------------------------------------------------------------
CvTypeOK ==
    /\ condVar \in [Threads -> CondVars \cup {NoCondVar}]
    /\ mtxOwner \in [CondVars -> Threads \cup {NoThread}]
    /\ status \in [Threads -> {"no_timeout", "timeout"}]
    /\ interruptionEnabled \in [Threads -> BOOLEAN]
    /\ interruptionRequested \in [Threads -> BOOLEAN]
    /\ pWaitingConditionVariable \in [Threads -> CondVars \cup {NoCondVar}]
    /\ interruptionRequestedMtx \in [Threads -> Threads \cup {NoThread}]

\* A wait owns the mutex everywhere but while it sleeps, on the way out by an
\* exception too: the caller's UniqueLock never unlocks a mutex of another.
WaitOwnsMutex == \A t \in Threads :
    /\ pc[t] \in (WaitLocations \ {"asleep", "relock"}) \cup {"waited", "threw"} =>
            mtxOwner[condVar[t]] = t
    /\ pc[t] \in {"asleep", "relock"} => mtxOwner[condVar[t]] # t

\* The pointer another thread notifies through is set only while its thread is
\* inside the wait it points to, so it never dangles (SetWaitingConditionVariable
\* and NotifyAll exclude each other).
WaitingPointerInWait == \A t \in Threads :
    pWaitingConditionVariable[t] # NoCondVar =>
        /\ pWaitingConditionVariable[t] = condVar[t]
        /\ pc[t] \in WaitLocations \ {"wait", "register"}

\* The flag a requester reads without synchronization does not change while
\* its value decides anything: between the locked writes of the pointer.
EnabledReadStable == [][\A t \in Threads :
    pWaitingConditionVariable[t] # NoCondVar \/ pWaitingConditionVariable'[t] # NoCondVar
        => interruptionEnabled'[t] = interruptionEnabled[t]]_cvVars
=============================================================================
