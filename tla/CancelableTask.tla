---------------------------- MODULE CancelableTask ----------------------------
(***************************************************************************)
(* StartAndRunCancelableTask of concurrent_run.hpp: a CancelableTask that  *)
(* is run by a thread of a QThreadPool, or by a thread that waits for it   *)
(* while it is still queued, and reports to a QFuture which other threads  *)
(* cancel and wait for.  QFutureInterface is Qt's: state, exceptionStore   *)
(* and resultStore are its fields, and every step here that reads or       *)
(* writes them is one critical section of its mutex.                       *)
(***************************************************************************)
EXTENDS Naturals

CONSTANTS
    Owners,         \* threads that hold a copy of the future
    poolThread,
    NoRunner

ASSUME TaskThreadsAssumption ==
    poolThread \notin Owners /\ NoRunner \notin Owners \cup {poolThread}

VARIABLES
    state,          \* QFutureInterfaceBase::State
    exceptionStore, \* the kind of exception in the store, or "none"
    resultStore,    \* the result is in the store
    at,             \* where the runnable is
    runner,         \* the thread that runs it
    did,            \* what the task did
    doing,             \* doing[o]: what owner o does
    got             \* got[o]: what the last wait of o ended with

taskVars == <<state, exceptionStore, resultStore, at, runner, did, doing, got>>
qtVars == <<state, exceptionStore, resultStore>>
ownerVars == <<doing, got>>

Exceptions == {"TaskCanceledException", "QtException", "QtUnhandledException"}
Running == "Running" \in state
-----------------------------------------------------------------------------
TaskInit ==
    /\ state = {}
    /\ exceptionStore = "none"
    /\ resultStore = FALSE
    /\ at = "created"
    /\ runner = NoRunner
    /\ did = "none"
    /\ doing = [o \in Owners |-> "idle"]
    /\ got = [o \in Owners |-> "none"]

\* Start(): the future exists from here on.
StartTask ==
    /\ at = "created"
    /\ state' = {"Started", "Running"}
    /\ at' = "queued"
    /\ UNCHANGED <<exceptionStore, resultStore, runner, did, ownerVars>>

\* A thread of the pool takes the runnable.
Take ==
    /\ at = "queued"
    /\ at' = "run"
    /\ runner' = poolThread
    /\ UNCHANGED <<qtVars, did, ownerVars>>

\* run(): if (isCanceled()).
RunBegins ==
    /\ at = "run"
    /\ IF "Canceled" \in state
       THEN at' = "reportCanceled" /\ did' = "TaskCanceledException"
       ELSE at' = "task" /\ UNCHANGED did
    /\ UNCHANGED <<qtVars, runner, ownerVars>>

\* pCancelableTask_->Run(): the task looks at IsCanceled() and throws
\* TaskCanceledException, throws something else or returns.
TaskEnds ==
    /\ at = "task"
    /\ \/ /\ "Canceled" \in state
          /\ did' = "TaskCanceledException"
          /\ at' = "reportCanceled"
       \/ /\ did' \in {"QtException", "QtUnhandledException"}
          /\ at' = "reportException"
       \/ /\ did' = "result"
          /\ at' = "reportResult"
    /\ UNCHANGED <<qtVars, runner, ownerVars>>

ReportCanceled ==
    /\ at = "reportCanceled"
    /\ exceptionStore' = did
    /\ at' = "reportFinished"
    /\ UNCHANGED <<state, resultStore, runner, did, ownerVars>>

\* Mutant: a canceled task reports no result, as in QFutureInterface.
ReportResult_Qt ==
    /\ at = "reportResult"
    /\ resultStore' = ("Canceled" \notin state)
    /\ at' = "reportFinished"
    /\ UNCHANGED <<state, exceptionStore, runner, did, ownerVars>>

\* ReportResult(): the result is stored, or storing it throws.
ReportResult ==
    /\ at = "reportResult"
    /\ \/ /\ resultStore' = TRUE
          /\ at' = "reportFinished"
          /\ UNCHANGED did
       \/ /\ did' = "QtUnhandledException"
          /\ at' = "reportException"
          /\ UNCHANGED resultStore
    /\ UNCHANGED <<state, exceptionStore, runner, ownerVars>>

\* Mutant: ReportException() is reportException() of QFutureInterface.
ReportException_Qt ==
    /\ at = "reportException"
    /\ at' = "reportFinished"
    /\ IF "Canceled" \in state
       THEN UNCHANGED <<state, exceptionStore>>
       ELSE exceptionStore' = did /\ state' = state \cup {"Canceled"}
    /\ UNCHANGED <<resultStore, runner, did, ownerVars>>

\* ReportException() up to locker.unlock() ...
ReportException ==
    /\ at = "reportException"
    /\ exceptionStore' = did
    /\ at' = IF "Canceled" \in state THEN "reportFinished" ELSE "qtReportException"
    /\ UNCHANGED <<state, resultStore, runner, did, ownerVars>>

\* ... and reportException() of QFutureInterface, which does nothing when the
\* future was canceled in between.
QtReportException ==
    /\ at = "qtReportException"
    /\ at' = "reportFinished"
    /\ IF "Canceled" \in state
       THEN UNCHANGED <<state, exceptionStore>>
       ELSE exceptionStore' = did /\ state' = state \cup {"Canceled"}
    /\ UNCHANGED <<resultStore, runner, did, ownerVars>>

\* Mutant: a task that ends canceled is not reported finished.
ReportFinished_NotCanceled ==
    /\ at = "reportFinished"
    /\ state' = IF did = "TaskCanceledException" THEN state
                ELSE (state \ {"Running"}) \cup {"Finished"}
    /\ at' = "done"
    /\ doing' = IF runner = poolThread THEN doing ELSE [doing EXCEPT ![runner] = "wait"]
    /\ runner' = NoRunner
    /\ UNCHANGED <<exceptionStore, resultStore, did, got>>

\* ReportFinished() and the end of run().  A waiter that ran it waits on.
ReportFinished ==
    /\ at = "reportFinished"
    /\ state' = (state \ {"Running"}) \cup {"Finished"}
    /\ at' = "done"
    /\ doing' = IF runner = poolThread THEN doing ELSE [doing EXCEPT ![runner] = "wait"]
    /\ runner' = NoRunner
    /\ UNCHANGED <<exceptionStore, resultStore, did, got>>
-----------------------------------------------------------------------------
\* QFuture::cancel(), or FutureInterfaceCancelable::Cancel().
Cancel ==
    /\ at # "created"
    /\ "Canceled" \notin state
    /\ state' = state \cup {"Canceled"}
    /\ UNCHANGED <<exceptionStore, resultStore, at, runner, did, ownerVars>>

\* QFuture::result(): it throws what the store holds; a runnable that is still
\* queued is taken from the pool and run by the waiter.
Result(o) ==
    /\ at # "created"
    /\ doing[o] = "idle"
    /\ IF exceptionStore # "none" \/ ~Running
       THEN /\ got' = [got EXCEPT ![o] = IF exceptionStore # "none"
                                         THEN exceptionStore ELSE "returned"]
            /\ UNCHANGED <<at, runner, doing>>
       ELSE /\ got' = [got EXCEPT ![o] = "none"]
            /\ IF at = "queued"
               THEN /\ at' = "run"
                    /\ runner' = o
                    /\ doing' = [doing EXCEPT ![o] = "running"]
               ELSE /\ doing' = [doing EXCEPT ![o] = "wait"]
                    /\ UNCHANGED <<at, runner>>
    /\ UNCHANGED <<qtVars, did>>

\* The wait ends with the result or with the task.
Released(o) ==
    /\ doing[o] = "wait"
    /\ ~Running \/ resultStore
    /\ doing' = [doing EXCEPT ![o] = "idle"]
    /\ got' = [got EXCEPT ![o] = IF exceptionStore # "none"
                                 THEN exceptionStore ELSE "returned"]
    /\ UNCHANGED <<qtVars, at, runner, did>>

Run == RunBegins \/ TaskEnds \/ ReportCanceled \/ ReportResult
            \/ ReportException \/ QtReportException \/ ReportFinished

TaskNext ==
    \/ StartTask \/ Take \/ Run \/ Cancel
    \/ \E o \in Owners : Result(o) \/ Released(o)

TaskSpec == TaskInit /\ [][TaskNext]_taskVars

\* The pool has a thread for the runnable, and the task's Run() ends.
TaskFairSpec ==
    /\ TaskSpec
    /\ WF_taskVars(Take) /\ WF_taskVars(Run)
    /\ \A o \in Owners : WF_taskVars(Released(o))
-----------------------------------------------------------------------------
TaskTypeOK ==
    /\ state \subseteq {"Started", "Running", "Canceled", "Finished"}
    /\ exceptionStore \in Exceptions \cup {"none"}
    /\ resultStore \in BOOLEAN
    /\ at \in {"created", "queued", "run", "task", "reportCanceled",
               "reportResult", "reportException", "qtReportException",
               "reportFinished", "done"}
    /\ runner \in Owners \cup {poolThread, NoRunner}
    /\ did \in Exceptions \cup {"none", "result"}
    /\ doing \in [Owners -> {"idle", "wait", "running"}]
    /\ got \in [Owners -> Exceptions \cup {"none", "returned"}]
    /\ runner = NoRunner <=> at \in {"created", "queued", "done"}
    /\ \A o \in Owners : doing[o] = "running" <=> runner = o

\* Types apart: a finished future holds what the task did, whenever a cancellation fell
\* between: its exception, not just a canceled state, and its result even when
\* it was canceled too late.
OutcomeReported ==
    /\ TaskTypeOK
    /\ "Finished" \in state =>
        /\ exceptionStore = IF did = "result" THEN "none" ELSE did
        /\ resultStore = (did = "result")

\* result() never returns without a result, and what it throws is what the task
\* threw.
WaitersGetOutcome == \A o \in Owners :
    /\ got[o] = "returned" => resultStore /\ exceptionStore = "none"
    /\ got[o] \in Exceptions => got[o] = did

\* A wait ends when the task does, canceled before it ran, too.
WaitEnds == \A o \in Owners : doing[o] # "idle" ~> doing[o] = "idle"
=============================================================================
