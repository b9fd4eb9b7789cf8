-------------------------- MODULE TerminationSignals --------------------------
(***************************************************************************)
(* An application that quits on SIGTERM and SIGINT: CoreApplicationBase of *)
(* core_application_base_unx.cpp over PosixSignalsWatcher, which the       *)
(* program uses itself, too.  SetQuitOnTerminationSignals() watches what   *)
(* is not watched, connects quit() to it and rolls back what failed;       *)
(* notify() decides what an exception of a slot does to the program.       *)
(***************************************************************************)
EXTENDS PosixSignalsWatcher

CONSTANTS SigTerm, SigInt

ASSUME TermSigsAssumption == {SigTerm, SigInt} \subseteq Sigs /\ SigTerm # SigInt

VARIABLES
    setting,            \* "no", or the part of SetQuitOnTerminationSignals() ...
    settingSig,         \* ... and the signal it is at
    quitOnTerminationSignals,
    unwatchSig,         \* unwatchSig[s]: unwatchSigTerm_, unwatchSigInt_
    connected,          \* connected[s]: the Qt signal of s is connected to quit()
    toQuit,             \* quit() is among the slots the running emission calls
    notifyThrowAction,
    program,            \* "runs", "quits" (quit() called) or "terminates"
    unwatchFailed       \* an Unwatch() of the setting has failed

TermSigs == {SigTerm, SigInt}
settingVars == <<setting, settingSig, quitOnTerminationSignals, unwatchSig, connected>>
programVars == <<toQuit, notifyThrowAction, program>>
tvars == <<vars, settingVars, programVars, unwatchFailed>>
-----------------------------------------------------------------------------
TInit ==
    /\ Init
    /\ setting = "no" /\ settingSig = NoSig
    /\ quitOnTerminationSignals = FALSE
    /\ unwatchSig = [s \in TermSigs |-> FALSE]
    /\ connected = [s \in TermSigs |-> FALSE]
    /\ toQuit = FALSE
    /\ notifyThrowAction \in {"rethrow", "quit", "ignore"}
    /\ program = "runs"
    /\ unwatchFailed = FALSE

At(part, s) == setting = part /\ settingSig = s
GoesTo(part, s) == setting' = part /\ settingSig' = s
Leaves == GoesTo("no", NoSig)

\* SetQuitOnTerminationSignals(value) does nothing when that is set already.
\* Any slot may call it.
SetQuitOnTerminationSignals ==
    /\ setting = "no" /\ main = "idle" /\ TermSigs \cap leaked = {}
    /\ IF quitOnTerminationSignals THEN GoesTo("disable", SigInt)
                                   ELSE GoesTo("enable", SigTerm)
    /\ UNCHANGED <<vars, quitOnTerminationSignals, unwatchSig, connected,
                   programVars, unwatchFailed>>

\* connect() with Qt::UniqueConnection, and on to the other signal or the end.
Enabled(s) ==
    /\ connected' = [connected EXCEPT ![s] = TRUE]
    /\ IF s = SigTerm
       THEN GoesTo("enable", SigInt) /\ UNCHANGED quitOnTerminationSignals
       ELSE Leaves /\ quitOnTerminationSignals' = TRUE

\* The exception of SIGTERM leaves at once, that of SIGINT through the guard.
EnableThrows(s) ==
    /\ IF s = SigTerm THEN Leaves ELSE GoesTo("rollback", SigTerm)
    /\ UNCHANGED <<quitOnTerminationSignals, unwatchSig, connected>>

\* if (!IsWatched(sig)) Watch(sig): of the failures, the ones that come before
\* the socket pair, and bad_alloc.
Enable(s) ==
    /\ At("enable", s) /\ main = "idle"
    /\ IF IsWatched(s)
       THEN UNCHANGED vars /\ Enabled(s) /\ UNCHANGED unwatchSig
       ELSE \/ Watch(s) /\ UNCHANGED settingVars
            \/ UNCHANGED vars /\ EnableThrows(s)
            \/ WatchThrows(s) /\ EnableThrows(s)
    /\ UNCHANGED <<programVars, unwatchFailed>>

\* ... and the last, sigaction().
EnableWatched(s) ==
    /\ At("enable", s) /\ WatchAction
    /\ IF handled'[s]
       THEN unwatchSig' = [unwatchSig EXCEPT ![s] = TRUE] /\ Enabled(s)
       ELSE EnableThrows(s)
    /\ UNCHANGED <<programVars, unwatchFailed>>

\* Mutant: the guard leaves the connection.
Rollback_KeepsConnection ==
    /\ At("rollback", SigTerm) /\ main = "idle"
    /\ \/ unwatchSig[SigTerm] /\ Unwatch(SigTerm)
          /\ UNCHANGED <<setting, settingSig, unwatchFailed>>
       \/ ~unwatchSig[SigTerm] /\ UNCHANGED vars /\ Leaves
          /\ UNCHANGED unwatchFailed
    /\ UNCHANGED <<quitOnTerminationSignals, unwatchSig, connected, programVars>>

\* The guard of SIGTERM: !commit.
Rollback ==
    /\ At("rollback", SigTerm) /\ main = "idle"
    /\ connected' = [connected EXCEPT ![SigTerm] = FALSE]
    /\ \/ unwatchSig[SigTerm] /\ Unwatch(SigTerm)
          /\ UNCHANGED <<setting, settingSig, unwatchFailed>>
       \/ unwatchSig[SigTerm] /\ UNCHANGED vars /\ Leaves
          /\ unwatchFailed' = TRUE
       \/ ~unwatchSig[SigTerm] /\ UNCHANGED vars /\ Leaves
          /\ UNCHANGED unwatchFailed
    /\ UNCHANGED <<quitOnTerminationSignals, unwatchSig, programVars>>

\* On to the other signal, or the end.
Disabled(s) ==
    IF s = SigInt
    THEN GoesTo("disable", SigTerm) /\ UNCHANGED quitOnTerminationSignals
    ELSE Leaves /\ quitOnTerminationSignals' = FALSE

\* disconnect(), and Unwatch() of a signal that was not watched before it was
\* enabled, if it still is; when that fails the exception of SIGINT leaves at
\* once, that of SIGTERM through the guard.
Disable(s) ==
    /\ At("disable", s) /\ main = "idle"
    /\ connected' = [connected EXCEPT ![s] = FALSE]
    /\ IF unwatchSig[s] /\ IsWatched(s)
       THEN \/ /\ Unwatch(s)
               /\ UNCHANGED <<setting, settingSig, quitOnTerminationSignals,
                              unwatchSig, unwatchFailed>>
            \/ /\ UNCHANGED vars
               /\ IF s = SigInt THEN Leaves ELSE GoesTo("restore", SigInt)
               /\ unwatchFailed' = TRUE
               /\ UNCHANGED <<quitOnTerminationSignals, unwatchSig>>
       ELSE /\ unwatchSig' = [unwatchSig EXCEPT ![s] = FALSE]
            /\ Disabled(s)
            /\ UNCHANGED <<vars, unwatchFailed>>
    /\ UNCHANGED programVars

\* The end of an Unwatch() of the guard or of the disabling.
SettingUnwatched(s) ==
    /\ settingSig = s /\ UnwatchClose
    /\ unwatchSig' = [unwatchSig EXCEPT ![s] = FALSE]
    /\ IF setting = "disable" THEN Disabled(s)
                              ELSE Leaves /\ UNCHANGED quitOnTerminationSignals
    /\ UNCHANGED <<connected, programVars, unwatchFailed>>

\* The guard of SIGINT: !commit.  Watch() of a signal that the program watches
\* itself is a broken precondition; its exception, and bad_alloc, leave the
\* guard, which runs because of an exception: the program terminates.
Restore ==
    /\ At("restore", SigInt) /\ main = "idle"
    /\ IF IsWatched(SigInt)
       THEN program' = "terminates" /\ Leaves /\ UNCHANGED vars
       ELSE    \/ Watch(SigInt) /\ UNCHANGED <<setting, settingSig>>
                  /\ UNCHANGED program
               \/ UNCHANGED <<vars, program>> /\ Leaves
               \/ WatchThrows(SigInt) /\ Leaves /\ program' = "terminates"
    /\ UNCHANGED <<quitOnTerminationSignals, unwatchSig, connected, toQuit,
                   notifyThrowAction, unwatchFailed>>

RestoreWatched ==
    /\ At("restore", SigInt) /\ WatchAction
    /\ unwatchSig' = [unwatchSig EXCEPT ![SigInt] = handled'[SigInt]]
    /\ connected' = [connected EXCEPT ![SigInt] = handled'[SigInt]]
    /\ Leaves
    /\ UNCHANGED <<quitOnTerminationSignals, programVars, unwatchFailed>>

SettingStep == \E s \in TermSigs :
    \/ Enable(s) \/ EnableWatched(s) \/ Rollback
    \/ Disable(s) \/ SettingUnwatched(s) \/ Restore \/ RestoreWatched
-----------------------------------------------------------------------------
\* Dispatch(): Raised(sig) becomes SigTerm() or SigInt(), whose slots are those
\* connected now.
Raise(s) ==
    /\ setting = "no" /\ QtSignalHandler(s)
    /\ toQuit' = (s \in TermSigs /\ connected[s])
    /\ UNCHANGED <<settingVars, notifyThrowAction, program, unwatchFailed>>

\* quit() in its turn, unless it has been disconnected meanwhile.
Quit ==
    /\ setting = "no" /\ main = "idle" /\ slot # NoSig
    /\ toQuit /\ toQuit' = FALSE
    /\ program' = IF connected[slot] THEN "quits" ELSE program
    /\ UNCHANGED <<vars, settingVars, notifyThrowAction, unwatchFailed>>

SlotsDone ==
    /\ setting = "no" /\ ~toQuit /\ SlotsReturn
    /\ UNCHANGED <<settingVars, programVars, unwatchFailed>>

\* Mutant: the exception is ignored.
NotifyThrowHandler_Ignores(action) == "runs"

\* NotifyThrowHandler(): an exception that leaves a slot reaches notify().
NotifyThrowHandler(action) ==
    CASE action = "rethrow" -> "terminates"
      [] action = "quit" -> "quits"
      [] action = "ignore" -> "runs"

\* A slot of the program that is called before quit() throws.
SlotThrows ==
    /\ setting = "no" /\ SlotsReturn
    /\ toQuit' = FALSE
    /\ program' = NotifyThrowHandler(notifyThrowAction)
    /\ UNCHANGED <<settingVars, notifyThrowAction, unwatchFailed>>

\* The program watches and unwatches signals itself.
UserWatches ==
    /\ setting = "no"
    /\ \E s \in Sigs : Watch(s) \/ WatchThrows(s) \/ Unwatch(s)
    /\ UNCHANGED <<settingVars, programVars, unwatchFailed>>

UserGoesOn ==
    /\ setting = "no"
    /\ WatchAction \/ UnwatchClose
    /\ UNCHANGED <<settingVars, programVars, unwatchFailed>>

SignalArrives ==
    /\ (\E s \in Sigs : PosixSignalHandler(s) \/ HandlerEnter(s)) \/ HandlerSocket \/ HandlerWrite
    /\ UNCHANGED <<settingVars, programVars, unwatchFailed>>

Running == program = "runs"

TNext ==
    /\ Running
    /\ \/ SetQuitOnTerminationSignals
       \/ SettingStep
       \/ (\E s \in Sigs : Raise(s)) \/ Quit \/ SlotsDone \/ SlotThrows
       \/ UserWatches \/ UserGoesOn
       \/ SignalArrives

TSpec == TInit /\ [][TNext]_tvars

\* The event loop runs as long as the program, serves every socket that stays
\* readable and goes on when an operation is done; slots return or throw.
TFairSpec ==
    /\ TSpec
    /\ WF_tvars(Running /\ (SettingStep \/ UserGoesOn))
    /\ SF_tvars(Running /\ (Quit \/ SlotsDone \/ SlotThrows))
    /\ \A s \in Sigs : SF_tvars(Running /\ Raise(s))
-----------------------------------------------------------------------------
\* SetQuitOnTerminationSignals() is all or nothing, whatever part of it fails:
\* both signals are connected to quit() exactly when quitOnTerminationSignals_
\* says so, and it takes the watch back only of what it watched.  A failure to
\* restore an old signal action is the exception: it leaves one signal behind.
QuitArmed == setting = "no" /\ ~unwatchFailed => \A s \in TermSigs :
    /\ connected[s] = quitOnTerminationSignals
    /\ unwatchSig[s] => quitOnTerminationSignals

\* A termination signal that is caught while it is connected to quit() ends the
\* program, also when another slot throws, unless such exceptions are ignored.
TerminationQuits == \A s \in TermSigs :
    owed[s] /\ connected[s] /\ notifyThrowAction # "ignore" ~>
        program # "runs" \/ ~connected[s] \/ ~handled[s]

\* Every signal caught is reported after, or its watch or the program ends.
SignalReported == \A s \in Sigs : owed[s] ~> ~owed[s] \/ program # "runs"
=============================================================================
