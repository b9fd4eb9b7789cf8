----------------------- MODULE TerminationSignals_proofs -----------------------
(* Proofs about PosixSignalsWatcher, for any signals, socket pairs and       *)
(* sizes, and about TerminationSignals, which implements it.                 *)
EXTENDS TerminationSignals, TLAPS

\* No two signals share a socket pair.
PairsDistinct == \A s, t \in Sigs :
    socketPair[s] = socketPair[t] /\ socketPair[s] # NoPair => s = t

\* What a signal has, in the middle of Watch() and Unwatch() of it, too.
Stages == \A s \in Sigs :
    /\ s \in leaked => socketPair[s] # NoPair /\ ~socketNotifier[s]
    /\ s \notin leaked => (socketNotifier[s] <=> socketPair[s] # NoPair)
    /\ handled[s] <=> (socketNotifier[s] /\ s # sig)

\* A signal that is owed is in its socket.
OwedReadable == \A s \in Sigs :
    owed[s] => socketPair[s] # NoPair /\ buffer[socketPair[s]] # <<>>

SInv ==
    /\ TypeOK
    /\ handlerPair # NoPair => handlerSig # NoSig
    /\ main # "idle" => socketNotifier[sig]
    /\ PairsDistinct
    /\ Stages
    /\ OwedReadable

LEMMA InitSInv == Init => SInv
BY NothingAssumption, BoundsAssumption
    DEF Init, SInv, TypeOK, PairsDistinct, Stages, OwedReadable

\* Opening a pair that nobody has gives it to s alone.
LEMMA OpenKeeps ==
    ASSUME SInv, NEW s \in Sigs, OpenSocketPair(s)
    PROVE  /\ socketPair' \in [Sigs -> Pairs \cup {NoPair}]
           /\ buffer' \in [Pairs -> Seq(Sigs)]
           /\ \A p \in Pairs : Len(buffer'[p]) <= BufferSize
           /\ PairsDistinct'
           /\ socketPair'[s] # NoPair /\ ~owed[s]
           /\ \A t \in Sigs \ {s} : socketPair'[t] = socketPair[t]
           /\ \A t \in Sigs : owed[t] => socketPair'[t] # NoPair /\ buffer'[socketPair'[t]] # <<>>
<1>1. PICK p \in Pairs : /\ \A t \in Sigs : socketPair[t] # p
                         /\ socketPair' = [socketPair EXCEPT ![s] = p]
                         /\ buffer' = [buffer EXCEPT ![p] = <<>>]
    BY DEF OpenSocketPair
<1>2. p # NoPair
    BY NothingAssumption
<1>3. <<>> \in Seq(Sigs) /\ Len(<<>>) <= BufferSize
    BY BoundsAssumption
<1>4. /\ socketPair' \in [Sigs -> Pairs \cup {NoPair}]
      /\ buffer' \in [Pairs -> Seq(Sigs)]
      /\ \A q \in Pairs : Len(buffer'[q]) <= BufferSize
    BY <1>1, <1>3 DEF SInv, TypeOK
<1>5. socketPair[s] = NoPair /\ ~owed[s]
    BY DEF OpenSocketPair, SInv, OwedReadable
<1>6. /\ socketPair'[s] = p
      /\ \A t \in Sigs \ {s} : socketPair'[t] = socketPair[t]
    BY <1>1 DEF SInv, TypeOK
<1>7. PairsDistinct'
    BY <1>1, <1>2, <1>6 DEF SInv, PairsDistinct
<1>8. \A t \in Sigs : owed[t] => socketPair'[t] # NoPair /\ buffer'[socketPair'[t]] # <<>>
    BY <1>1, <1>5, <1>6 DEF SInv, TypeOK, OwedReadable
<1> QED
    BY <1>2, <1>4, <1>5, <1>6, <1>7, <1>8

\* A write leaves no signal unread.
LEMMA WriteKeeps ==
    ASSUME SInv, NEW s \in Sigs, NEW p \in Pairs, Write(s, p)
    PROVE  /\ buffer' \in [Pairs -> Seq(Sigs)]
           /\ \A q \in Pairs : Len(buffer'[q]) <= BufferSize
           /\ owed' \in [Sigs -> BOOLEAN]
           /\ \A t \in Sigs : owed'[t] => socketPair[t] # NoPair /\ buffer'[socketPair[t]] # <<>>
<1> DEFINE accepts == (\E t \in Sigs : socketPair[t] = p) /\ Len(buffer[p]) < BufferSize
<1>1. buffer[p] \in Seq(Sigs) /\ Len(buffer[p]) \in Nat /\ Len(buffer[p]) <= BufferSize
    BY DEF SInv, TypeOK
<1>2. /\ Append(buffer[p], s) \in Seq(Sigs)
      /\ Len(Append(buffer[p], s)) = Len(buffer[p]) + 1
      /\ Append(buffer[p], s) # <<>>
    BY <1>1
<1>3. buffer' = [buffer EXCEPT ![p] = IF accepts THEN Append(buffer[p], s) ELSE buffer[p]]
    BY DEF Write
<1> HIDE DEF accepts
<1>4. /\ buffer' \in [Pairs -> Seq(Sigs)]
      /\ \A q \in Pairs : Len(buffer'[q]) <= BufferSize
    <2>1. buffer'[p] \in Seq(Sigs) /\ Len(buffer'[p]) <= BufferSize
        BY <1>1, <1>2, <1>3, BoundsAssumption DEF SInv, TypeOK, accepts
    <2> QED
        BY <1>3, <2>1 DEF SInv, TypeOK
<1>5. \A q \in Pairs : buffer[q] # <<>> => buffer'[q] # <<>>
    BY <1>1, <1>2, <1>3 DEF SInv, TypeOK
<1>6. owed' \in [Sigs -> BOOLEAN]
    BY DEF Write, Owes, SInv, TypeOK, IsWatched
<1>7. ASSUME NEW t \in Sigs, owed'[t]
      PROVE  socketPair[t] # NoPair /\ buffer'[socketPair[t]] # <<>>
    <2>1. CASE owed[t]
        BY <2>1, <1>5 DEF SInv, OwedReadable, TypeOK
    <2>2. CASE ~owed[t]
        <3>1. t = s /\ socketPair[s] = p
            BY <2>2, <1>7 DEF Write, Owes, SInv, TypeOK
        <3>2. accepts \/ buffer[p] # <<>>
            BY <3>1, <1>1, BoundsAssumption DEF accepts
        <3> QED
            BY <3>1, <3>2, <1>2, <1>3, <1>5, NothingAssumption DEF SInv, TypeOK
    <2> QED
        BY <2>1, <2>2
<1> QED
    BY <1>4, <1>6, <1>7

\* Closing the socket pair of a watched signal, with its notifier.
LEMMA CloseKeeps ==
    ASSUME SInv, NEW s \in Sigs, socketNotifier[s], CloseSocketPair(s)
    PROVE  /\ socketPair' \in [Sigs -> Pairs \cup {NoPair}]
           /\ owed' \in [Sigs -> BOOLEAN]
           /\ PairsDistinct'
           /\ socketPair'[s] = NoPair
           /\ \A t \in Sigs \ {s} : socketPair'[t] = socketPair[t]
           /\ \A t \in Sigs : owed'[t] => socketPair'[t] # NoPair /\ buffer[socketPair'[t]] # <<>>
BY DEF CloseSocketPair, SInv, TypeOK, PairsDistinct, OwedReadable

LEMMA StepKeepsSInv == SInv /\ [Next]_vars => SInv'
<1> SUFFICES ASSUME SInv, [Next]_vars PROVE SInv'
    OBVIOUS
<1> USE NothingAssumption
<1>0. TypeOK
    BY DEF SInv
<1>1. ASSUME NEW s \in Sigs, Watch(s) PROVE SInv'
    <2>1. ~socketNotifier[s] /\ s \notin leaked /\ s # NoSig /\ ~handled[s]
        BY <1>1 DEF Watch, IsWatched, OpenSocketPair, SInv, Stages
    <2>2. TypeOK'
        BY <1>0, <1>1, <2>1, OpenKeeps DEF Watch, TypeOK, handlerVars
    <2>3. Stages'
        BY <1>0, <1>1, <2>1, OpenKeeps DEF Watch, TypeOK, handlerVars, SInv, Stages
    <2> QED
        BY <1>0, <1>1, <2>2, <2>3, OpenKeeps DEF Watch, TypeOK, handlerVars, SInv, OwedReadable
<1>2. ASSUME NEW s \in Sigs, WatchThrows(s) PROVE SInv'
    <2>1. ~socketNotifier[s] /\ s \notin leaked /\ ~handled[s]
        BY <1>2 DEF WatchThrows, IsWatched, OpenSocketPair, SInv, Stages
    <2>2. TypeOK'
        BY <1>0, <1>2, OpenKeeps DEF WatchThrows, TypeOK, handlerVars, mainVars
    <2>3. Stages'
        BY <1>0, <1>2, <2>1, OpenKeeps DEF WatchThrows, TypeOK, handlerVars, mainVars, SInv, Stages
    <2> QED
        BY <1>0, <1>2, <2>2, <2>3, OpenKeeps
            DEF WatchThrows, TypeOK, handlerVars, mainVars, SInv, OwedReadable
<1>3. ASSUME NEW s \in Sigs, Unwatch(s) PROVE SInv'
    BY <1>0, <1>3 DEF Unwatch, IsWatched, TypeOK, handlerVars, SInv, PairsDistinct, Stages, OwedReadable
<1>4. ASSUME NEW s \in Sigs, QtSignalHandler(s) PROVE SInv'
    <2> DEFINE p == socketPair[s]
    <2>1. p \in Pairs /\ buffer[p] \in Seq(Sigs) /\ buffer[p] # <<>>
        BY <1>0, <1>4 DEF QtSignalHandler, Readable, IsWatched, TypeOK, SInv, Stages
    <2>2. Tail(buffer[p]) \in Seq(Sigs) /\ Len(Tail(buffer[p])) = Len(buffer[p]) - 1
        BY <2>1
    <2>3. buffer' \in [Pairs -> Seq(Sigs)] /\ \A q \in Pairs : Len(buffer'[q]) <= BufferSize
        <3>1. Len(Tail(buffer[p])) <= BufferSize
            BY <1>0, <2>1, <2>2, BoundsAssumption DEF TypeOK
        <3> QED
            BY <1>0, <1>4, <2>1, <2>2, <3>1 DEF QtSignalHandler, TypeOK
    <2>4. TypeOK'
        BY <1>0, <1>4, <2>3 DEF QtSignalHandler, TypeOK, mainVars, handlerVars
    <2>5. OwedReadable'
        BY <1>0, <1>4, <2>1 DEF QtSignalHandler, TypeOK, SInv, PairsDistinct, OwedReadable
    <2> QED
        BY <1>4, <2>4, <2>5 DEF QtSignalHandler, mainVars, handlerVars, SInv, PairsDistinct, Stages
<1>5. ASSUME NEW s \in Sigs, PosixSignalHandler(s) PROVE SInv'
    <2>1. socketPair[s] \in Pairs
        BY <1>0, <1>5 DEF PosixSignalHandler, TypeOK, SInv, Stages
    <2>2. TypeOK'
        BY <1>0, <1>5, <2>1, WriteKeeps, BoundsAssumption
            DEF PosixSignalHandler, TypeOK, mainVars, handlerVars
    <2>3. OwedReadable'
        BY <1>5, <2>1, WriteKeeps DEF PosixSignalHandler, OwedReadable
    <2> QED
        BY <1>5, <2>2, <2>3 DEF PosixSignalHandler, mainVars, handlerVars, SInv, PairsDistinct, Stages
<1>6. ASSUME NEW s \in Sigs, HandlerEnter(s) PROVE SInv'
    BY <1>0, <1>6, BoundsAssumption
        DEF HandlerEnter, TypeOK, mainVars, SInv, PairsDistinct, Stages, OwedReadable
<1>7. CASE WatchAction
    <2>1. sig \in Sigs /\ socketNotifier[sig] /\ sig \notin leaked
        BY <1>0, <1>7 DEF WatchAction, TypeOK, SInv, Stages
    <2>2. CASE handled' = [handled EXCEPT ![sig] = TRUE]
               /\ UNCHANGED <<socketPair, socketNotifier, owed>>
        BY <1>0, <1>7, <2>1, <2>2
            DEF WatchAction, TypeOK, handlerVars, SInv, PairsDistinct, Stages, OwedReadable
    <2>3. CASE socketNotifier' = [socketNotifier EXCEPT ![sig] = FALSE]
               /\ CloseSocketPair(sig) /\ UNCHANGED handled
        <3>1. TypeOK'
            BY <1>0, <1>7, <2>1, <2>3, CloseKeeps DEF WatchAction, TypeOK, handlerVars
        <3>2. Stages'
            BY <1>0, <1>7, <2>1, <2>3, CloseKeeps DEF WatchAction, TypeOK, SInv, Stages
        <3> QED
            BY <1>7, <2>1, <2>3, <3>1, <3>2, CloseKeeps
                DEF WatchAction, handlerVars, SInv, OwedReadable
    <2> QED
        BY <1>7, <2>2, <2>3 DEF WatchAction
<1>8. CASE UnwatchClose
    <2>1. sig \in Sigs /\ socketNotifier[sig] /\ sig \notin leaked
        BY <1>0, <1>8 DEF UnwatchClose, TypeOK, SInv, Stages
    <2>2. TypeOK'
        BY <1>0, <1>8, <2>1, CloseKeeps DEF UnwatchClose, TypeOK, handlerVars
    <2>3. Stages'
        BY <1>0, <1>8, <2>1, CloseKeeps DEF UnwatchClose, TypeOK, SInv, Stages
    <2> QED
        BY <1>8, <2>1, <2>2, <2>3, CloseKeeps DEF UnwatchClose, handlerVars, SInv, OwedReadable
<1>9. CASE SlotsReturn
    BY <1>0, <1>9 DEF SlotsReturn, mainVars, handlerVars, TypeOK, SInv, PairsDistinct, Stages, OwedReadable
<1>10. CASE HandlerSocket
    BY <1>0, <1>10 DEF HandlerSocket, mainVars, TypeOK, SInv, PairsDistinct, Stages, OwedReadable
<1>11. CASE HandlerWrite
    <2>1. handlerSig \in Sigs /\ handlerPair \in Pairs
        BY <1>0, <1>11 DEF HandlerWrite, TypeOK, SInv
    <2>2. TypeOK'
        BY <1>0, <1>11, <2>1, WriteKeeps DEF HandlerWrite, TypeOK, mainVars
    <2>3. OwedReadable'
        BY <1>11, <2>1, WriteKeeps DEF HandlerWrite, OwedReadable
    <2> QED
        BY <1>11, <2>2, <2>3 DEF HandlerWrite, mainVars, SInv, PairsDistinct, Stages
<1>12. CASE UNCHANGED vars
    BY <1>12 DEF vars, mainVars, handlerVars, SInv, TypeOK, PairsDistinct, Stages, OwedReadable
<1> QED
    BY <1>1, <1>2, <1>3, <1>4, <1>5, <1>6, <1>7, <1>8, <1>9, <1>10, <1>11, <1>12 DEF Next

LEMMA SInvAlways == Spec => []SInv
BY InitSInv, StepKeepsSInv, PTL DEF Spec

\* Between operations a signal has handler, notifier and socket pair, or none.
THEOREM SetUpIsAllOrNothing == Spec => []AllOrNothing
<1>1. SInv => AllOrNothing
    BY NothingAssumption DEF SInv, TypeOK, Stages, AllOrNothing
<1> QED
    BY <1>1, SInvAlways, PTL

\* The handler always finds a socket, whenever it interrupts Watch() or Unwatch().
THEOREM HandlerFindsSocket == Spec => []HandledHasSocket
<1>1. SInv => HandledHasSocket
    BY NothingAssumption DEF SInv, TypeOK, Stages, HandledHasSocket
<1> QED
    BY <1>1, SInvAlways, PTL

\* A caught signal stays readable, however many arrive and whatever is full.
THEOREM CaughtStaysReadable == Spec => []NoSignalLost
<1>1. SInv => NoSignalLost
    BY DEF SInv, OwedReadable, NoSignalLost
<1> QED
    BY <1>1, SInvAlways, PTL
-----------------------------------------------------------------------------
\* SetQuitOnTerminationSignals() and the program use the watcher by its
\* operations only: what holds of the watcher holds in the application.
THEOREM ApplicationUsesWatcher == TSpec => Spec
<1>1. TInit => Init
    BY DEF TInit
<1>2. [TNext]_tvars => [Next]_vars
    <2> SUFFICES ASSUME [TNext]_tvars PROVE [Next]_vars
        OBVIOUS
    <2>1. CASE SetQuitOnTerminationSignals
        BY <2>1 DEF SetQuitOnTerminationSignals
    <2>2. ASSUME NEW s \in TermSigs,
                 \/ Enable(s) \/ EnableWatched(s) \/ Rollback
                 \/ Disable(s) \/ SettingUnwatched(s) \/ Restore \/ RestoreWatched
          PROVE  [Next]_vars
        BY <2>2, TermSigsAssumption DEF TermSigs, Enable, EnableWatched, Rollback, Disable,
            SettingUnwatched, Restore, RestoreWatched, Next
    <2>3. ASSUME NEW s \in Sigs, Raise(s) PROVE [Next]_vars
        BY <2>3 DEF Raise, Next
    <2>4. CASE Quit \/ SlotsDone \/ SlotThrows
        BY <2>4 DEF Quit, SlotsDone, SlotThrows, Next
    <2>5. CASE UserWatches \/ UserGoesOn
        BY <2>5 DEF UserWatches, UserGoesOn, Next
    <2>6. CASE SignalArrives
        BY <2>6 DEF SignalArrives, Next
    <2>7. CASE UNCHANGED tvars
        BY <2>7 DEF tvars
    <2> QED
        BY <2>1, <2>2, <2>3, <2>4, <2>5, <2>6, <2>7 DEF TNext, SettingStep
<1> QED
    BY <1>1, <1>2, PTL DEF TSpec, Spec

\* Where SetQuitOnTerminationSignals() is: what it has done so far, as long as no
\* restoring of an old action failed.
Progress ==
    /\ setting = "no" => \A s \in TermSigs :
        connected[s] = quitOnTerminationSignals /\ (unwatchSig[s] => quitOnTerminationSignals)
    /\ setting = "enable" =>
        /\ ~quitOnTerminationSignals /\ ~connected[SigInt] /\ ~unwatchSig[SigInt]
        /\ settingSig = SigTerm => ~connected[SigTerm] /\ ~unwatchSig[SigTerm]
        /\ settingSig = SigInt => connected[SigTerm]
    /\ setting = "rollback" =>
        /\ ~quitOnTerminationSignals /\ ~connected[SigInt] /\ ~unwatchSig[SigInt]
        /\ main = "Unwatch" => ~connected[SigTerm]
    /\ setting = "disable" =>
        /\ quitOnTerminationSignals
        /\ settingSig = SigInt => connected[SigTerm] /\ (main = "Unwatch" => ~connected[SigInt])
        /\ settingSig = SigTerm =>
            ~connected[SigInt] /\ ~unwatchSig[SigInt] /\ (main = "Unwatch" => ~connected[SigTerm])
    /\ setting # "restore"

TInv ==
    /\ setting \in {"no", "enable", "disable", "rollback", "restore"}
    /\ settingSig \in TermSigs \cup {NoSig}
    /\ setting = "no" <=> settingSig = NoSig
    /\ setting = "rollback" => settingSig = SigTerm
    /\ quitOnTerminationSignals \in BOOLEAN
    /\ unwatchSig \in [TermSigs -> BOOLEAN] /\ connected \in [TermSigs -> BOOLEAN]
    /\ unwatchFailed \in BOOLEAN
    /\ setting \in {"enable", "restore"} => main # "Unwatch"
    /\ setting \in {"disable", "rollback"} => main # "Watch"
    /\ ~unwatchFailed => Progress

LEMMA InitTInv == TInit => TInv
BY DEF TInit, Init, TInv, Progress, TermSigs

LEMMA StepKeepsTInv == SInv' /\ TInv /\ [TNext]_tvars => TInv'
<1> SUFFICES ASSUME SInv', TInv, [TNext]_tvars PROVE TInv'
    OBVIOUS
<1> USE NothingAssumption, TermSigsAssumption
    DEF TInv, Progress, TermSigs, At, GoesTo, Leaves, settingVars, programVars, vars, mainVars
<1>1. CASE SetQuitOnTerminationSignals
    BY <1>1 DEF SetQuitOnTerminationSignals
<1>2. ASSUME NEW s \in TermSigs, Enable(s) PROVE TInv'
    <2>1. CASE Watch(s) /\ UNCHANGED settingVars
        BY <1>2, <2>1 DEF Enable, Watch
    <2>2. CASE EnableThrows(s)
        BY <1>2, <2>2 DEF Enable, EnableThrows, WatchThrows
    <2>3. CASE UNCHANGED vars /\ Enabled(s) /\ UNCHANGED unwatchSig
        BY <1>2, <2>3 DEF Enable, Enabled
    <2> QED
        BY <1>2, <2>1, <2>2, <2>3 DEF Enable
<1>3. ASSUME NEW s \in TermSigs, EnableWatched(s) PROVE TInv'
    <2>1. main' = "idle" /\ UNCHANGED unwatchFailed /\ At("enable", s)
        BY <1>3 DEF EnableWatched, WatchAction
    <2>2. CASE EnableThrows(s)
        BY <2>1, <2>2 DEF EnableThrows
    <2>3. CASE unwatchSig' = [unwatchSig EXCEPT ![s] = TRUE] /\ Enabled(s)
        BY <2>1, <2>3 DEF Enabled
    <2> QED
        BY <1>3, <2>2, <2>3 DEF EnableWatched
<1>4. CASE Rollback
    BY <1>4 DEF Rollback, Unwatch
<1>5. ASSUME NEW s \in TermSigs, Disable(s) PROVE TInv'
    BY <1>5 DEF Disable, Unwatch, Disabled
<1>6. ASSUME NEW s \in TermSigs, SettingUnwatched(s) PROVE TInv'
    BY <1>6 DEF SettingUnwatched, UnwatchClose, Disabled
<1>7. CASE Restore \/ RestoreWatched
    <2>1. setting = "restore" /\ UNCHANGED <<unwatchFailed, quitOnTerminationSignals>> /\ unwatchFailed
        BY <1>7 DEF Restore, RestoreWatched
    <2>2. CASE Restore
        BY <2>1, <2>2 DEF Restore, Watch, WatchThrows
    <2>3. CASE RestoreWatched
        <3>1. handled'[SigInt] \in BOOLEAN
            BY DEF SInv, TypeOK
        <3> QED
            BY <2>1, <2>3, <3>1 DEF RestoreWatched, WatchAction
    <2> QED
        BY <1>7, <2>2, <2>3
<1>8. ASSUME NEW s \in Sigs, Raise(s) PROVE TInv'
    BY <1>8 DEF Raise, QtSignalHandler
<1>9. CASE Quit \/ SlotsDone \/ SlotThrows
    BY <1>9 DEF Quit, SlotsDone, SlotThrows, SlotsReturn
<1>10. CASE UserWatches \/ UserGoesOn
    BY <1>10 DEF UserWatches, UserGoesOn
<1>11. CASE SignalArrives
    BY <1>11 DEF SignalArrives, PosixSignalHandler, HandlerEnter, HandlerSocket, HandlerWrite
<1>12. CASE UNCHANGED tvars
    BY <1>12 DEF tvars
<1> QED
    BY <1>1, <1>2, <1>3, <1>4, <1>5, <1>6, <1>7, <1>8, <1>9, <1>10, <1>11, <1>12
        DEF TNext, SettingStep

\* SetQuitOnTerminationSignals() leaves both signals connected, or neither,
\* whatever part of it failed.
THEOREM SettingIsAllOrNothing == TSpec => []QuitArmed
<1>1. TInv => QuitArmed
    BY DEF TInv, Progress, QuitArmed
<1> QED
    BY <1>1, InitTInv, StepKeepsTInv, SInvAlways, ApplicationUsesWatcher, PTL DEF TSpec
=============================================================================
