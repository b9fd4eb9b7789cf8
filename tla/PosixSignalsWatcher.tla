------------------------- MODULE PosixSignalsWatcher -------------------------
(***************************************************************************)
(* PosixSignalsWatcher of posix_signals_watcher_unx.cpp: Watch() and       *)
(* Unwatch(), the handler that writes a byte to the socket pair of its     *)
(* signal, and the slot of the socket notifier that reads it in the event  *)
(* loop and emits Raised().  All but the handler runs in the main thread;  *)
(* the handler runs in whatever thread the signal is delivered to.         *)
(***************************************************************************)
EXTENDS Naturals, Sequences

CONSTANTS
    Sigs,               \* the signals
    Pairs,              \* socket pairs: two descriptors, reused when closed
    NoPair, NoSig,
    BufferSize,         \* bytes a socket buffers
    MaxCaught           \* bound: signals caught

ASSUME NothingAssumption == NoPair \notin Pairs /\ NoSig \notin Sigs
ASSUME BoundsAssumption == BufferSize \in Nat \ {0} /\ MaxCaught \in Nat

VARIABLES
    socketPair,         \* socketPair[s]: socketPairs_[s - 1]
    buffer,             \* buffer[p]: what is written to p and not read
    socketNotifier,     \* socketNotifier[s]: socketNotifiers_[s - 1] is not NULL
    handled,            \* handled[s]: the action of s is PosixSignalHandler
    main,               \* "idle", or inside "Watch" or "Unwatch" ...
    sig,                \* ... of this signal
    handlerSig,         \* the signal a handler in another thread runs for
    handlerPair,        \* ... and the pair it is going to write to
    slot,               \* the signal for which slots connected to Raised() run
    caught,             \* number of signals caught
    leaked,             \* signals whose Watch() ended with bad_alloc
    owed                \* owed[s]: s was caught and Raised(s) not emitted since

mainVars == <<main, sig>>
handlerVars == <<handlerSig, handlerPair>>
vars == <<socketPair, buffer, socketNotifier, handled, mainVars, handlerVars,
          slot, caught, leaked, owed>>
-----------------------------------------------------------------------------
Init ==
    /\ socketPair = [s \in Sigs |-> NoPair]
    /\ buffer = [p \in Pairs |-> <<>>]
    /\ socketNotifier = [s \in Sigs |-> FALSE]
    /\ handled = [s \in Sigs |-> FALSE]
    /\ main = "idle" /\ sig = NoSig
    /\ handlerSig = NoSig /\ handlerPair = NoPair
    /\ slot = NoSig
    /\ caught = 0
    /\ leaked = {}
    /\ owed = [s \in Sigs |-> FALSE]

IsWatched(s) == socketNotifier[s]

\* SocketPair(): a pair of descriptors that are not in use, for a signal that
\* has none (Watch() asserts it).
OpenSocketPair(s) ==
    /\ socketPair[s] = NoPair
    /\ \E p \in Pairs :
        /\ \A t \in Sigs : socketPair[t] # p
        /\ socketPair' = [socketPair EXCEPT ![s] = p]
        /\ buffer' = [buffer EXCEPT ![p] = <<>>]

\* Watch(): the socket pair and the notifier.  A failure to make or to set up
\* the sockets returns false with everything as it was.
Watch(s) ==
    /\ main = "idle" /\ ~IsWatched(s)
    /\ OpenSocketPair(s)
    /\ socketNotifier' = [socketNotifier EXCEPT ![s] = TRUE]
    /\ main' = "Watch" /\ sig' = s
    /\ UNCHANGED <<handled, handlerVars, slot, caught, owed, leaked>>

\* new QSocketNotifier throws bad_alloc, which Watch() does not catch.
WatchThrows(s) ==
    /\ main = "idle" /\ ~IsWatched(s)
    /\ OpenSocketPair(s)
    /\ leaked' = leaked \cup {s}
    /\ UNCHANGED <<socketNotifier, handled, mainVars, handlerVars, slot,
                   caught, owed>>

\* What was not read is lost.
CloseSocketPair(s) ==
    /\ socketPair' = [socketPair EXCEPT ![s] = NoPair]
    /\ owed' = [owed EXCEPT ![s] = FALSE]

\* Mutant: when sigaction() fails the notifier stays.
WatchAction_KeepsNotifier ==
    /\ main = "Watch"
    /\ \/ /\ handled' = [handled EXCEPT ![sig] = TRUE]
          /\ UNCHANGED <<socketPair, owed>>
       \/ /\ CloseSocketPair(sig)
          /\ UNCHANGED handled
    /\ main' = "idle" /\ sig' = NoSig
    /\ UNCHANGED <<buffer, socketNotifier, handlerVars, slot, caught, leaked>>

\* ... and sigaction(), or what undoes it all when that fails.
WatchAction ==
    /\ main = "Watch"
    /\ \/ /\ handled' = [handled EXCEPT ![sig] = TRUE]
          /\ UNCHANGED <<socketPair, socketNotifier, owed>>
       \/ /\ socketNotifier' = [socketNotifier EXCEPT ![sig] = FALSE]
          /\ CloseSocketPair(sig)
          /\ UNCHANGED handled
    /\ main' = "idle" /\ sig' = NoSig
    /\ UNCHANGED <<buffer, handlerVars, slot, caught, leaked>>

\* Mutant: the sockets are closed before the old action is restored.
Unwatch_ClosesFirst(s) ==
    /\ main = "idle" /\ IsWatched(s)
    /\ CloseSocketPair(s)
    /\ main' = "Unwatch" /\ sig' = s
    /\ UNCHANGED <<buffer, socketNotifier, handled, handlerVars, slot,
                   caught, leaked>>

\* Unwatch(): the old action is restored ...
Unwatch(s) ==
    /\ main = "idle" /\ IsWatched(s)
    /\ handled' = [handled EXCEPT ![s] = FALSE]
    /\ main' = "Unwatch" /\ sig' = s
    /\ UNCHANGED <<socketPair, buffer, socketNotifier, handlerVars, slot,
                   caught, owed, leaked>>

\* ... the notifier deleted and the sockets closed.
UnwatchClose ==
    /\ main = "Unwatch"
    /\ socketNotifier' = [socketNotifier EXCEPT ![sig] = FALSE]
    /\ CloseSocketPair(sig)
    /\ main' = "idle" /\ sig' = NoSig
    /\ UNCHANGED <<buffer, handled, handlerVars, slot, caught, leaked>>
-----------------------------------------------------------------------------
\* What a caught signal is owed: Raised(s), as long as s stays watched.
Owes(s, p) ==
    owed' = [owed EXCEPT ![s] = @ \/ (IsWatched(s) /\ socketPair[s] = p)]

\* write() of PosixSignalHandler(): the socket does not block, and a full one
\* drops the byte.  A descriptor that was closed meanwhile takes nothing; one
\* that was reused is now the socket of another signal.
Write(s, p) ==
    LET accepts == (\E t \in Sigs : socketPair[t] = p) /\ Len(buffer[p]) < BufferSize
    IN  /\ buffer' = [buffer EXCEPT ![p] = IF accepts THEN Append(@, s) ELSE @]
        /\ Owes(s, p)

\* The handler runs in the main thread, which it interrupts anywhere.
PosixSignalHandler(s) ==
    /\ handled[s] /\ caught < MaxCaught
    /\ caught' = caught + 1
    /\ Write(s, socketPair[s])
    /\ UNCHANGED <<socketPair, socketNotifier, handled, mainVars, handlerVars, slot, leaked>>

\* The handler runs in another thread: it is entered ...
HandlerEnter(s) ==
    /\ handlerSig = NoSig
    /\ handled[s] /\ caught < MaxCaught
    /\ caught' = caught + 1
    /\ handlerSig' = s
    /\ UNCHANGED <<socketPair, buffer, socketNotifier, handled, mainVars,
                   handlerPair, slot, owed, leaked>>

\* ... gets the socket from socketPairs_ (an invalid one fails the assertion,
\* or in a release build the write does) ...
HandlerSocket ==
    /\ handlerSig # NoSig /\ handlerPair = NoPair
    /\ handlerPair' = socketPair[handlerSig]
    /\ handlerSig' = IF handlerPair' = NoPair THEN NoSig ELSE handlerSig
    /\ UNCHANGED <<socketPair, buffer, socketNotifier, handled, mainVars, slot,
                   caught, owed, leaked>>

\* ... and writes.
HandlerWrite ==
    /\ handlerPair # NoPair
    /\ Write(handlerSig, handlerPair)
    /\ handlerSig' = NoSig /\ handlerPair' = NoPair
    /\ UNCHANGED <<socketPair, socketNotifier, handled, mainVars, slot, caught, leaked>>
-----------------------------------------------------------------------------
Readable(s) == IsWatched(s) /\ buffer[socketPair[s]] # <<>>

\* Mutant: QtSignalHandler() does not find the signal of its socket.
QtSignalHandler_NotFound(s) ==
    /\ main = "idle" /\ slot = NoSig
    /\ Readable(s)
    /\ UNCHANGED vars

\* QtSignalHandler(), in the event loop: one byte is read and Raised() emitted.
QtSignalHandler(s) ==
    /\ main = "idle" /\ slot = NoSig
    /\ Readable(s)
    /\ buffer' = [buffer EXCEPT ![socketPair[s]] = Tail(@)]
    /\ slot' = s
    /\ owed' = [owed EXCEPT ![s] = FALSE]
    /\ UNCHANGED <<socketPair, socketNotifier, handled, mainVars, handlerVars, caught, leaked>>

\* Mutant: what arrived while the slots ran counts as handled.
SlotsReturn_Drain ==
    /\ main = "idle" /\ slot # NoSig
    /\ slot' = NoSig
    /\ buffer' = [p \in Pairs |-> IF p = socketPair[slot] THEN <<>> ELSE buffer[p]]
    /\ UNCHANGED <<socketPair, socketNotifier, handled, mainVars, handlerVars,
                   caught, owed, leaked>>

\* The slots connected to Raised(), which may watch and unwatch, return.
SlotsReturn ==
    /\ main = "idle" /\ slot # NoSig
    /\ slot' = NoSig
    /\ UNCHANGED <<socketPair, buffer, socketNotifier, handled, mainVars,
                   handlerVars, caught, owed, leaked>>

Next ==
    \/ \E s \in Sigs : Watch(s) \/ WatchThrows(s) \/ Unwatch(s)
                            \/ QtSignalHandler(s)
                            \/ PosixSignalHandler(s) \/ HandlerEnter(s)
    \/ WatchAction \/ UnwatchClose \/ SlotsReturn
    \/ HandlerSocket \/ HandlerWrite

Spec == Init /\ [][Next]_vars
-----------------------------------------------------------------------------
TypeOK ==
    /\ socketPair \in [Sigs -> Pairs \cup {NoPair}]
    /\ buffer \in [Pairs -> Seq(Sigs)]
    /\ \A p \in Pairs : Len(buffer[p]) <= BufferSize
    /\ socketNotifier \in [Sigs -> BOOLEAN]
    /\ handled \in [Sigs -> BOOLEAN]
    /\ main \in {"idle", "Watch", "Unwatch"}
    /\ sig \in Sigs \cup {NoSig} /\ (sig = NoSig <=> main = "idle")
    /\ {handlerSig, slot} \subseteq Sigs \cup {NoSig}
    /\ handlerPair \in Pairs \cup {NoPair}
    /\ caught \in 0..MaxCaught
    /\ leaked \subseteq Sigs
    /\ owed \in [Sigs -> BOOLEAN]

\* Types apart: the assertion of IsWatched(), a signal has a notifier and a socket pair or
\* neither; between operations it has the handler, too, exactly then.  A Watch()
\* that ran out of memory is the exception.
AllOrNothing ==
    /\ TypeOK
    /\ main = "idle" => \A s \in Sigs \ leaked :
        /\ socketNotifier[s] = (socketPair[s] # NoPair)
        /\ handled[s] = socketNotifier[s]

\* The socket pair of a signal is open as long as the handler is installed, in
\* the middle of Watch() and Unwatch(), too: the signal may come at any time.
HandledHasSocket == \A s \in Sigs : handled[s] => socketPair[s] # NoPair

\* The assertion of QtSignalHandler(): the bytes of a socket are its signal's.
BytesMatch == \A s \in Sigs : socketPair[s] # NoPair =>
    \A i \in DOMAIN buffer[socketPair[s]] : buffer[socketPair[s]][i] = s

\* A signal that was caught and not reported since can be read from its socket,
\* also when a full socket dropped the byte.
NoSignalLost == \A s \in Sigs :
    owed[s] /\ handled[s] => buffer[socketPair[s]] # <<>>
=============================================================================
