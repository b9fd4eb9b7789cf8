------------------------------ MODULE TimedCalls ------------------------------
(***************************************************************************)
(* What the timed calls do with their timeout when thread interruption is  *)
(* enabled: SleepFor and SleepUntil (thread_unx.cpp, thread.cpp),          *)
(* ConditionVariable::WaitFor and WaitUntil with a predicate, Semaphore::  *)
(* WaitFor and WaitUntil, Thread::TryJoinFor and TryJoinUntil; and those   *)
(* of TimedMutex::TryLockFor and TryLockUntil (mutex_pthread.cpp), which   *)
(* nothing interrupts.  One thread calls, the clock ticks in milliseconds, *)
(* and the event waited for (the predicate, a permit, the end of the       *)
(* child, the mutex being free) occurs at any time.                        *)
(*                                                                         *)
(* Timers fire on time and nothing else wakes the thread, so what is shown *)
(* of early returns is the best the caller can hope for.                   *)
(***************************************************************************)
EXTENDS Integers

CONSTANTS
    CheckRelTime,       \* CPPDEVTK_CHECK_INTERRUPT_REL_TIME, in milliseconds
    Second,             \* milliseconds in a second
    IntMax,             \* the largest int
    RelTimes,           \* relative timeouts of the calls, in milliseconds
    AbsTimes            \* absolute timeouts, in seconds from now

ASSUME CheckRelTimeAssumption == CheckRelTime \in Nat \ {0}
ASSUME SecondAssumption == Second \in Nat \ {0} /\ IntMax \in Nat
ASSUME TimesAssumption == RelTimes \subseteq -(IntMax + 1)..IntMax /\ AbsTimes \subseteq Int

Waits == {"ConditionVariable", "Semaphore", "Thread"}
Calls == Waits \cup {"TimedMutex", "Sleep"}

VARIABLES
    now,            \* the clock
    start,          \* ... when the call began
    occurred,       \* the event has occurred
    pc,
    call,           \* what the thread calls
    asked,          \* the timeout the caller asked for, in milliseconds
    relTime,        \* ... and as SleepFor, WaitFor or TryJoinFor got it
    slept,          \* the local of SleepFor
    wakeAt,         \* when the timer the thread sleeps on fires
    result          \* what the call returned

vars == <<now, start, occurred, pc, call, asked, relTime, slept, wakeAt, result>>
-----------------------------------------------------------------------------
Init ==
    /\ now = 0 /\ start = 0
    /\ occurred = FALSE
    /\ pc = "idle"
    /\ call = "Sleep"
    /\ asked = 0
    /\ relTime = 0
    /\ slept = 0
    /\ wakeAt = 0
    /\ result = "none"

\* The event may have occurred before the call, which may come at any part of a
\* second.
Begin ==
    /\ start' \in 0 .. (Second - 1) /\ now' = start'
    /\ occurred' \in BOOLEAN
    /\ slept' = 0
    /\ wakeAt' = 0
    /\ result' = "none"
    /\ pc' = "test"

\* Mutant: the parameter is unsigned.
ToInt_Unsigned(n) == n % (2 * IntMax + 2)

\* A time_t product narrowed to the int parameter.
ToInt(n) == ((n + IntMax + 1) % (2 * IntMax + 2)) - (IntMax + 1)

\* What SleepUntil, WaitUntil, TryJoinUntil and TryLockUntil pass on for
\* kSeconds: all but SleepUntil and the condition variable try once when it is
\* not in the future; Thread forgets the unit.
UntilRelTime(c, seconds) ==
    CASE c \in {"Semaphore", "Thread", "TimedMutex"} /\ seconds <= 0 -> 0
      [] c = "Thread" /\ seconds > 0 -> ToInt(seconds)
      [] OTHER -> ToInt(seconds * Second)

\* A call of SleepFor (relTime >= 0), WaitFor, TryJoinFor or TryLockFor.
CallFor ==
    /\ pc = "idle"
    /\ \E c \in Calls, t \in RelTimes :
        /\ c = "Sleep" => t >= 0
        /\ call' = c
        /\ asked' = t
        /\ relTime' = t
    /\ Begin

\* A call of SleepUntil (absTime not in the past), WaitUntil, TryJoinUntil or
\* TryLockUntil.
CallUntil ==
    /\ pc = "idle"
    /\ \E c \in Calls, s \in AbsTimes :
        /\ c = "Sleep" => s >= 0 /\ UntilRelTime(c, s) >= 0
        /\ call' = c
        /\ asked' = s * Second
        /\ relTime' = UntilRelTime(c, s)
    /\ Begin

Return(r) ==
    /\ result' = r
    /\ pc' = "idle"

\* The absolute time t from now, of whole seconds and a part of one, which is
\* brought below a second.
RelTimeToAbsTime(t) ==
    LET parts == (now % Second) + (t % Second)
        seconds == (now \div Second) + (t \div Second) + (parts \div Second)
    IN  seconds * Second + (parts % Second)

\* A part of a second that is negative is not brought back to one, and pthreads
\* refuses it; the remainder of C++ has the sign of t.
Refused(t) == t < 0 /\ (now % Second) - ((-t) % Second) < 0

\* The one wait of a call: with interruption enabled a positive timeout becomes
\* CheckRelTime, but for the mutex.
WaitTime ==
    CASE relTime <= 0 -> 0
      [] relTime > 0 /\ call = "TimedMutex" -> relTime
      [] OTHER -> CheckRelTime

\* while (!predicate()): true without waiting, or a timed wait.  Semaphore,
\* Thread and the mutex try once when relTime <= 0; ConditionVariable waits for
\* no time at all, or throws the error of pthreads.
TestEvent ==
    /\ pc = "test" /\ call # "Sleep"
    /\ IF occurred
       THEN Return("true") /\ UNCHANGED wakeAt
       ELSE IF relTime <= 0 /\ call # "ConditionVariable"
            THEN Return("false") /\ UNCHANGED wakeAt
            ELSE IF Refused(relTime)
                 THEN Return("throws") /\ UNCHANGED wakeAt
                 ELSE /\ pc' = "asleep"
                      /\ wakeAt' = RelTimeToAbsTime(WaitTime)
                      /\ UNCHANGED result
    /\ UNCHANGED <<now, start, occurred, call, asked, relTime, slept>>

\* The event ends the wait; it is tested again.
EventWakes ==
    /\ pc = "asleep" /\ call # "Sleep"
    /\ occurred
    /\ pc' = "test"
    /\ UNCHANGED <<now, start, occurred, call, asked, relTime, slept, wakeAt, result>>

\* Mutant: a timeout is not double-checked.
WaitTimesOut_Unchecked ==
    /\ pc = "asleep" /\ call \in Waits
    /\ now >= wakeAt
    /\ Return("false")
    /\ UNCHANGED <<now, start, occurred, call, asked, relTime, slept, wakeAt>>

\* pthread_mutex_timedlock() gives up.
LockTimesOut ==
    /\ pc = "asleep" /\ call = "TimedMutex"
    /\ now >= wakeAt
    /\ Return("false")
    /\ UNCHANGED <<now, start, occurred, call, asked, relTime, slept, wakeAt>>

\* cv_status::timeout: the predicate decides the result.
WaitTimesOut ==
    /\ pc = "asleep" /\ call \in Waits
    /\ now >= wakeAt
    /\ Return(IF occurred THEN "true" ELSE "false")
    /\ UNCHANGED <<now, start, occurred, call, asked, relTime, slept, wakeAt>>

\* SleepFor(0) returns at once, any other sleeps once before it tests.
SleepBegins ==
    /\ pc = "test" /\ call = "Sleep"
    /\ pc' = "asleep"
    /\ wakeAt' = now + (IF relTime = 0 THEN 0 ELSE CheckRelTime)
    /\ UNCHANGED <<now, start, occurred, call, asked, relTime, slept, result>>

\* Mutant: the last part of the sleep is always slept whole.
SleepGoesOn_Rounded(total) == total < relTime + CheckRelTime

\* The condition of the do loop of SleepFor.
SleepGoesOn(total) == total + CheckRelTime < relTime

\* do { nanosleep } while of SleepFor.
SleepWakes ==
    /\ pc = "asleep" /\ call = "Sleep"
    /\ now >= wakeAt
    /\ IF relTime = 0
       THEN Return("slept") /\ UNCHANGED <<slept, wakeAt>>
       ELSE /\ slept' = slept + CheckRelTime
            /\ IF SleepGoesOn(slept')
               THEN wakeAt' = now + CheckRelTime /\ UNCHANGED <<pc, result>>
               ELSE Return("slept") /\ UNCHANGED wakeAt
    /\ UNCHANGED <<now, start, occurred, call, asked, relTime>>

\* The clock: a thread that can go on does so before the next tick.
Tick ==
    /\ pc = "asleep" /\ now < wakeAt /\ (call # "Sleep" => ~occurred)
    /\ now' = now + 1
    /\ UNCHANGED <<start, occurred, pc, call, asked, relTime, slept, wakeAt, result>>

Occurs ==
    /\ ~occurred
    /\ occurred' = TRUE
    /\ UNCHANGED <<now, start, pc, call, asked, relTime, slept, wakeAt, result>>

Next ==
    \/ CallFor \/ CallUntil
    \/ TestEvent \/ EventWakes \/ WaitTimesOut \/ LockTimesOut \/ SleepBegins \/ SleepWakes
    \/ Tick \/ Occurs

Spec == Init /\ [][Next]_vars
-----------------------------------------------------------------------------
TypeOK ==
    /\ {now, start, slept, wakeAt} \subseteq Nat
    /\ occurred \in BOOLEAN
    /\ pc \in {"idle", "test", "asleep"}
    /\ call \in Calls
    /\ asked \in Int
    /\ relTime \in -(IntMax + 1)..IntMax
    /\ result \in {"none", "true", "false", "slept", "throws"}

Returned == pc = "idle"

Elapsed == now - start

\* Types apart: SleepFor sleeps a whole number of slices: less than one short of what it was
\* given, and never longer, but for the slice it sleeps at least.
SleepsToTheSlice ==
    /\ TypeOK
    /\ Returned /\ result = "slept" =>
        IF relTime = 0 THEN Elapsed = 0
        ELSE /\ Elapsed + CheckRelTime >= relTime
             /\ Elapsed < relTime \/ Elapsed = CheckRelTime

\* A timed out wait reports the event when it occurred in the meantime, at the
\* end of the timeout, too.
TimeoutRechecked == [][
    pc = "asleep" /\ call \in Waits /\ pc' = "idle" /\ result' = "false" => ~occurred]_vars

\* A wait that reports a timeout lasted one slice, that of a mutex as long as
\* was asked for, and no time when it was not to wait: through every conversion
\* of an absolute time and back, at any part of a second; and the one that may
\* throw is for a time before now that is not a number of seconds; as long as
\* the timeout in milliseconds is an int.
TimesOutAsBuilt == Returned /\ asked \in -(IntMax + 1)..IntMax =>
    /\ result = "false" =>
        Elapsed = CASE asked <= 0 -> 0
                    [] asked > 0 /\ call = "TimedMutex" -> asked
                    [] OTHER -> CheckRelTime
    /\ result = "throws" => call = "ConditionVariable" /\ asked < 0 /\ (-asked) % Second # 0

\* Documentation of relTime: the timeout, in milliseconds.
TimeoutNotEarly == Returned /\ result = "false" /\ relTime = asked => Elapsed >= asked
=============================================================================
