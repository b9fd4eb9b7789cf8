--------------------------- MODULE TimedCalls_proofs ---------------------------
(* Proofs about TimedCalls, for all timeouts and any slice, second and int.  *)
EXTENDS TimedCalls, TLAPS

\* Division and remainder, of any integer.
LEMMA Division ==
    ASSUME NEW n \in Int, NEW d \in Nat \ {0}
    PROVE  /\ n \div d \in Int /\ n % d \in 0..(d - 1)
           /\ n = d * (n \div d) + (n % d)
OBVIOUS

LEMMA NoRemainder ==
    ASSUME NEW d \in Nat \ {0}, NEW n \in 0..(d - 1)
    PROVE  n % d = n
OBVIOUS

\* The carry of RelTimeToAbsTime() loses nothing.
LEMMA AbsTimeExact ==
    ASSUME NEW t \in Int, now \in Int
    PROVE  RelTimeToAbsTime(t) = now + t
<1> DEFINE a == now \div Second
           b == now % Second
           c == t \div Second
           e == t % Second
           f == (b + e) \div Second
           g == (b + e) % Second
<1>1. {a, b, c, e, Second} \subseteq Int /\ now = Second * a + b /\ t = Second * c + e
    BY SecondAssumption, Division
<1>2. {f, g} \subseteq Int /\ b + e = Second * f + g
    BY <1>1, SecondAssumption, Division
<1>3. RelTimeToAbsTime(t) = (a + c + f) * Second + g
    BY DEF RelTimeToAbsTime
<1> HIDE DEF a, b, c, e, f, g
<1> DEFINE x == Second * a
           y == Second * c
           z == Second * f
<1>4. (a + c + f) * Second = x + y + z
    BY <1>1, <1>2
<1>5. {x, y, z} \subseteq Int /\ now = x + b /\ t = y + e /\ b + e = z + g
    BY <1>1, <1>2
<1> HIDE DEF x, y, z
<1> QED
    BY <1>1, <1>2, <1>3, <1>4, <1>5

\* Narrowing a value that is an int keeps it, and yields an int in any case.
LEMMA ToIntIsInt ==
    ASSUME NEW n \in Int
    PROVE  ToInt(n) \in -(IntMax + 1)..IntMax
<1> DEFINE k == n + IntMax + 1
           m == 2 * IntMax + 2
<1>1. m \in Nat \ {0} /\ k \in Int
    BY SecondAssumption
<1>2. ToInt(n) = (k % m) - (IntMax + 1)
    BY DEF ToInt
<1>3. k % m \in 0..(m - 1)
    <2> HIDE DEF k, m
    <2> QED
        BY <1>1, Division
<1> DEFINE j == k % m
<1>4. j \in 0..(2 * IntMax + 1)
    BY <1>3, SecondAssumption
<1> HIDE DEF j
<1> QED
    BY <1>2, <1>4, SecondAssumption DEF j

LEMMA ToIntKeepsInts ==
    ASSUME NEW n \in -(IntMax + 1)..IntMax
    PROVE  ToInt(n) = n
<1> DEFINE k == n + IntMax + 1
           m == 2 * IntMax + 2
<1>1. m \in Nat \ {0} /\ k \in 0..(m - 1) /\ n \in Int
    BY SecondAssumption
<1>2. ToInt(n) = (k % m) - (IntMax + 1)
    BY DEF ToInt
<1>3. k % m = k
    <2> HIDE DEF k, m
    <2> QED
        BY <1>1, NoRemainder
<1> QED
    BY <1>1, <1>2, <1>3, SecondAssumption
-----------------------------------------------------------------------------
\* What a call keeps of the timeout the caller asked for, when it is an int.
AskedKept == asked \in -(IntMax + 1)..IntMax =>
    /\ relTime > 0 <=> asked > 0
    /\ call = "TimedMutex" /\ asked > 0 => relTime = asked
    /\ call = "ConditionVariable" => relTime = asked

\* Nothing has passed before the wait, which then ends WaitTime after the start.
WaitKept ==
    /\ pc = "test" => now = start \/ occurred
    /\ pc = "asleep" => now <= wakeAt /\ wakeAt = start + WaitTime

\* The timer of SleepFor is a slice ahead of what it has slept, which has not
\* come within a slice of the end.
SleepKept ==
    /\ relTime >= 0
    /\ pc = "test" => now = start /\ slept = 0
    /\ pc = "asleep" /\ relTime = 0 => now = start /\ wakeAt = start
    /\ pc = "asleep" /\ relTime # 0 =>
        /\ now <= wakeAt /\ wakeAt = start + slept + CheckRelTime
        /\ slept = 0 \/ slept + CheckRelTime < relTime

TimesKept ==
    /\ AskedKept
    /\ call = "Sleep" => SleepKept
    /\ call # "Sleep" => WaitKept

TimedOut == Returned /\ result = "false" => Elapsed = WaitTime

Threw == Returned /\ result = "throws" =>
    call = "ConditionVariable" /\ relTime < 0 /\ (-relTime) % Second # 0

TInv == TypeOK /\ TimesKept /\ SleepsToTheSlice /\ TimedOut /\ Threw

\* What the absolute forms pass on is an int, and agrees with what was asked for
\* when that is one.
LEMMA UntilKept ==
    ASSUME NEW c \in Calls, NEW s \in AbsTimes
    PROVE  /\ UntilRelTime(c, s) \in -(IntMax + 1)..IntMax
           /\ s * Second \in Int
           /\ s * Second \in -(IntMax + 1)..IntMax =>
                /\ UntilRelTime(c, s) > 0 <=> s * Second > 0
                /\ c = "TimedMutex" /\ s * Second > 0 => UntilRelTime(c, s) = s * Second
                /\ c = "ConditionVariable" => UntilRelTime(c, s) = s * Second
<1> DEFINE p == s * Second
<1>1. /\ s \in Int /\ Second \in Nat \ {0} /\ IntMax \in Nat /\ p \in Int
      /\ s <= 0 => p <= 0
      /\ s > 0 => p >= s
    <2>1. s \in Int /\ Second \in Nat \ {0} /\ IntMax \in Nat
        BY TimesAssumption, SecondAssumption
    <2>2. CASE s <= 0
        BY <2>1, <2>2
    <2>3. CASE s > 0
        BY <2>1, <2>3
    <2> QED
        BY <2>1, <2>2, <2>3
<1>2. UntilRelTime(c, s) = CASE c \in {"Semaphore", "Thread", "TimedMutex"} /\ s <= 0 -> 0
                             [] c = "Thread" /\ s > 0 -> ToInt(s)
                             [] OTHER -> ToInt(p)
    BY DEF UntilRelTime
<1> HIDE DEF p
<1>3. CASE c \in {"Semaphore", "Thread", "TimedMutex"} /\ s <= 0
    BY <1>1, <1>2, <1>3 DEF p
<1>4. CASE c = "Thread" /\ s > 0
    <2>1. UntilRelTime(c, s) = ToInt(s) /\ ToInt(s) \in -(IntMax + 1)..IntMax
        BY <1>1, <1>2, <1>4, ToIntIsInt
    <2>2. p \in -(IntMax + 1)..IntMax => s \in -(IntMax + 1)..IntMax
        BY <1>1, <1>4
    <2>3. p \in -(IntMax + 1)..IntMax => UntilRelTime(c, s) = s
        BY <2>1, <2>2, ToIntKeepsInts
    <2> QED
        BY <1>1, <1>4, <2>1, <2>3 DEF p
<1>5. CASE ~(c \in {"Semaphore", "Thread", "TimedMutex"} /\ s <= 0) /\ ~(c = "Thread" /\ s > 0)
    <2>1. UntilRelTime(c, s) = ToInt(p)
        BY <1>2, <1>5
    <2>2. ToInt(p) \in -(IntMax + 1)..IntMax
        BY <1>1, ToIntIsInt
    <2>3. p \in -(IntMax + 1)..IntMax => UntilRelTime(c, s) = p
        BY <2>1, ToIntKeepsInts
    <2> QED
        BY <1>1, <2>1, <2>2, <2>3 DEF p
<1> QED
    BY <1>3, <1>4, <1>5

\* A call begins: its clock starts, and what it keeps is what it was given.
LEMMA BeginKeeps ==
    ASSUME TInv, Begin, call' \in Calls, asked' \in Int,
           relTime' \in -(IntMax + 1)..IntMax,
           call' = "Sleep" => relTime' >= 0,
           AskedKept'
    PROVE  TInv'
<1>1. start' \in Nat /\ now' = start' /\ slept' = 0 /\ wakeAt' = 0
    BY SecondAssumption DEF Begin
<1>2. pc' = "test" /\ result' = "none" /\ occurred' \in BOOLEAN
    BY DEF Begin
<1>3. TypeOK'
    BY <1>1, <1>2 DEF TypeOK
<1> QED
    BY <1>1, <1>2, <1>3 DEF TInv, TimesKept, SleepKept, WaitKept, SleepsToTheSlice, TimedOut, Threw,
        Returned

LEMMA InitTInv == Init => TInv
<1> SUFFICES ASSUME Init
             PROVE  TInv
    OBVIOUS
<1>1. TypeOK
    <2>1. 0 \in -(IntMax + 1)..IntMax /\ {now, start, slept, wakeAt} = {0}
        BY SecondAssumption DEF Init
    <2>2. relTime \in -(IntMax + 1)..IntMax
        BY <2>1 DEF Init
    <2>3. {now, start, slept, wakeAt} \subseteq Nat
        BY <2>1
    <2>4. asked \in Int /\ pc \in {"idle", "test", "asleep"}
        BY DEF Init
    <2>5. occurred = FALSE
        BY DEF Init
    <2>6. call \in Calls /\ result \in {"none", "true", "false", "slept", "throws"}
        BY DEF Init, Calls
    <2> QED
        BY <2>2, <2>3, <2>4, <2>5, <2>6 DEF TypeOK
<1>2. TimesKept
    BY DEF Init, TimesKept, AskedKept, SleepKept
<1>3. SleepsToTheSlice /\ TimedOut /\ Threw
    BY <1>1 DEF Init, SleepsToTheSlice, TimedOut, Threw
<1> QED
    BY <1>1, <1>2, <1>3 DEF TInv

LEMMA NextTInv == TInv /\ [Next]_vars => TInv'
<1> SUFFICES ASSUME TInv, [Next]_vars
             PROVE  TInv'
    OBVIOUS
<1> USE SecondAssumption, CheckRelTimeAssumption
<1>0. TypeOK /\ AskedKept
    BY DEF TInv, TimesKept
<1> USE DEF TypeOK, Returned, Elapsed
<1>1. CASE CallFor
    <2> PICK c \in Calls, t \in RelTimes : 
            (c = "Sleep" => t >= 0) /\ call' = c /\ asked' = t /\ relTime' = t
        BY <1>1 DEF CallFor
    <2>1. t \in -(IntMax + 1)..IntMax
        BY TimesAssumption
    <2>2. AskedKept'
        BY <2>1 DEF AskedKept
    <2> QED
        BY <1>1, <2>1, <2>2, BeginKeeps DEF CallFor
<1>2. CASE CallUntil
    <2> PICK c \in Calls, s \in AbsTimes :
            /\ c = "Sleep" => s >= 0 /\ UntilRelTime(c, s) >= 0
            /\ call' = c /\ asked' = s * Second /\ relTime' = UntilRelTime(c, s)
        BY <1>2 DEF CallUntil
    <2>1. AskedKept'
        BY UntilKept DEF AskedKept
    <2>2. asked' \in Int /\ relTime' \in -(IntMax + 1)..IntMax
        BY UntilKept
    <2> QED
        BY <1>2, <2>1, <2>2, BeginKeeps DEF CallUntil
<1>3. CASE TestEvent
    <2>1. call # "Sleep" /\ pc = "test" /\ UNCHANGED <<now, start, occurred, call, asked, relTime, slept>>
        BY <1>3 DEF TestEvent
    <2>2. AskedKept' /\ WaitTime' = WaitTime
        BY <1>0, <2>1 DEF AskedKept, WaitTime
    <2>3. now = start \/ occurred
        BY <2>1 DEF TInv, TimesKept, WaitKept
    <2>4. CASE occurred
        BY <1>0, <1>3, <2>1, <2>2, <2>4
           DEF TestEvent, Return, TInv, TimesKept, WaitKept, SleepsToTheSlice, TimedOut, Threw
    <2>5. CASE ~occurred /\ relTime <= 0 /\ call # "ConditionVariable"
        <3>1. pc' = "idle" /\ result' = "false" /\ wakeAt' = wakeAt /\ WaitTime = 0
            BY <1>0, <1>3, <2>5 DEF TestEvent, Return, WaitTime
        <3> QED
            BY <1>0, <2>1, <2>2, <2>3, <2>5, <3>1
               DEF TInv, TimesKept, WaitKept, SleepsToTheSlice, TimedOut, Threw
    <2>6. CASE ~occurred /\ call = "ConditionVariable" /\ Refused(relTime)
        <3>1. pc' = "idle" /\ result' = "throws" /\ wakeAt' = wakeAt
            BY <1>3, <2>6 DEF TestEvent, Return
        <3>2. relTime < 0 /\ (-relTime) % Second # 0
            <4> HIDE DEF TypeOK
            <4>1. now \in Int /\ relTime \in Int
                BY <1>0 DEF TypeOK
            <4>2. now % Second >= 0
                BY <4>1, Division
            <4> QED
                BY <2>6, <4>1, <4>2, Division DEF Refused
        <3> QED
            BY <1>0, <2>1, <2>2, <2>6, <3>1, <3>2
               DEF TInv, TimesKept, WaitKept, SleepsToTheSlice, TimedOut, Threw
    <2>7. CASE /\ ~occurred /\ ~(relTime <= 0 /\ call # "ConditionVariable")
               /\ ~Refused(relTime)
        <3>1. pc' = "asleep" /\ wakeAt' = RelTimeToAbsTime(WaitTime) /\ result' = result
            BY <1>3, <2>7 DEF TestEvent
        <3>2. WaitTime \in Nat
            BY <1>0 DEF WaitTime
        <3>3. wakeAt' = now + WaitTime
            <4> HIDE DEF TypeOK
            <4>1. now \in Int
                BY <1>0 DEF TypeOK
            <4> QED
                BY <3>1, <3>2, <4>1, AbsTimeExact
        <3> QED
            BY <1>0, <2>1, <2>2, <2>3, <2>7, <3>1, <3>2, <3>3
               DEF TInv, TimesKept, WaitKept, SleepsToTheSlice, TimedOut, Threw
    <2>8. Refused(relTime) => relTime <= 0
        BY <1>0 DEF Refused
    <2> QED
        BY <2>4, <2>5, <2>6, <2>7, <2>8
<1>4. CASE EventWakes
    BY <1>0, <1>4 DEF EventWakes, TInv, TimesKept, AskedKept, WaitKept, SleepsToTheSlice, TimedOut, Threw
<1>5. CASE WaitTimesOut \/ LockTimesOut
    <2>1. /\ call # "Sleep" /\ pc = "asleep" /\ now >= wakeAt
          /\ UNCHANGED <<now, start, occurred, call, asked, relTime, slept, wakeAt>>
          /\ pc' = "idle" /\ result' \in {"true", "false"}
        BY <1>5 DEF WaitTimesOut, LockTimesOut, Return, Waits
    <2>2. AskedKept' /\ WaitTime' = WaitTime /\ WaitTime \in Nat
        BY <1>0, <2>1 DEF AskedKept, WaitTime
    <2>3. now = start + WaitTime
        BY <1>0, <2>1, <2>2 DEF TInv, TimesKept, WaitKept
    <2> QED
        BY <1>0, <2>1, <2>2, <2>3 DEF TInv, TimesKept, WaitKept, SleepsToTheSlice, TimedOut, Threw
<1>6. CASE SleepBegins
    BY <1>0, <1>6
       DEF SleepBegins, TInv, TimesKept, AskedKept, SleepKept, SleepsToTheSlice, TimedOut, Threw
<1>7. CASE SleepWakes
    <2>1. /\ call = "Sleep" /\ pc = "asleep" /\ now >= wakeAt
          /\ UNCHANGED <<now, start, occurred, call, asked, relTime>>
        BY <1>7 DEF SleepWakes
    <2>2. AskedKept' /\ SleepKept
        BY <1>0, <2>1 DEF AskedKept, TInv, TimesKept
    <2>3. CASE relTime = 0
        <3>1. pc' = "idle" /\ result' = "slept" /\ UNCHANGED <<slept, wakeAt>>
            BY <1>7, <2>3 DEF SleepWakes, Return
        <3> QED
            BY <1>0, <2>1, <2>2, <2>3, <3>1
               DEF TInv, TimesKept, SleepKept, SleepsToTheSlice, TimedOut, Threw
    <2>4. CASE relTime # 0 /\ slept' + CheckRelTime < relTime
        <3>1. slept' = slept + CheckRelTime /\ wakeAt' = now + CheckRelTime /\ UNCHANGED <<pc, result>>
            BY <1>7, <2>4 DEF SleepWakes, SleepGoesOn
        <3> QED
            BY <1>0, <2>1, <2>2, <2>4, <3>1
               DEF TInv, TimesKept, SleepKept, SleepsToTheSlice, TimedOut, Threw
    <2>5. CASE relTime # 0 /\ ~(slept' + CheckRelTime < relTime)
        <3>1. slept' = slept + CheckRelTime /\ wakeAt' = wakeAt /\ pc' = "idle" /\ result' = "slept"
            BY <1>7, <2>5 DEF SleepWakes, SleepGoesOn, Return
        <3> QED
            BY <1>0, <2>1, <2>2, <2>5, <3>1
               DEF TInv, TimesKept, SleepKept, SleepsToTheSlice, TimedOut, Threw
    <2> QED
        BY <2>3, <2>4, <2>5
<1>8. CASE Tick
    <2>1. WaitTime' = WaitTime
        BY <1>8 DEF Tick, WaitTime
    <2> QED
        BY <1>0, <1>8, <2>1
           DEF Tick, TInv, TimesKept, AskedKept, WaitKept, SleepKept, SleepsToTheSlice, TimedOut, Threw
<1>9. CASE Occurs
    <2>1. WaitTime' = WaitTime
        BY <1>9 DEF Occurs, WaitTime
    <2> QED
        BY <1>0, <1>9, <2>1
           DEF Occurs, TInv, TimesKept, AskedKept, WaitKept, SleepKept, SleepsToTheSlice, TimedOut, Threw
<1>10. CASE UNCHANGED vars
    <2>1. WaitTime' = WaitTime
        BY <1>10 DEF vars, WaitTime
    <2> QED
        BY <1>0, <1>10, <2>1
           DEF vars, TInv, TimesKept, AskedKept, WaitKept, SleepKept, SleepsToTheSlice, TimedOut, Threw
<1> QED
    BY <1>1, <1>2, <1>3, <1>4, <1>5, <1>6, <1>7, <1>8, <1>9, <1>10 DEF Next

LEMMA TInvHolds == Spec => []TInv
BY InitTInv, NextTInv, PTL DEF Spec

\* SleepFor() sleeps to the slice whatever it is given, with any slice.
THEOREM SleepIsWholeSlices == Spec => []SleepsToTheSlice
<1>1. TInv => SleepsToTheSlice
    BY DEF TInv
<1> QED
    BY <1>1, TInvHolds, PTL

\* A wait that times out has waited for what the code makes of its timeout, for
\* all timeouts that are an int in milliseconds.
THEOREM WaitIsWhatWasBuilt == Spec => []TimesOutAsBuilt
<1>1. TInv => TimesOutAsBuilt
    <2> SUFFICES ASSUME TInv, Returned, asked \in -(IntMax + 1)..IntMax
                 PROVE  /\ result = "false" =>
                            Elapsed = CASE asked <= 0 -> 0
                                        [] asked > 0 /\ call = "TimedMutex" -> asked
                                        [] OTHER -> CheckRelTime
                        /\ result = "throws" => /\ call = "ConditionVariable" /\ asked < 0
                                                 /\ (-asked) % Second # 0
        BY DEF TimesOutAsBuilt
    <2>1. result = "false" => Elapsed = WaitTime
        BY DEF TInv, TimedOut
    <2>2. /\ relTime > 0 <=> asked > 0
          /\ call = "TimedMutex" /\ asked > 0 => relTime = asked
          /\ call = "ConditionVariable" => relTime = asked
        BY DEF TInv, TimesKept, AskedKept
    <2>3. relTime \in Int /\ asked \in Int
        BY SecondAssumption DEF TInv, TypeOK
    <2>4. result = "false" => Elapsed = CASE asked <= 0 -> 0
                                    [] asked > 0 /\ call = "TimedMutex" -> asked
                                    [] OTHER -> CheckRelTime
        BY <2>1, <2>2, <2>3 DEF WaitTime
    <2>5. result = "throws" => call = "ConditionVariable" /\ asked < 0 /\ (-asked) % Second # 0
        BY <2>2 DEF TInv, Threw
    <2> QED
        BY <2>4, <2>5
<1> QED
    BY <1>1, TInvHolds, PTL

\* No wait that ends with its event having occurred reports a timeout.
THEOREM TimeoutIsRechecked == Spec => TimeoutRechecked
<1>1. [Next]_vars => [pc = "asleep" /\ call \in Waits /\ pc' = "idle" /\ result' = "false"
                        => ~occurred]_vars
    <2> SUFFICES ASSUME [Next]_vars, pc = "asleep", call \in Waits, pc' = "idle", result' = "false"
                 PROVE  ~occurred
        OBVIOUS
    <2>1. WaitTimesOut
        BY DEF Next, CallFor, CallUntil, Begin, TestEvent, EventWakes, LockTimesOut, SleepBegins,
               SleepWakes, Tick, Occurs, Waits, vars
    <2> QED
        BY <2>1 DEF WaitTimesOut, Return
<1> QED
    BY <1>1, PTL DEF Spec, TimeoutRechecked
=============================================================================
