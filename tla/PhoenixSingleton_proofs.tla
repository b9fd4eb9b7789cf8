------------------------ MODULE PhoenixSingleton_proofs ------------------------
(* Proofs about PhoenixSingleton, for any static objects and any order of the *)
(* uses and the destructions.                                                 *)
EXTENDS PhoenixSingleton, SequenceTheorems, TLAPS

In(h, s) == \E i \in 1..Len(s) : s[i] = h

\* What is registered once, and Destroy() is run before the destructor of the
\* local static, which Create() registered before.
Ordered(s) ==
    /\ s \in Seq(Handlers)
    /\ \A h \in {"instance", "Destroy", "mtx"} : \A i, j \in 1..Len(s) :
        s[i] = h /\ s[j] = h => i = j
    /\ \A i, j \in 1..Len(s) : s[i] = "Destroy" /\ s[j] = "instance" => i < j

LEMMA Push ==
    ASSUME NEW s, Ordered(s), NEW h \in Handlers,
           h \in Users \/ ~In(h, s), h = "instance" => ~In("Destroy", s)
    PROVE  /\ Ordered(<<h>> \o s)
           /\ \A k : In(k, <<h>> \o s) <=> k = h \/ In(k, s)
<1> DEFINE t == <<h>> \o s
<1>1. s \in Seq(Handlers) /\ <<h>> \in Seq(Handlers) /\ Len(<<h>>) = 1 /\ <<h>>[1] = h
    BY DEF Ordered
<1>2. /\ t \in Seq(Handlers) /\ Len(t) = Len(s) + 1 /\ Len(s) \in Nat
      /\ t[1] = h
      /\ \A i \in 1..Len(s) : t[i + 1] = s[i]
      /\ \A i \in 2..Len(t) : t[i] = s[i - 1] /\ i - 1 \in 1..Len(s)
    BY <1>1, ConcatProperties
<1> HIDE DEF t
<1>3. \A k : In(k, t) <=> k = h \/ In(k, s)
    <2> TAKE k
    <2>1. ASSUME In(k, t) PROVE k = h \/ In(k, s)
        BY <1>2, <2>1 DEF In
    <2>2. CASE k = h
        BY <1>2, <2>2 DEF In
    <2>3. ASSUME In(k, s) PROVE In(k, t)
        <3> PICK i \in 1..Len(s) : s[i] = k
            BY <2>3 DEF In
        <3>1. i + 1 \in 1..Len(t) /\ t[i + 1] = k
            BY <1>2
        <3> QED
            BY <3>1 DEF In
    <2> QED
        BY <2>1, <2>2, <2>3
<1>4. ASSUME NEW k \in {"instance", "Destroy", "mtx"}, NEW i \in 1..Len(t), NEW j \in 1..Len(t),
             t[i] = k, t[j] = k
      PROVE  i = j
    <2>1. CASE k = h
        <3>1. ~In(h, s)
            BY <2>1, UsersAssumption
        <3> QED
            BY <1>2, <1>4, <2>1, <3>1 DEF In
    <2>2. CASE k # h
        <3>1. i \in 2..Len(t) /\ j \in 2..Len(t)
            BY <1>2, <1>4, <2>2
        <3>2. s[i - 1] = k /\ s[j - 1] = k /\ i - 1 \in 1..Len(s) /\ j - 1 \in 1..Len(s)
            BY <1>2, <1>4, <3>1
        <3>3. i - 1 = j - 1
            BY <3>2 DEF Ordered
        <3> QED
            BY <3>3
    <2> QED
        BY <2>1, <2>2
<1>5. ASSUME NEW i \in 1..Len(t), NEW j \in 1..Len(t), t[i] = "Destroy", t[j] = "instance"
      PROVE  i < j
    <2>1. CASE h = "instance"
        <3>1. i \in 2..Len(t)
            BY <1>2, <1>5, <2>1
        <3> QED
            BY <1>2, <1>5, <2>1, <3>1 DEF In
    <2>2. CASE h # "instance"
        <3>1. j \in 2..Len(t)
            BY <1>2, <1>5, <2>2
        <3>2. CASE i = 1
            BY <3>1, <3>2
        <3>3. CASE i # 1
            <4>1. i \in 2..Len(t)
                BY <1>2, <3>3
            <4>2. s[i - 1] = "Destroy" /\ i - 1 \in 1..Len(s)
                BY <1>2, <1>5, <4>1
            <4>3. s[j - 1] = "instance" /\ j - 1 \in 1..Len(s)
                BY <1>2, <1>5, <3>1
            <4>4. i - 1 < j - 1
                BY <4>2, <4>3 DEF Ordered
            <4> QED
                BY <4>4
        <3> QED
            BY <3>2, <3>3
    <2> QED
        BY <2>1, <2>2
<1>6. Ordered(t)
    BY <1>2, <1>4, <1>5 DEF Ordered
<1> QED
    BY <1>3, <1>6 DEF t

LEMMA Pop ==
    ASSUME NEW s, Ordered(s), s # <<>>
    PROVE  /\ Ordered(Tail(s)) /\ Head(s) \in Handlers
           /\ \A k : In(k, s) <=> k = Head(s) \/ In(k, Tail(s))
           /\ Head(s) \in {"instance", "Destroy", "mtx"} => ~In(Head(s), Tail(s))
           /\ Head(s) = "instance" => ~In("Destroy", Tail(s))
<1> DEFINE t == Tail(s)
           h == Head(s)
<1>1. /\ s \in Seq(Handlers) /\ h \in Handlers /\ t \in Seq(Handlers)
      /\ Len(t) = Len(s) - 1 /\ Len(t) \in Nat /\ s[1] = h
      /\ \A i \in 1..Len(t) : t[i] = s[i + 1]
    BY HeadTailProperties DEF Ordered
<1> HIDE DEF t, h
<1>2. /\ \A i \in 1..Len(t) : i + 1 \in 1..Len(s)
      /\ \A i \in 2..Len(s) : i - 1 \in 1..Len(t) /\ t[i - 1] = s[i]
    BY <1>1
<1>3. \A k : In(k, s) <=> k = h \/ In(k, t)
    <2> TAKE k
    <2>1. ASSUME In(k, s) PROVE k = h \/ In(k, t)
        <3> PICK i \in 1..Len(s) : s[i] = k
            BY <2>1 DEF In
        <3>1. CASE i = 1
            BY <1>1, <3>1
        <3>2. CASE i # 1
            <4>1. i \in 2..Len(s)
                BY <1>1, <3>2
            <4>2. i - 1 \in 1..Len(t) /\ t[i - 1] = k
                BY <1>2, <4>1
            <4> QED
                BY <4>2 DEF In
        <3> QED
            BY <3>1, <3>2
    <2>2. CASE k = h
        <3>1. 1 \in 1..Len(s)
            BY <1>1
        <3> QED
            BY <1>1, <2>2, <3>1 DEF In
    <2>3. ASSUME In(k, t) PROVE In(k, s)
        <3> PICK i \in 1..Len(t) : t[i] = k
            BY <2>3 DEF In
        <3>1. i + 1 \in 1..Len(s) /\ s[i + 1] = k
            BY <1>1, <1>2
        <3> QED
            BY <3>1 DEF In
    <2> QED
        BY <2>1, <2>2, <2>3
<1>4. Ordered(t)
    <2>1. ASSUME NEW k \in {"instance", "Destroy", "mtx"}, NEW i \in 1..Len(t),
                 NEW j \in 1..Len(t), t[i] = k, t[j] = k
          PROVE  i = j
        <3>1. s[i + 1] = k /\ s[j + 1] = k /\ i + 1 \in 1..Len(s) /\ j + 1 \in 1..Len(s)
            BY <1>1, <1>2, <2>1
        <3>2. i + 1 = j + 1
            BY <3>1 DEF Ordered
        <3> QED
            BY <3>2
    <2>2. ASSUME NEW i \in 1..Len(t), NEW j \in 1..Len(t), t[i] = "Destroy", t[j] = "instance"
          PROVE  i < j
        <3>1. /\ s[i + 1] = "Destroy" /\ s[j + 1] = "instance"
              /\ i + 1 \in 1..Len(s) /\ j + 1 \in 1..Len(s)
            BY <1>1, <1>2, <2>2
        <3>2. i + 1 < j + 1
            BY <3>1 DEF Ordered
        <3> QED
            BY <3>2
    <2> QED
        BY <1>1, <2>1, <2>2 DEF Ordered
<1>5. h \in {"instance", "Destroy", "mtx"} => ~In(h, t)
    BY <1>1, <1>2 DEF Ordered, In
<1>6. h = "instance" => ~In("Destroy", t)
    BY <1>1, <1>2 DEF Ordered, In
<1> QED
    BY <1>1, <1>3, <1>4, <1>5, <1>6 DEF t, h
-----------------------------------------------------------------------------
Bit(b) == IF b THEN 1 ELSE 0

I == In("instance", exits)
D == In("Destroy", exits)

\* What is registered is what lives, and the pointer tells whether Destroy() is
\* registered; as long as no constructor threw the two take turns.
Balanced ==
    /\ Ordered(exits)
    /\ lives = Bit(I) + Bit(D)
    /\ I => instanceInit
    /\ D => pInstance
    /\ pInstance => (I \/ D) /\ instanceInit /\ ~destroyed
    /\ instanceInit => pInstance \/ destroyed
    /\ ~threw => /\ destroyed => instanceInit
                 /\ ~pInstance => ~I
                 /\ ~(I /\ D)

PInv ==
    /\ TypeOK
    /\ Balanced
    /\ OneLife /\ ReturnsLive
    /\ phase = "done" => exits = <<>>

LEMMA HandlersDistinct ==
    /\ "instance" \in Handlers /\ "mtx" \in Handlers /\ "Destroy" \in Handlers
    /\ \A u \in Users : u \in Handlers /\ u # "instance" /\ u # "mtx" /\ u # "Destroy"
BY UsersAssumption DEF Handlers

\* Whether the mutex is registered, as TypeOK says.
LEMMA MutexRegistered ==
    ASSUME Ordered(exits)
    PROVE  (\E i \in DOMAIN exits : exits[i] = "mtx") <=> In("mtx", exits)
<1>1. DOMAIN exits = 1..Len(exits)
    BY DEF Ordered
<1> QED
    BY <1>1 DEF In

\* The types and the balance bound the lives.
LEMMA Balance == 
    ASSUME TypeOK, Balanced
    PROVE  OneLife /\ (pInstance => lives > 0)
BY DEF Balanced, Bit, OneLife

\* GetMutexRef() registers the destructor of the mutex once.
LEMMA MutexPushed ==
    ASSUME PInv, mtx # "dead", GetMutexRef, NEW s, s = Registered(<<>>)
    PROVE  /\ Ordered(s)
           /\ In("instance", s) <=> I
           /\ In("Destroy", s) <=> D
           /\ mtx' = "alive" <=> In("mtx", s)
           /\ mtx' \in {"unused", "alive"}
<1>1. Ordered(exits) /\ (mtx = "alive" <=> In("mtx", exits)) /\ mtx \in {"unused", "none", "alive"}
    BY MutexRegistered DEF PInv, Balanced, TypeOK
<1>2. s = IF mtx = "none" THEN <<"mtx">> \o exits ELSE exits
    <2>1. exits \in Seq(Handlers)
        BY <1>1 DEF Ordered
    <2>2. \A r \in Seq(Handlers) : <<>> \o r = r
        OBVIOUS
    <2>3. <<>> \o <<"mtx">> = <<"mtx">> /\ <<>> \o <<>> = <<>>
        OBVIOUS
    <2> QED
        BY <2>1, <2>2, <2>3 DEF Registered
<1>3. CASE mtx = "none"
    <2>1. mtx' = "alive" /\ s = <<"mtx">> \o exits /\ ~In("mtx", exits)
        BY <1>1, <1>2, <1>3 DEF GetMutexRef
    <2>2. "mtx" \in Handlers /\ "mtx" # "instance"
        BY HandlersDistinct
    <2>3. /\ Ordered(<<"mtx">> \o exits)
          /\ \A k : In(k, <<"mtx">> \o exits) <=> k = "mtx" \/ In(k, exits)
        BY <1>1, <2>1, <2>2, Push
    <2>4. /\ Ordered(s)
          /\ \A k : In(k, s) <=> k = "mtx" \/ In(k, exits)
        BY <2>1, <2>3
    <2> QED
        BY <2>1, <2>4 DEF I, D
<1>4. CASE mtx # "none"
    BY <1>1, <1>2, <1>4 DEF GetMutexRef, I, D
<1> QED
    BY <1>3, <1>4
\* What Create() or ReCreate() registers comes before the mutex, to run first.
LEMMA RegisteredFirst ==
    ASSUME exits \in Seq(Handlers), NEW handlers \in Seq(Handlers)
    PROVE  Registered(handlers) = handlers \o Registered(<<>>)
<1> DEFINE m == IF mtx = "none" THEN <<"mtx">> ELSE <<>>
<1>1. m \in Seq(Handlers)
    BY HandlersDistinct
<1>2. Registered(handlers) = handlers \o m \o exits /\ Registered(<<>>) = <<>> \o m \o exits
    BY DEF Registered
<1> HIDE DEF m
<1>3. <<>> \o m = m /\ handlers \o m \o exits = handlers \o (m \o exits)
    BY <1>1
<1> QED
    BY <1>2, <1>3

\* The state after GetInstance(), put together.
LEMMA GetKeeps ==
    ASSUME Balanced', instanceInit' \in BOOLEAN, pInstance' \in BOOLEAN, destroyed' \in BOOLEAN,
           threw' \in BOOLEAN, mtx' \in {"unused", "none", "alive", "dead"},
           mtx' = "alive" <=> In("mtx", exits'),
           returned' \in {"none", "instance", "exception", "deadMutex"},
           phase' \in {"running", "exiting", "inDestructor"},
           returned' = "instance" => lives' > 0
    PROVE  PInv'
<1>1. Ordered(exits') /\ lives' \in Int /\ exits' \in Seq(Handlers)
    BY DEF Balanced, Bit, Ordered
<1>2. DOMAIN exits' = 1..Len(exits')
    BY <1>1
<1>3. {instanceInit, pInstance, destroyed, threw}' \subseteq BOOLEAN
    OBVIOUS
<1>4. TypeOK'
    BY <1>1, <1>2, <1>3 DEF TypeOK, In
<1>5. lives' \in {0, 1} \/ threw'
    BY DEF Balanced, Bit
<1> QED
    BY <1>4, <1>5 DEF PInv, OneLife, ReturnsLive

\* GetInstance() leaves the registrations and the lives in balance.
LEMMA GetInstanceKeeps ==
    ASSUME PInv, GetInstance, phase' \in {"running", "exiting", "inDestructor"}
    PROVE  PInv'
<1>0. /\ Balanced /\ Ordered(exits) /\ exits \in Seq(Handlers)
      /\ instanceInit \in BOOLEAN /\ pInstance \in BOOLEAN /\ destroyed \in BOOLEAN
      /\ threw \in BOOLEAN /\ mtx \in {"unused", "none", "alive", "dead"}
    BY DEF PInv, TypeOK, Balanced, Ordered
<1>1. CASE mtx = "dead"
    <2>1. /\ UNCHANGED <<exits, instanceInit, mtx, pInstance, destroyed, lives, threw>>
          /\ returned' = "deadMutex"
        BY <1>1 DEF GetInstance
    <2>2. Balanced' /\ (mtx' = "alive" <=> In("mtx", exits'))
        BY <1>0, <1>1, <2>1, MutexRegistered DEF Balanced, I, D, PInv, TypeOK
    <2> QED
        BY <1>0, <2>1, <2>2, GetKeeps
<1>2. CASE mtx # "dead"
    <2> DEFINE s == Registered(<<>>)
    <2>0. GetMutexRef /\ (GetExisting \/ Create \/ ReCreate \/ CreateThrows)
        BY <1>2 DEF GetInstance
    <2>1. /\ Ordered(s) /\ s \in Seq(Handlers)
          /\ In("instance", s) <=> I
          /\ In("Destroy", s) <=> D
          /\ mtx' = "alive" <=> In("mtx", s)
          /\ mtx' \in {"unused", "alive"}
        BY <1>2, <2>0, MutexPushed DEF Ordered
    <2>2. \A handlers \in Seq(Handlers) : Registered(handlers) = handlers \o s
        BY <1>0, RegisteredFirst
    <2>3. /\ <<"instance">> \in Seq(Handlers) /\ <<"Destroy">> \in Seq(Handlers)
          /\ <<>> \in Seq(Handlers)
        BY HandlersDistinct
    <2>4. /\ <<>> \o s = s
          /\ <<"Destroy">> \o <<>> = <<"Destroy">>
          /\ <<"Destroy">> \o <<"instance">> \in Seq(Handlers)
          /\ (<<"Destroy">> \o <<"instance">>) \o s = <<"Destroy">> \o (<<"instance">> \o s)
        BY <2>1, <2>3
    <2> HIDE DEF s
    <2>5. CASE GetExisting
        <3>1. /\ exits' = s /\ returned' = "instance" /\ pInstance
              /\ UNCHANGED <<instanceInit, pInstance, destroyed, lives, threw>>
            BY <2>5 DEF GetExisting, s
        <3>2. Balanced' /\ lives' > 0
            BY <1>0, <2>1, <3>1 DEF Balanced, I, D, Bit
        <3> QED
            BY <1>0, <2>1, <3>1, <3>2, GetKeeps
    <2>6. CASE Create
        <3>1. /\ ~instanceInit /\ ~I /\ ~D
            BY <1>0, <2>6 DEF Create, Balanced
        <3>2. /\ exits' = <<"instance">> \o s /\ returned' = "instance" /\ pInstance' = TRUE
              /\ instanceInit' = TRUE /\ lives' = lives + 1
              /\ UNCHANGED <<destroyed, threw>> /\ ~destroyed
            BY <2>2, <2>3, <2>6, <3>1 DEF Create
        <3>3. /\ Ordered(exits')
              /\ \A k : In(k, exits') <=> k = "instance" \/ In(k, s)
            <4>1. "instance" \in Handlers /\ ~In("instance", s) /\ ~In("Destroy", s)
                BY <2>1, <3>1, HandlersDistinct
            <4>2. /\ Ordered(<<"instance">> \o s)
                  /\ \A k : In(k, <<"instance">> \o s) <=> k = "instance" \/ In(k, s)
                BY <2>1, <4>1, Push
            <4> QED
                BY <3>2, <4>2
        <3>4. I' /\ ~D' /\ (mtx' = "alive" <=> In("mtx", exits'))
            BY <2>1, <3>1, <3>3 DEF I, D
        <3>5. Balanced' /\ lives' > 0
            BY <1>0, <3>1, <3>2, <3>3, <3>4 DEF Balanced, Bit
        <3> QED
            BY <1>0, <2>1, <3>2, <3>4, <3>5, GetKeeps
    <2>7. CASE ReCreate
        <3> DEFINE n == IF instanceInit THEN s ELSE <<"instance">> \o s
                   b == lives + (IF instanceInit THEN 0 ELSE 1)
        <3>1. /\ ~pInstance /\ destroyed /\ ~D /\ (~instanceInit => ~I) /\ threw' = threw
              /\ ~threw => instanceInit /\ ~I
            BY <1>0, <2>7 DEF ReCreate, Balanced
        <3>2. /\ Ordered(n) /\ ~In("Destroy", n)
              /\ In("instance", n) <=> I \/ ~instanceInit
              /\ In("mtx", n) <=> mtx' = "alive"
            <4>1. CASE instanceInit
                BY <2>1, <3>1, <4>1
            <4>2. CASE ~instanceInit
                <5>1. "instance" \in Handlers /\ ~In("instance", s) /\ ~In("Destroy", s)
                    BY <2>1, <3>1, <4>2, HandlersDistinct
                <5>2. /\ Ordered(<<"instance">> \o s)
                      /\ \A k : In(k, <<"instance">> \o s) <=> k = "instance" \/ In(k, s)
                    BY <2>1, <5>1, Push
                <5> QED
                    BY <2>1, <4>2, <5>1, <5>2
            <4> QED
                BY <4>1, <4>2
        <3>3. b \in Int /\ b = Bit(I \/ ~instanceInit)
            BY <1>0, <3>1 DEF Balanced, Bit
        <3>4. instanceInit' = TRUE
            BY <2>7 DEF ReCreate
        <3>5. \/ /\ exits' = <<"Destroy">> \o n /\ lives' = b + 1 /\ pInstance' = TRUE
                 /\ destroyed' = FALSE /\ returned' = "instance"
              \/ /\ exits' = n /\ lives' = b /\ returned' = "exception"
                 /\ UNCHANGED <<pInstance, destroyed>>
            BY <2>2, <2>3, <2>4, <2>7 DEF ReCreate
        <3> HIDE DEF n, b
        <3>6. CASE /\ exits' = <<"Destroy">> \o n /\ lives' = b + 1 /\ pInstance' = TRUE
                   /\ destroyed' = FALSE /\ returned' = "instance"
            <4>1. "Destroy" \in Handlers /\ "Destroy" # "instance"
                BY HandlersDistinct
            <4>2. /\ Ordered(<<"Destroy">> \o n)
                  /\ \A k : In(k, <<"Destroy">> \o n) <=> k = "Destroy" \/ In(k, n)
                BY <3>2, <4>1, Push
            <4>3. /\ Ordered(exits') /\ D' /\ (I' <=> I \/ ~instanceInit)
                  /\ mtx' = "alive" <=> In("mtx", exits')
                BY <3>2, <3>6, <4>2 DEF I, D
            <4>4. Balanced' /\ lives' > 0
                BY <1>0, <3>1, <3>3, <3>4, <3>6, <4>3 DEF Balanced, Bit
            <4> QED
                BY <1>0, <2>1, <3>1, <3>4, <3>6, <4>3, <4>4, GetKeeps
        <3>7. CASE /\ exits' = n /\ lives' = b /\ returned' = "exception"
                   /\ UNCHANGED <<pInstance, destroyed>>
            <4>1. /\ Ordered(exits') /\ ~D' /\ (I' <=> I \/ ~instanceInit)
                  /\ mtx' = "alive" <=> In("mtx", exits')
                BY <3>2, <3>7 DEF I, D
            <4>2. Balanced'
                BY <1>0, <3>1, <3>3, <3>4, <3>7, <4>1 DEF Balanced, Bit
            <4> QED
                BY <1>0, <2>1, <3>1, <3>4, <3>7, <4>1, <4>2, GetKeeps
        <3> QED
            BY <3>5, <3>6, <3>7
    <2>8. CASE CreateThrows
        <3>1. /\ exits' = s /\ returned' = "exception" /\ threw' = TRUE /\ destroyed' = TRUE
              /\ ~pInstance /\ UNCHANGED <<instanceInit, pInstance, lives>>
            BY <2>8 DEF CreateThrows, s
        <3>2. Balanced'
            BY <1>0, <2>1, <3>1 DEF Balanced, I, D, Bit
        <3> QED
            BY <1>0, <2>1, <3>1, <3>2, GetKeeps
    <2> QED
        BY <2>0, <2>5, <2>6, <2>7, <2>8
<1> QED
    BY <1>1, <1>2

LEMMA InitPInv == Init => PInv
<1> SUFFICES ASSUME Init
             PROVE  PInv
    OBVIOUS
<1>1. exits = <<>> /\ exits \in Seq(Handlers) /\ Len(exits) = 0 /\ DOMAIN exits = {}
    BY DEF Init
<1>2. Ordered(exits) /\ ~I /\ ~D
    BY <1>1 DEF Ordered, I, D, In
<1>3. TypeOK
    <2>1. {instanceInit, pInstance, destroyed, threw} \subseteq BOOLEAN
        BY DEF Init
    <2> QED
        BY <1>1, <2>1 DEF Init, TypeOK
<1>4. Balanced
    BY <1>2 DEF Init, Balanced, Bit
<1> QED
    BY <1>3, <1>4, Balance DEF Init, PInv, ReturnsLive

\* The first handler runs: what is left of the registrations.
LEMMA HandlerPopped ==
    ASSUME PInv, exits # <<>>, exits' = Tail(exits)
    PROVE  /\ Ordered(exits')
           /\ I <=> Head(exits) = "instance" \/ I'
           /\ D <=> Head(exits) = "Destroy" \/ D'
           /\ In("mtx", exits) <=> Head(exits) = "mtx" \/ In("mtx", exits')
           /\ Head(exits) = "instance" => ~I' /\ ~D'
           /\ Head(exits) = "Destroy" => ~D'
           /\ Head(exits) = "mtx" => ~In("mtx", exits')
<1>1. Ordered(exits)
    BY DEF PInv, Balanced
<1>2. /\ Ordered(Tail(exits))
      /\ \A k : In(k, exits) <=> k = Head(exits) \/ In(k, Tail(exits))
      /\ Head(exits) \in {"instance", "Destroy", "mtx"} => ~In(Head(exits), Tail(exits))
      /\ Head(exits) = "instance" => ~In("Destroy", Tail(exits))
    BY <1>1, Pop
<1> QED
    BY <1>2 DEF I, D

LEMMA NextPInv == PInv /\ [Next]_vars => PInv'
<1> SUFFICES ASSUME PInv, [Next]_vars
             PROVE  PInv'
    OBVIOUS
<1>0. /\ Balanced /\ Ordered(exits) /\ exits \in Seq(Handlers)
      /\ instanceInit \in BOOLEAN /\ pInstance \in BOOLEAN /\ destroyed \in BOOLEAN
      /\ threw \in BOOLEAN /\ mtx \in {"unused", "none", "alive", "dead"}
      /\ mtx = "alive" <=> In("mtx", exits)
    BY MutexRegistered DEF PInv, TypeOK, Balanced, Ordered
<1>1. ASSUME NEW u \in Users, Construct(u)
      PROVE  PInv'
    <2>1. /\ exits' = <<u>> \o exits /\ returned' = "none" /\ phase' = "running"
          /\ UNCHANGED <<instanceInit, mtx, pInstance, destroyed, lives, threw>>
        BY <1>1 DEF Construct
    <2>2. u \in Handlers /\ u # "instance" /\ u # "mtx" /\ u # "Destroy"
        BY HandlersDistinct
    <2>3. /\ Ordered(<<u>> \o exits)
          /\ \A k : In(k, <<u>> \o exits) <=> k = u \/ In(k, exits)
        BY <1>0, <2>2, Push
    <2>4. /\ Ordered(exits') /\ (I' <=> I) /\ (D' <=> D)
          /\ In("mtx", exits') <=> In("mtx", exits)
        BY <2>1, <2>2, <2>3 DEF I, D
    <2>5. Balanced'
        BY <1>0, <2>1, <2>4 DEF Balanced, Bit
    <2> QED
        BY <1>0, <2>1, <2>4, <2>5, GetKeeps
<1>2. CASE Use
    BY <1>2, GetInstanceKeeps DEF Use
<1>3. CASE Exit
    <2>1. /\ phase' = "exiting" /\ returned' = "none"
          /\ UNCHANGED <<exits, instanceInit, mtx, pInstance, destroyed, lives, threw>>
        BY <1>3 DEF Exit
    <2>2. Balanced'
        BY <1>0, <2>1 DEF Balanced, I, D
    <2> QED
        BY <1>0, <2>1, <2>2, GetKeeps
<1>4. CASE DestroyInstance
    <2>1. /\ phase' = "exiting" /\ returned' = "none" /\ Head(exits) \in {"instance", "Destroy"}
          /\ exits # <<>> /\ exits' = Tail(exits)
          /\ UNCHANGED <<instanceInit, mtx, threw>>
          /\ lives' = lives - 1 /\ pInstance' = FALSE /\ destroyed' = TRUE
        BY <1>4 DEF DestroyInstance, EndLife
    <2>2. Balanced' /\ (mtx' = "alive" <=> In("mtx", exits'))
        BY <1>0, <2>1, HandlerPopped DEF Balanced, Bit
    <2> QED
        BY <1>0, <2>1, <2>2, GetKeeps
<1>5. CASE DestroyMutex
    <2>1. /\ phase' = "exiting" /\ returned' = "none" /\ Head(exits) = "mtx"
          /\ exits # <<>> /\ exits' = Tail(exits) /\ mtx' = "dead"
          /\ UNCHANGED <<instanceInit, pInstance, destroyed, lives, threw>>
        BY <1>5 DEF DestroyMutex
    <2>2. Balanced' /\ ~In("mtx", exits')
        BY <1>0, <2>1, HandlerPopped DEF Balanced, Bit
    <2> QED
        BY <1>0, <2>1, <2>2, GetKeeps
<1>6. CASE DestroyUser
    <2>1. /\ phase' = "inDestructor" /\ returned' = "none" /\ Head(exits) \in Users
          /\ exits # <<>> /\ exits' = Tail(exits)
          /\ UNCHANGED <<instanceInit, mtx, pInstance, destroyed, lives, threw>>
        BY <1>6 DEF DestroyUser
    <2>2. Head(exits) # "instance" /\ Head(exits) # "mtx" /\ Head(exits) # "Destroy"
        BY <2>1, HandlersDistinct
    <2>3. Balanced' /\ (mtx' = "alive" <=> In("mtx", exits'))
        BY <1>0, <2>1, <2>2, HandlerPopped DEF Balanced, Bit
    <2> QED
        BY <1>0, <2>1, <2>3, GetKeeps
<1>7. CASE UseInDestructor
    <2>1. phase' = "exiting"
        BY <1>7 DEF UseInDestructor
    <2>2. CASE GetInstance
        BY <2>1, <2>2, GetInstanceKeeps
    <2>3. CASE UNCHANGED <<exits, instanceInit, mtx, pInstance, destroyed, lives, threw, returned>>
        <3>1. Balanced'
            BY <1>0, <2>3 DEF Balanced, I, D
        <3>2. returned' \in {"none", "instance", "exception", "deadMutex"}
            BY <2>3 DEF PInv, TypeOK
        <3>3. returned' = "instance" => lives' > 0
            BY <2>3 DEF PInv, ReturnsLive
        <3> QED
            BY <1>0, <2>1, <2>3, <3>1, <3>2, <3>3, GetKeeps
    <2> QED
        BY <1>7, <2>2, <2>3 DEF UseInDestructor
<1>8. CASE Done
    BY <1>8 DEF Done, PInv, TypeOK, Balanced, I, D, OneLife, ReturnsLive
<1>9. CASE UNCHANGED vars
    BY <1>9 DEF vars, PInv, TypeOK, Balanced, I, D, OneLife, ReturnsLive
<1> QED
    BY <1>1, <1>2, <1>3, <1>4, <1>5, <1>6, <1>7, <1>8, <1>9 DEF Next, Ended

LEMMA PInvHolds == Spec => []PInv
BY InitPInv, NextPInv, PTL DEF Spec

\* Never are there two objects in the storage, nor is one destroyed twice, in
\* whatever order static objects use the singleton, unless a constructor threw.
THEOREM NeverTwoLives == Spec => []OneLife
<1>1. PInv => OneLife
    BY DEF PInv
<1> QED
    BY <1>1, PInvHolds, PTL

\* GetInstance() gives out a live object only, after a constructor threw, too.
THEOREM InstanceIsAlive == Spec => []ReturnsLive
<1>1. PInv => ReturnsLive
    BY DEF PInv
<1> QED
    BY <1>1, PInvHolds, PTL

\* The program ends with every object destroyed.
THEOREM NothingOutlivesExit == Spec => []DestroyedAtEnd
<1>1. PInv => DestroyedAtEnd
    <2> SUFFICES ASSUME PInv, phase = "done"
                 PROVE  lives = 0 /\ ~pInstance
        BY DEF DestroyedAtEnd
    <2>1. Len(exits) = 0
        BY DEF PInv
    <2>2. ~I /\ ~D
        BY <2>1 DEF I, D, In
    <2> QED
        BY <2>2 DEF PInv, Balanced, Bit
<1> QED
    BY <1>1, PInvHolds, PTL
=============================================================================
