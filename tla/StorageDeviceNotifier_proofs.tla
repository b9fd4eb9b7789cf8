----------------------- MODULE StorageDeviceNotifier_proofs -----------------------
(* Proofs about StorageDeviceNotifier, for any devices and number of events. *)
EXTENDS StorageDeviceNotifier, WellFoundedInduction, FiniteSetTheorems, TLAPS

EntryType == [dev : Devices, mounted : BOOLEAN, deleted : BOOLEAN, born : 0..MaxEvents]

AddingType == [dev : Devices, at : {"slots", "connect"}, mounted : BOOLEAN]

AllDeleted == \A i \in DOMAIN list : list[i].deleted
NoneDeleted == \A i \in DOMAIN list : ~list[i].deleted

\* The pointers to deleted devices stay in the list only where the constructor
\* of UDisks1 swallowed an exception, and where the notifier is gone.
PInv ==
    /\ events \in 0..MaxEvents
    /\ list \in Seq(EntryType)
    /\ reading.mounted \in BOOLEAN
    /\ adding \in Seq(AddingType)
    /\ adding # <<>> => pc \in {"ready", "undefined"}
    /\ swallowed \in BOOLEAN /\ (swallowed => version = 1)
    /\ swallowed => pc \in {"ready", "uninit", "undefined"}
    /\ pc = "undefined" => swallowed
    /\ pc \in {"failed", "uninit"} => subscribed = {} /\ AllDeleted
    /\ pc \notin {"failed", "uninit"} /\ ~swallowed => NoneDeleted

LEMMA InitPInv == Init => PInv
<1> SUFFICES ASSUME Init PROVE PInv
    OBVIOUS
<1>1. list = <<>> /\ adding = <<>> /\ events = 0
    BY DEF Init
<1>2. reading.mounted = FALSE
    BY DEF Init, Nobody
<1>3. NoneDeleted
    BY <1>1 DEF NoneDeleted
<1>4. pc = "none" /\ swallowed = FALSE
    BY DEF Init
<1>5. list \in Seq(EntryType)
    BY <1>1
<1>6. adding \in Seq(AddingType)
    BY <1>1
<1>7. reading.mounted \in BOOLEAN
    BY <1>2
<1>8. events \in 0..MaxEvents
    BY <1>1, BoundAssumption
<1> QED
    BY <1>3, <1>4, <1>5, <1>6, <1>7, <1>8, <1>1 DEF PInv

\* What Uninit() and the roll-back of the constructor do to the list.
LEMMA DeletingAll ==
    ASSUME list \in Seq(EntryType),
           list' = [i \in DOMAIN list |-> [list[i] EXCEPT !.deleted = TRUE]]
    PROVE  list' \in Seq(EntryType) /\ AllDeleted'
<1>1. \A i \in DOMAIN list : list[i] \in EntryType
    OBVIOUS
<1>2. \A i \in DOMAIN list : [list[i] EXCEPT !.deleted = TRUE] \in EntryType
    BY <1>1 DEF EntryType
<1>3. list' \in Seq(EntryType)
    BY <1>2
<1>4. AllDeleted'
    BY <1>1 DEF AllDeleted, EntryType
<1> QED
    BY <1>3, <1>4

LEMMA Removing ==
    ASSUME list \in Seq(EntryType), NEW i \in DOMAIN list, list' = Without(i)
    PROVE  list' \in Seq(EntryType) /\ (NoneDeleted => NoneDeleted')
<1> DEFINE front == SubSeq(list, 1, i - 1)
           back == SubSeq(list, i + 1, Len(list))
<1>1. Len(list) \in Nat /\ i \in 1..Len(list)
    OBVIOUS
<1>2. front \in Seq(EntryType) /\ Len(front) = i - 1 /\ \A j \in 1..(i - 1) : front[j] = list[j]
    BY <1>1
<1>3. /\ back \in Seq(EntryType) /\ Len(back) = Len(list) - i
      /\ \A j \in 1..(Len(list) - i) : back[j] = list[i + j]
    BY <1>1
<1>4. list' = front \o back
    BY DEF Without, RemoveAt
<1> HIDE DEF front, back
<1>5. list' \in Seq(EntryType) /\ Len(list') = Len(list) - 1
    BY <1>1, <1>2, <1>3, <1>4
<1>6. ASSUME NEW j \in DOMAIN list' PROVE \E k \in DOMAIN list : list'[j] = list[k]
    <2>1. CASE j < i
        BY <1>1, <1>2, <1>3, <1>4, <1>5, <2>1
    <2>2. CASE j >= i
        <3>1. list'[j] = back[j - (i - 1)]
            BY <1>1, <1>2, <1>3, <1>4, <1>5, <2>2
        <3>2. j - (i - 1) \in 1..(Len(list) - i)
            BY <1>1, <1>5, <2>2
        <3>3. back[j - (i - 1)] = list[i + (j - (i - 1))]
            BY <1>3, <3>2
        <3>4. i + (j - (i - 1)) \in DOMAIN list
            BY <1>1, <3>2
        <3> QED
            BY <3>1, <3>3, <3>4
    <2> QED
        BY <1>1, <1>5, <2>1, <2>2
<1> QED
    BY <1>5, <1>6 DEF NoneDeleted

\* A set of positions has a least one.
LEMMA LeastPosition ==
    ASSUME NEW S \in SUBSET Nat, S # {}
    PROVE  \E i \in S : \A j \in S : i <= j
<1>1. \E x \in S : \A y \in S : ~(<<y, x>> \in OpToRel(<, Nat))
    BY NatLessThanWellFounded, WFMin
<1>2. PICK x \in S : \A y \in S : ~(y < x)
    BY <1>1 DEF OpToRel
<1> QED
    BY <1>2

LEMMA Appending ==
    ASSUME PInv, NEW d \in Devices, NEW m \in BOOLEAN, list' = Append(list, Entry(d, m))
    PROVE  list' \in Seq(EntryType) /\ (NoneDeleted => NoneDeleted')
BY DEF PInv, Entry, EntryType, NoneDeleted

LEMMA ChangeKeepsPInv ==
    ASSUME PInv, NEW d \in Devices, DeviceChanges(d)
    PROVE  PInv'
BY BoundAssumption DEF PInv, DeviceChanges, Plug, Unplug, Change, Emits, AllDeleted,
    NoneDeleted

LEMMA ConstructKeepsPInv ==
    ASSUME PInv, Construct
    PROVE  PInv'
<1> USE DEF PInv, ctorVars, serviceVars, AllDeleted, NoneDeleted
<1>1. ASSUME CtorThrows, UNCHANGED ctorVars, pc \notin {"ready", "uninit", "undefined"}
      PROVE  PInv'
    BY <1>1, DeletingAll DEF CtorThrows, Nobody
<1>2. ASSUME CtorSwallows, UNCHANGED ctorVars, version = 1, pc = "found"
      PROVE  PInv'
    BY <1>2, DeletingAll DEF CtorSwallows, Nobody
<1>3. CASE Subscribe("Added") \/ Subscribe("Removed")
    BY <1>1, <1>3 DEF Subscribe
<1>4. CASE Enumerate
    BY <1>1, <1>4 DEF Enumerate
<1>5. ASSUME NEW d \in Devices, Check(d) PROVE PInv'
    BY <1>1, <1>5 DEF Check
<1>6. ASSUME NEW d \in Devices, ReadMounted(d) PROVE PInv'
    <2>1. pc = "found" /\ version = 1
        BY <1>6 DEF ReadMounted
    <2>2. CASE reading' = [dev |-> d, mounted |-> d \in mounted]
               /\ UNCHANGED <<pc, subscribed, todo, found, list, queue, swallowed>>
        <3>1. reading'.mounted \in BOOLEAN
            BY <2>2
        <3> QED
            BY <1>6, <2>1, <2>2, <3>1 DEF ReadMounted
    <2> QED
        BY <1>2, <1>6, <2>1, <2>2 DEF ReadMounted
<1>7. ASSUME NEW d \in Devices, ConstructDevice(d) PROVE PInv'
    <2>1. pc = "found" /\ UNCHANGED ctorVars
        BY <1>7 DEF ConstructDevice
    <2>2. CASE list' = Append(list, Entry(d, reading.mounted)) /\ reading' = Nobody
               /\ UNCHANGED <<pc, subscribed, todo, queue, swallowed>>
        <3>1. reading'.mounted \in BOOLEAN
            BY <2>2 DEF Nobody
        <3>2. list' \in Seq(EntryType) /\ (NoneDeleted => NoneDeleted')
            BY <2>2, Appending
        <3> QED
            BY <2>1, <2>2, <3>1, <3>2
    <2> QED
        BY <1>1, <1>2, <1>7, <2>1, <2>2 DEF ConstructDevice
<1>8. CASE Checked \/ Commit
    BY <1>8 DEF Checked, Commit
<1> QED
    BY <1>3, <1>4, <1>5, <1>6, <1>7, <1>8 DEF Construct

LEMMA NonemptyHead ==
    ASSUME adding \in Seq(AddingType), adding # <<>>
    PROVE  /\ 1 \in DOMAIN adding /\ adding[1] \in AddingType
           /\ Head(adding) = adding[1] /\ Tail(adding) \in Seq(AddingType)
OBVIOUS

\* A handler, of the outer event loop or of that of a slot.
LEMMA HandleKeepsPInv ==
    ASSUME PInv, Handle
    PROVE  PInv'
<1> USE DEF PInv, handlerUnchanged, serviceVars, ghosts
<1>1. ASSUME NEW d \in Devices, OnAdded(d) PROVE PInv'
    <2> DEFINE r == [dev |-> d, at |-> "slots", mounted |-> FALSE]
    <2>1. pc = "ready"
        BY <1>1 DEF OnAdded, Delivers
    <2>2. adding' \in Seq(AddingType)
        <3>1. r \in AddingType
            BY DEF AddingType
        <3>2. adding' = adding \/ adding' = <<r>> \o adding
            BY <1>1 DEF OnAdded
        <3>3. adding \in Seq(AddingType)
            OBVIOUS
        <3> HIDE DEF r
        <3>4. <<r>> \in Seq(AddingType)
            BY <3>1
        <3>5. <<r>> \o adding \in Seq(AddingType)
            BY <3>3, <3>4
        <3> QED
            BY <3>2, <3>3, <3>5
    <2> QED
        BY <1>1, <2>1, <2>2 DEF OnAdded, AllDeleted, NoneDeleted
<1>2. CASE AddedReads
    <2>1. pc \in {"ready", "undefined"} /\ UNCHANGED <<pc, list, swallowed, version, events,
              reading>>
        BY <1>2 DEF AddedReads
    <2>2. adding' \in Seq(AddingType)
        <3>1. adding # <<>>
            BY <1>2 DEF AddedReads
        <3>2. CASE adding' = Tail(adding)
            BY <3>1, <3>2
        <3>3. CASE adding' = [adding EXCEPT ![1].at = "connect",
                                            ![1].mounted = Head(adding).dev \in mounted]
            <4> DEFINE m == Head(adding).dev \in mounted
                       r1 == [adding[1] EXCEPT !.at = "connect"]
                       r2 == [r1 EXCEPT !.mounted = m]
            <4>1. 1 \in DOMAIN adding /\ adding[1] \in AddingType
                BY <3>1, NonemptyHead
            <4>2. r1 \in AddingType
                BY <4>1 DEF AddingType
            <4> HIDE DEF r1
            <4>3. r2 \in AddingType
                <5>1. m \in BOOLEAN
                    OBVIOUS
                <5> HIDE DEF m
                <5> QED
                    BY <4>2, <5>1 DEF AddingType
            <4>4. adding' = [adding EXCEPT ![1] = r2]
                BY <3>3, <4>1 DEF r1
            <4> HIDE DEF r2
            <4> QED
                BY <4>1, <4>3, <4>4
        <3> QED
            BY <1>2, <3>2, <3>3 DEF AddedReads
    <2> QED
        BY <1>2, <2>1, <2>2 DEF AddedReads, AllDeleted, NoneDeleted
<1>3. CASE AddedAppends
    <2>1. adding # <<>> /\ pc \in {"ready", "undefined"}
          /\ Head(adding) \in AddingType /\ Tail(adding) \in Seq(AddingType)
        BY <1>3, NonemptyHead DEF AddedAppends
    <2>2. list' \in Seq(EntryType) /\ (NoneDeleted => NoneDeleted')
        <3>1. CASE list' = Append(list, Entry(Head(adding).dev, Head(adding).mounted))
            BY <2>1, <3>1, Appending DEF AddingType
        <3>2. CASE UNCHANGED list
            BY <3>2 DEF NoneDeleted
        <3> QED
            BY <1>3, <3>1, <3>2 DEF AddedAppends
    <2>3. adding' \in Seq(AddingType)
        BY <1>3, <2>1 DEF AddedAppends
    <2> QED
        BY <1>3, <2>1, <2>2, <2>3 DEF AddedAppends
<1>4. ASSUME NEW d \in Devices, OnRemoved(d) PROVE PInv'
    <2> DEFINE same == {i \in DOMAIN list : list[i].dev = d}
               first == CHOOSE i \in same : \A j \in same : i <= j
               looked == {i \in DOMAIN list : same # {} => i <= first}
    <2>1. pc = "ready" /\ UNCHANGED <<adding, swallowed, version, events, reading, subscribed>>
        BY <1>4 DEF OnRemoved, Delivers
    <2>2. CASE pc' = "undefined" /\ UNCHANGED list /\ \E i \in looked : list[i].deleted
        BY <2>1, <2>2 DEF NoneDeleted
    <2>3. CASE pc' = pc /\ list' = (IF same = {} THEN list ELSE Without(first))
        <3>1. CASE same = {}
            BY <2>1, <2>3, <3>1 DEF NoneDeleted
        <3>2. CASE same # {}
            <4>1. \E i \in same : \A j \in same : i <= j
                <5>1. same \subseteq Nat /\ same # {}
                    BY <3>2
                <5> HIDE DEF same
                <5> QED
                    BY <5>1, LeastPosition
            <4>2. first \in DOMAIN list
                BY <4>1
            <4> QED
                BY <2>1, <2>3, <3>2, <4>2, Removing
        <3> QED
            BY <3>1, <3>2
    <2> QED
        BY <1>4, <2>2, <2>3 DEF OnRemoved
<1>5. ASSUME NEW d \in Devices, OnChanged(d) PROVE PInv'
    <2>1. pc = "ready"
          /\ UNCHANGED <<pc, adding, swallowed, version, events, reading, subscribed>>
        BY <1>5 DEF OnChanged, Delivers
    <2>2. list' \in Seq(EntryType) /\ (NoneDeleted => NoneDeleted')
        <3>1. CASE UNCHANGED list
            BY <3>1 DEF NoneDeleted
        <3>2. ASSUME NEW news,
                     list' = [i \in DOMAIN list |->
                        IF i \in news THEN [list[i] EXCEPT !.mounted = MountedNow(i, d)]
                                      ELSE list[i]]
              PROVE  list' \in Seq(EntryType) /\ (NoneDeleted => NoneDeleted')
            <4>1. ASSUME NEW i \in DOMAIN list
                  PROVE  /\ list[i] \in EntryType
                         /\ [list[i] EXCEPT !.mounted = MountedNow(i, d)] \in EntryType
                         /\ [list[i] EXCEPT !.mounted = MountedNow(i, d)].deleted = list[i].deleted
                <5>1. list[i] \in EntryType
                    OBVIOUS
                <5>2. MountedNow(i, d) \in BOOLEAN
                    BY DEF MountedNow
                <5> QED
                    BY <5>1, <5>2 DEF EntryType
            <4>2. list' \in Seq(EntryType)
                <5>1. DOMAIN list' = 1..Len(list) /\ Len(list) \in Nat
                    BY <3>2
                <5>2. \A i \in 1..Len(list) : list'[i] \in EntryType
                    BY <3>2, <4>1
                <5>3. list' = [i \in 1..Len(list) |-> list'[i]]
                    BY <3>2
                <5> HIDE <3>2
                <5> QED
                    BY <5>1, <5>2, <5>3
            <4> QED
                BY <3>2, <4>1, <4>2 DEF NoneDeleted
        <3> QED
            BY <1>5, <3>1, <3>2 DEF OnChanged
    <2> QED
        BY <2>1, <2>2
<1>6. CASE Uninit
    <2>1. list' \in Seq(EntryType) /\ AllDeleted'
        BY <1>6, DeletingAll DEF Uninit
    <2> QED
        BY <1>6, <2>1 DEF Uninit, NoneDeleted
<1> QED
    BY <1>1, <1>2, <1>3, <1>4, <1>5, <1>6 DEF Handle

LEMMA PInvAlways == Spec => []PInv
<1>1. PInv /\ [Next]_vars => PInv'
    <2>1. CASE UNCHANGED vars
        BY <2>1 DEF vars, serviceVars, ghosts, PInv, AllDeleted, NoneDeleted
    <2> QED
        BY <2>1, ChangeKeepsPInv, ConstructKeepsPInv, HandleKeepsPInv DEF Next
<1> QED
    BY <1>1, InitPInv, PTL DEF Spec

\* Nothing deleted is used but after the constructor of UDisks1 swallowed an
\* exception.
THEOREM NothingDeletedIsUsed == Spec => []NoDeletedUse
<1>1. PInv => NoDeletedUse
    BY DEF PInv, NoDeletedUse
<1> QED
    BY <1>1, PInvAlways, PTL

\* A constructor that throws, wherever it does, and Uninit() leave no
\* subscription and no device behind.
THEOREM NothingIsLeftBehind == Spec => []RolledBack
<1>1. PInv => RolledBack
    BY DEF PInv, AllDeleted, RolledBack, LiveEntries
<1> QED
    BY <1>1, PInvAlways, PTL
-----------------------------------------------------------------------------
(***************************************************************************)
(* The types of all variables.                                             *)
(***************************************************************************)
\* What is left of the types, apart from the four sequences.
EventType == [signal : {"Added", "Removed", "Changed"}, dev : Devices,
              mounted : BOOLEAN, time : 1..MaxEvents]

Sets ==
    /\ mounted \subseteq present /\ present \subseteq Devices
    /\ version \in {1, 2}
    /\ pc \in {"none", "connected", "subscribed", "check", "found", "ready",
               "failed", "uninit", "undefined"}
    /\ subscribed \subseteq {"Added", "Removed"}
    /\ todo \cup found \cup early \cup overtaken \cup unread \cup failed \subseteq Devices
    /\ slipped \subseteq early

Tellings ==
    /\ told \in [Devices -> {"nothing", "added", "removed"}]
    /\ mountTold \in [Devices -> {"nothing", "mounted", "unmounted"}]

ReadingType == reading \in [dev : Devices \cup {"none"}, mounted : BOOLEAN]

Typed == PInv /\ queue \in Seq(EventType) /\ Sets /\ Tellings /\ ReadingType

LEMMA TypedIsTypeOK == Typed => TypeOK
BY DEF Typed, PInv, EventType, Sets, Tellings, ReadingType, TypeOK, EntryType, AddingType

LEMMA InitTyped == Init => Typed
<1> SUFFICES ASSUME Init PROVE Typed
    OBVIOUS
<1>1. PInv
    BY InitPInv
<1>2. queue \in Seq(EventType)
    BY DEF Init
<1>3. Sets
    BY DEF Init, Sets
<1>4. Tellings
    BY DEF Init, Tellings
<1>5. ReadingType
    BY DEF Init, ReadingType, Nobody
<1> QED
    BY <1>1, <1>2, <1>3, <1>4, <1>5 DEF Typed

\* What is sent is an event, of a later time than those before.
LEMMA SentTyped ==
    ASSUME Typed, NEW s \in {"Added", "Removed", "Changed"}, NEW d \in Devices, Emits(s, d)
    PROVE  /\ events \in Nat /\ events' = events + 1 /\ events' \in 1..MaxEvents
           /\ \/ queue' = queue /\ (s # "Changed" => s \notin subscribed)
                               /\ (s = "Changed" => LiveEntries(d) = {})
              \/ \E e \in EventType :
                    /\ queue' = Append(queue, e)
                    /\ e.signal = s /\ e.dev = d /\ e.mounted = (d \in mounted') /\ e.time = events'
           /\ queue' \in Seq(EventType)
<1> DEFINE m == d \in mounted'
           e == [signal |-> s, dev |-> d, mounted |-> m, time |-> events']
<1>1. events \in Nat /\ events' = events + 1 /\ events' \in 1..MaxEvents
    BY BoundAssumption DEF Typed, PInv, Emits
<1>2. e \in EventType
    <2>1. m \in BOOLEAN
        OBVIOUS
    <2> HIDE DEF m
    <2> QED
        BY <1>1, <2>1 DEF EventType
<1>3. e.signal = s /\ e.dev = d /\ e.mounted = m /\ e.time = events'
    OBVIOUS
<1>4. queue' = queue \/ queue' = Append(queue, e)
    BY DEF Emits
<1>5. queue' = queue => (s # "Changed" => s \notin subscribed) /\
          (s = "Changed" => LiveEntries(d) = {})
    <2>1. queue \in Seq(EventType)
        BY DEF Typed
    <2> HIDE DEF e
    <2>2. Append(queue, e) # queue
        BY <1>2, <2>1
    <2> QED
        BY <2>2 DEF Emits, e
<1>6. queue' \in Seq(EventType)
    <2> HIDE DEF e
    <2> QED
        BY <1>2, <1>4 DEF Typed
<1>7. \/ queue' = queue /\ (s # "Changed" => s \notin subscribed)
                       /\ (s = "Changed" => LiveEntries(d) = {})
      \/ queue' = Append(queue, e) /\ e \in EventType /\
                    e.signal = s /\ e.dev = d /\ e.mounted = (d \in mounted') /\ e.time = events'
    BY <1>2, <1>3, <1>4, <1>5
<1> HIDE DEF e
<1> QED
    BY <1>1, <1>6, <1>7

LEMMA NextTyped ==
    ASSUME Typed, [Next]_vars
    PROVE  Typed'
<1>1. PInv'
    <2>1. CASE UNCHANGED vars
        BY <2>1 DEF vars, serviceVars, ghosts, Typed, PInv, AllDeleted, NoneDeleted
    <2> QED
        BY <2>1, ChangeKeepsPInv, ConstructKeepsPInv, HandleKeepsPInv DEF Next, Typed
<1>2. CASE UNCHANGED vars
    BY <1>1, <1>2 DEF vars, serviceVars, ghosts, Typed, Sets, Tellings, ReadingType
<1>3. ASSUME NEW d \in Devices, DeviceChanges(d) PROVE Typed'
    <2>1. queue' \in Seq(EventType)
        BY <1>3, SentTyped DEF DeviceChanges, Plug, Unplug, Change
    <2>2. Sets'
        BY <1>3 DEF DeviceChanges, Plug, Unplug, Change, Typed, Sets
    <2>3. Tellings' /\ ReadingType'
        BY <1>3 DEF DeviceChanges, Typed, Tellings, ReadingType
    <2> QED
        BY <1>1, <2>1, <2>2, <2>3 DEF Typed
<1>4. CASE Construct
    <2>1. UNCHANGED <<present, mounted, version, told, mountTold, early, slipped, overtaken,
                      unread, failed>>
        BY <1>4 DEF Construct, Subscribe, Enumerate, Check, ReadMounted, ConstructDevice,
            Checked, Commit, ctorVars, serviceVars
    <2>2. queue' = queue \/ queue' = <<>>
        BY <1>4 DEF Construct, Subscribe, Enumerate, Check, ReadMounted, ConstructDevice,
            Checked, Commit, CtorThrows, CtorSwallows
    <2>3. /\ todo' \cup found' \subseteq Devices /\ subscribed' \subseteq {"Added", "Removed"}
          /\ pc' \in {"none", "connected", "subscribed", "check", "found", "ready",
                 "failed"} \cup {pc}
        <3> USE DEF Typed, Sets, CtorThrows, CtorSwallows
        <3>1. CASE Subscribe("Added") \/ Subscribe("Removed")
            BY <3>1 DEF Subscribe
        <3>2. CASE Enumerate
            BY <3>2 DEF Enumerate
        <3>3. ASSUME NEW d \in Devices, Check(d) \/ ReadMounted(d) \/ ConstructDevice(d)
              PROVE <2>3!1 /\ <2>3!2
            BY <3>3 DEF Check, ReadMounted, ConstructDevice
        <3>4. CASE Checked \/ Commit
            BY <3>4 DEF Checked, Commit
        <3> QED
            BY <1>4, <3>1, <3>2, <3>3, <3>4 DEF Construct
    <2>4. ReadingType'
        <3>1. reading' = reading \/ reading' = Nobody \/
                  \E d \in Devices : reading' = [dev |-> d, mounted |-> d \in mounted]
            BY <1>4 DEF Construct, Subscribe, Enumerate, Check, ReadMounted,
                ConstructDevice, Checked, Commit, CtorThrows, CtorSwallows
        <3>2. CASE reading' = Nobody
            BY <3>2 DEF Nobody, ReadingType
        <3>3. ASSUME NEW d \in Devices, NEW m \in BOOLEAN, reading' = [dev |-> d, mounted |-> m]
              PROVE ReadingType'
            BY <3>3 DEF ReadingType
        <3>4. CASE reading' = reading
            BY <3>4 DEF Typed, ReadingType
        <3>5. ASSUME NEW d \in Devices, reading' = [dev |-> d, mounted |-> d \in mounted]
              PROVE ReadingType'
            <4> DEFINE m == d \in mounted
            <4>1. m \in BOOLEAN /\ reading' = [dev |-> d, mounted |-> m]
                BY <3>5
            <4> HIDE DEF m
            <4> QED
                BY <3>3, <4>1
        <3> QED
            BY <3>1, <3>2, <3>4, <3>5
    <2>5. Sets'
        BY <2>1, <2>3 DEF Typed, Sets
    <2>6. Tellings'
        BY <2>1 DEF Typed, Tellings
    <2>7. queue' \in Seq(EventType)
        <3>1. queue \in Seq(EventType)
            BY DEF Typed
        <3>2. <<>> \in Seq(EventType)
            OBVIOUS
        <3> QED
            BY <2>2, <3>1, <3>2
    <2> QED
        BY <1>1, <2>4, <2>5, <2>6, <2>7 DEF Typed
<1>5. CASE Handle
    <2>1. UNCHANGED <<present, mounted, version, todo, found, reading, early, slipped>>
        BY <1>5 DEF Handle, OnAdded, AddedReads, AddedAppends, OnRemoved, OnChanged, Uninit,
            handlerUnchanged, serviceVars, ghosts
    <2>2. queue' \in Seq(EventType)
        <3>1. queue' = queue \/ queue' = <<>> \/ (queue # <<>> /\ queue' = Tail(queue))
            BY <1>5 DEF Handle, OnAdded, AddedReads, AddedAppends, OnRemoved, OnChanged,
                Uninit, Delivers
        <3>2. queue \in Seq(EventType)
            BY DEF Typed
        <3>3. <<>> \in Seq(EventType) /\ (queue # <<>> => Tail(queue) \in Seq(EventType))
            BY <3>2
        <3> QED
            BY <3>1, <3>2, <3>3
    <2>3. Sets'
        <3>1. /\ pc' \in {pc, "undefined", "uninit"} /\ subscribed' \in {subscribed, {}}
              /\ unread' \subseteq unread
            BY <1>5 DEF Handle, OnAdded, AddedReads, AddedAppends, OnRemoved, OnChanged,
                Uninit, handlerUnchanged, ghosts
        <3>2. overtaken' \subseteq Devices
            <4>1. overtaken' = overtaken \/ \E d \in Devices : overtaken' = overtaken \cup {d}
                BY <1>5 DEF Handle, OnAdded, AddedReads, AddedAppends, OnRemoved, OnChanged,
                    Uninit, ghosts
            <4> QED
                BY <4>1 DEF Typed, Sets
        <3>3. failed' \subseteq Devices
            <4>1. adding # <<>> => Head(adding).dev \in Devices
                BY NonemptyHead DEF Typed, PInv, AddingType
            <4> QED
                BY <1>5, <4>1 DEF Handle, OnAdded, AddedReads, AddedAppends, OnRemoved,
                    OnChanged, Uninit, ghosts, Typed, Sets
        <3> QED
            BY <2>1, <3>1, <3>2, <3>3 DEF Typed, Sets
    <2>4. Tellings'
        BY <1>5 DEF Handle, OnAdded, AddedReads, AddedAppends, OnRemoved, OnChanged, Uninit,
            Typed, Tellings, MountSignal
    <2>5. ReadingType'
        BY <2>1 DEF Typed, ReadingType
    <2> QED
        BY <1>1, <2>2, <2>3, <2>4, <2>5 DEF Typed
<1> QED
    BY <1>2, <1>3, <1>4, <1>5 DEF Next

-----------------------------------------------------------------------------
(***************************************************************************)
(* What the queue, the list and the calls of OnDeviceAdded() hold of a     *)
(* device, and what the operations on the sequences do to that.            *)
(***************************************************************************)
Queued == {queue[i] : i \in DOMAIN queue}
Coming(d) == {e \in Queued : e.dev = d /\ e.signal \in {"Added", "Removed"}}
Changes(d) == {e \in Queued : e.dev = d /\ e.signal = "Changed"}
Named(d) == {i \in DOMAIN list : list[i].dev = d}
InAdding(d) == {i \in DOMAIN adding : adding[i].dev = d}

\* The queue is in the order of the events, and nothing is of the future.
QueueOrdered == \A i, j \in DOMAIN queue : i < j => queue[i].time < queue[j].time
NoFuture ==
    /\ \A e \in Queued : e.time <= events
    /\ \A i \in DOMAIN list : list[i].born <= events
Ordered == QueueOrdered /\ NoFuture

\* What appending to the queue and delivering its head do to the set of events.
LEMMA Sending ==
    ASSUME Typed, Ordered, NEW e \in EventType, queue' = Append(queue, e),
           events' = events + 1, e.time = events'
    PROVE  /\ Queued' = Queued \cup {e}
           /\ \A f \in Queued : f.time < e.time
           /\ QueueOrdered'
<1>1. queue \in Seq(EventType) /\ events \in Nat /\ Len(queue) \in Nat
    BY BoundAssumption DEF Typed, PInv
<1>2. /\ DOMAIN queue = 1..Len(queue) /\ DOMAIN queue' = 1..(Len(queue) + 1)
      /\ \A i \in DOMAIN queue : queue'[i] = queue[i] /\ queue[i] \in EventType
      /\ queue'[Len(queue) + 1] = e
    BY <1>1
<1>3. Queued' = Queued \cup {e}
    <2>1. \A x \in Queued' : x \in Queued \cup {e}
        BY <1>1, <1>2 DEF Queued
    <2>2. \A x \in Queued \cup {e} : x \in Queued'
        BY <1>1, <1>2 DEF Queued
    <2> QED
        BY <2>1, <2>2
<1>4. \A i \in DOMAIN queue : queue[i].time \in Nat /\ queue[i].time < e.time
    BY <1>1, <1>2, BoundAssumption DEF Ordered, NoFuture, Queued, EventType
<1>5. QueueOrdered'
    BY <1>1, <1>2, <1>4 DEF Ordered, QueueOrdered
<1> QED
    BY <1>3, <1>4, <1>5 DEF Queued

LEMMA Delivering ==
    ASSUME Typed, Ordered, queue # <<>>, queue' = Tail(queue)
    PROVE  /\ Head(queue) \in Queued
           /\ Queued' = Queued \ {Head(queue)}
           /\ \A f \in Queued' : Head(queue).time < f.time
           /\ QueueOrdered'
<1>1. queue \in Seq(EventType) /\ Len(queue) \in Nat /\ Len(queue) > 0
    BY DEF Typed
<1>2. /\ DOMAIN queue = 1..Len(queue) /\ DOMAIN queue' = 1..(Len(queue) - 1)
      /\ Head(queue) = queue[1]
      /\ \A i \in DOMAIN queue : queue[i] \in EventType /\ queue[i].time \in Nat
      /\ \A i \in DOMAIN queue' : queue'[i] = queue[i + 1]
    <2>1. \A x \in EventType : x.time \in Nat
        BY BoundAssumption DEF EventType
    <2> QED
        BY <1>1, <2>1
<1>3. \A i \in DOMAIN queue : i # 1 => queue[1].time < queue[i].time
    BY <1>1, <1>2 DEF Ordered, QueueOrdered
<1>4. Queued' = Queued \ {Head(queue)}
    <2>1. \A x \in Queued' : x \in Queued /\ queue[1].time < x.time
        BY <1>1, <1>2, <1>3 DEF Queued
    <2>2. ASSUME NEW x \in Queued, x # queue[1] PROVE x \in Queued'
        <3>1. PICK i \in DOMAIN queue : x = queue[i]
            BY DEF Queued
        <3>2. i - 1 \in DOMAIN queue' /\ queue'[i - 1] = x
            BY <1>1, <1>2, <2>2, <3>1
        <3> QED
            BY <3>2 DEF Queued
    <2>3. ~(queue[1].time < queue[1].time)
        BY <1>1, <1>2
    <2> QED
        BY <1>2, <2>1, <2>2, <2>3
<1>5. \A f \in Queued' : Head(queue).time < f.time
    BY <1>1, <1>2, <1>3 DEF Queued
<1>6. QueueOrdered'
    <2> SUFFICES ASSUME NEW i \in DOMAIN queue', NEW j \in DOMAIN queue', i < j
                 PROVE  queue'[i].time < queue'[j].time
        BY DEF QueueOrdered
    <2>1. i + 1 \in DOMAIN queue /\ j + 1 \in DOMAIN queue /\ i + 1 < j + 1
        BY <1>1, <1>2
    <2>2. queue[i + 1].time < queue[j + 1].time
        BY <2>1 DEF Ordered, QueueOrdered
    <2> QED
        BY <1>2, <2>2
<1>7. Head(queue) \in Queued
    BY <1>1, <1>2 DEF Queued
<1> QED
    BY <1>4, <1>5, <1>6, <1>7

LEMMA QueuedTyped == ASSUME Typed PROVE Queued \subseteq EventType
BY DEF Typed, Queued

\* The list with a device at its end, without that of a position, with the
\* mounted states of some, with all deleted.
LEMMA ListAppends ==
    ASSUME Typed, NEW d \in Devices, NEW m \in BOOLEAN, list' = Append(list, Entry(d, m))
    PROVE  \E n \in Nat :
           /\ n \notin DOMAIN list /\ DOMAIN list' = DOMAIN list \cup {n}
           /\ list'[n].dev = d /\ list'[n].mounted = m /\ list'[n].born = events /\
                  ~list'[n].deleted
           /\ \A i \in DOMAIN list : list'[i] = list[i]
           /\ \A c : LiveEntries(c)' = IF c = d THEN LiveEntries(c) \cup {n} ELSE LiveEntries(c)
           /\ \A c : Named(c)' = IF c = d THEN Named(c) \cup {n} ELSE Named(c)
<1> DEFINE n == Len(list) + 1
<1>1. list \in Seq(EntryType) /\ Len(list) \in Nat /\ DOMAIN list = 1..Len(list)
    BY DEF Typed, PInv
<1>2. /\ DOMAIN list' = 1..n /\ list'[n] = Entry(d, m)
      /\ \A i \in DOMAIN list : list'[i] = list[i]
    BY <1>1
<1>3. n \notin DOMAIN list /\ DOMAIN list' = DOMAIN list \cup {n} /\ n \in Nat
    BY <1>1, <1>2
<1>4. list'[n].dev = d /\ list'[n].mounted = m /\ list'[n].born = events /\ list'[n].deleted = FALSE
    BY <1>2 DEF Entry
<1> HIDE DEF n
<1>5. \A c : LiveEntries(c)' = IF c = d THEN LiveEntries(c) \cup {n} ELSE LiveEntries(c)
    BY <1>2, <1>3, <1>4 DEF LiveEntries
<1>6. \A c : Named(c)' = IF c = d THEN Named(c) \cup {n} ELSE Named(c)
    BY <1>2, <1>3, <1>4 DEF Named
<1> QED
    BY <1>2, <1>3, <1>4, <1>5, <1>6

LEMMA ListWithout ==
    ASSUME Typed, NEW k \in DOMAIN list, list' = Without(k)
    PROVE  /\ \A j \in DOMAIN list' : \E i \in DOMAIN list : i # k /\ list'[j] = list[i]
           /\ \A i \in DOMAIN list \ {k} : \E j \in DOMAIN list' : list'[j] = list[i]
           /\ \A c : (\A i, j \in LiveEntries(c) : i = j) => \A i, j \in LiveEntries(c)' : i = j
<1> DEFINE front == SubSeq(list, 1, k - 1)
           back == SubSeq(list, k + 1, Len(list))
           from(j) == IF j < k THEN j ELSE j + 1
<1>1. list \in Seq(EntryType) /\ Len(list) \in Nat /\ k \in 1..Len(list)
    BY DEF Typed, PInv
<1>2. front \in Seq(EntryType) /\ Len(front) = k - 1 /\ \A j \in 1..(k - 1) : front[j] = list[j]
    BY <1>1
<1>3. /\ back \in Seq(EntryType) /\ Len(back) = Len(list) - k
      /\ \A j \in 1..(Len(list) - k) : back[j] = list[k + j]
    BY <1>1
<1>4. list' = front \o back
    BY DEF Without, RemoveAt
<1> HIDE DEF front, back
<1>5. list' \in Seq(EntryType) /\ Len(list') = Len(list) - 1
      /\ DOMAIN list' = 1..(Len(list) - 1) /\ DOMAIN list = 1..Len(list)
    BY <1>1, <1>2, <1>3, <1>4
<1>6. \A j \in DOMAIN list' : list'[j] = list[from(j)]
    <2> TAKE j \in DOMAIN list'
    <2>1. CASE j < k
        BY <1>1, <1>2, <1>3, <1>4, <1>5, <2>1
    <2>2. CASE j >= k
        <3>1. list'[j] = back[j - (k - 1)]
            BY <1>1, <1>2, <1>3, <1>4, <1>5, <2>2
        <3>2. j - (k - 1) \in 1..(Len(list) - k)
            BY <1>1, <1>5, <2>2
        <3>3. back[j - (k - 1)] = list[k + (j - (k - 1))]
            BY <1>3, <3>2
        <3>4. k + (j - (k - 1)) = j + 1
            BY <1>1, <1>5
        <3> QED
            BY <1>1, <1>5, <2>2, <3>1, <3>3, <3>4
    <2> QED
        BY <1>1, <1>5, <2>1, <2>2
<1>7. /\ \A j \in DOMAIN list' : from(j) \in DOMAIN list /\ from(j) # k
      /\ \A i, j \in DOMAIN list' : from(i) = from(j) => i = j
    BY <1>1, <1>5
<1>8. \A i \in DOMAIN list \ {k} : \E j \in DOMAIN list' : from(j) = i
    <2> TAKE i \in DOMAIN list \ {k}
    <2>1. CASE i < k
        BY <1>1, <1>5, <2>1
    <2>2. CASE i > k
        <3>1. i - 1 \in DOMAIN list' /\ from(i - 1) = i
            BY <1>1, <1>5, <2>2
        <3> QED
            BY <3>1
    <2> QED
        BY <1>1, <1>5, <2>1, <2>2
<1>9. ASSUME NEW c, \A i, j \in LiveEntries(c) : i = j,
             NEW i \in LiveEntries(c)', NEW j \in LiveEntries(c)'
      PROVE  i = j
    <2> HIDE DEF from
    <2>1. from(i) \in LiveEntries(c) /\ from(j) \in LiveEntries(c)
        BY <1>6, <1>7 DEF LiveEntries
    <2>2. i \in DOMAIN list' /\ j \in DOMAIN list'
        BY DEF LiveEntries
    <2> QED
        BY <1>7, <1>9, <2>1, <2>2
<1> HIDE DEF from
<1> QED
    BY <1>6, <1>7, <1>8, <1>9

\* The first device of a path.
LEMMA FirstOfPath ==
    ASSUME Typed, NEW d \in Devices, OnRemoved(d), pc' # "undefined"
    PROVE  \/ Named(d) = {} /\ list' = list
           \/ \E k \in LiveEntries(d) : list' = Without(k)
<1> DEFINE first == CHOOSE i \in Named(d) : \A j \in Named(d) : i <= j
<1>1. Named(d) \subseteq Nat
    BY DEF Typed, PInv, Named
<1>2. pc' = pc /\ list' = (IF Named(d) = {} THEN list ELSE Without(first))
    /\ ~(\E i \in {i \in DOMAIN list : Named(d) # {} => i <= first} : list[i].deleted)
    BY DEF OnRemoved, Named
<1>3. CASE Named(d) # {}
    <2>1. \E i \in Named(d) : \A j \in Named(d) : i <= j
        BY <1>1, <1>3, LeastPosition
    <2>2. first \in Named(d)
        BY <2>1
    <2>3. first \in Nat
        BY <1>1, <2>2
    <2> HIDE DEF first
    <2>4. first \in LiveEntries(d)
        BY <1>2, <2>2, <2>3 DEF Named, LiveEntries
    <2> QED
        BY <1>2, <1>3, <2>4
<1> QED
    BY <1>2, <1>3

LEMMA AllDeletedNoneLive == AllDeleted => \A d : LiveEntries(d) = {}
BY DEF AllDeleted, LiveEntries

\* The calls of OnDeviceAdded(): one more, one less.
LEMMA AddingCons ==
    ASSUME Typed, NEW r \in AddingType, adding' = <<r>> \o adding
    PROVE  /\ 1 \in DOMAIN adding' /\ adding'[1] = r
           /\ \A i \in DOMAIN adding : i \in Nat /\ i >= 1 /\ i + 1 \in DOMAIN adding' /\
                  adding'[i + 1] = adding[i]
           /\ \A j \in DOMAIN adding' : j # 1 => j \in Nat /\ j - 1 \in DOMAIN adding /\
                  adding'[j] = adding[j - 1]
<1>1. adding \in Seq(AddingType) /\ <<r>> \in Seq(AddingType) /\ Len(<<r>>) = 1 /\ <<r>>[1] = r
    BY DEF Typed, PInv
<1>2. Len(adding') = Len(adding) + 1 /\ DOMAIN adding' = 1..(Len(adding) + 1)
      /\ DOMAIN adding = 1..Len(adding) /\ Len(adding) \in Nat
    BY <1>1
<1>3. adding'[1] = r
    BY <1>1, <1>2
<1>4. \A j \in DOMAIN adding' : j # 1 => adding'[j] = adding[j - 1]
    BY <1>1, <1>2
<1> QED
    BY <1>2, <1>3, <1>4

LEMMA AddingTail ==
    ASSUME Typed, adding # <<>>, adding' = Tail(adding)
    PROVE  /\ 1 \in DOMAIN adding /\ Head(adding) = adding[1] /\ adding[1] \in AddingType
           /\ \A i \in DOMAIN adding : i # 1 => i \in Nat /\ i - 1 \in DOMAIN adding' /\
                  adding'[i - 1] = adding[i]
           /\ \A j \in DOMAIN adding' : j \in Nat /\ j >= 1 /\ j + 1 \in DOMAIN adding /\
                  adding'[j] = adding[j + 1]
<1>1. adding \in Seq(AddingType)
    BY DEF Typed, PInv
<1> QED
    BY <1>1

-----------------------------------------------------------------------------
(***************************************************************************)
(* What the actions do to the queue and to the list.                       *)
(***************************************************************************)
LEMMA Times == ASSUME Typed PROVE \A e \in Queued : e \in EventType /\ e.time \in Nat /\
    e.dev \in Devices
<1>1. \A e \in EventType : e.time \in Nat /\ e.dev \in Devices
    BY BoundAssumption DEF EventType
<1> QED
    BY <1>1, QueuedTyped

LEMMA SameList ==
    ASSUME list' = list
    PROVE  \A c : LiveEntries(c)' = LiveEntries(c) /\ Named(c)' = Named(c)
BY DEF LiveEntries, Named

LEMMA SameAdding == ASSUME adding' = adding PROVE \A c : InAdding(c)' = InAdding(c)
BY DEF InAdding

LEMMA SameQueue == ASSUME queue' = queue PROVE Queued' = Queued
BY DEF Queued

LEMMA SameQueued ==
    ASSUME Queued' = Queued
    PROVE  \A c : Coming(c)' = Coming(c) /\ Changes(c)' = Changes(c)
BY DEF Coming, Changes

LEMMA QueueEmpties ==
    ASSUME queue' = <<>>
    PROVE  Queued' = {} /\ QueueOrdered' /\ \A c : Coming(c)' = {} /\ Changes(c)' = {}
<1>1. Queued' = {} /\ QueueOrdered'
    BY DEF Queued, QueueOrdered
<1> QED
    BY <1>1 DEF Coming, Changes

LEMMA QueuedGains ==
    ASSUME NEW e, Queued' = Queued \cup {e}
    PROVE  \A c : /\ Coming(c)' = IF e.dev = c /\ e.signal \in {"Added", "Removed"}
                                  THEN Coming(c) \cup {e} ELSE Coming(c)
                  /\ Changes(c)' = IF e.dev = c /\ e.signal = "Changed"
                                   THEN Changes(c) \cup {e} ELSE Changes(c)
BY DEF Coming, Changes

LEMMA QueuedLoses ==
    ASSUME NEW e, Queued' = Queued \ {e}
    PROVE  \A c : Coming(c)' = Coming(c) \ {e} /\ Changes(c)' = Changes(c) \ {e}
BY DEF Coming, Changes

\* A signal that is sent is later than what is queued, one that is delivered is
\* earlier.
LEMMA Emitting ==
    ASSUME Typed, Ordered, NEW s \in {"Added", "Removed", "Changed"}, NEW d \in Devices, Emits(s, d)
    PROVE  /\ events \in Nat /\ events' = events + 1 /\ QueueOrdered'
           /\ \/ Queued' = Queued /\ (s # "Changed" => s \notin subscribed)
                                 /\ (s = "Changed" => LiveEntries(d) = {})
              \/ \E e \in EventType :
                    /\ Queued' = Queued \cup {e}
                    /\ e.signal = s /\ e.dev = d /\ e.mounted = (d \in mounted')
                    /\ e.time = events' /\ \A f \in Queued : f.time < e.time
<1>1. events \in Nat /\ events' = events + 1
    BY SentTyped
<1>2. CASE queue' = queue /\ (s # "Changed" => s \notin subscribed)
                          /\ (s = "Changed" => LiveEntries(d) = {})
    <2>1. Queued' = Queued
        BY <1>2, SameQueue
    <2>2. QueueOrdered'
        BY <1>2 DEF Ordered, QueueOrdered
    <2> QED
        BY <1>1, <1>2, <2>1, <2>2
<1>3. ASSUME NEW e \in EventType, queue' = Append(queue, e), e.signal = s, e.dev = d,
             e.mounted = (d \in mounted'), e.time = events'
      PROVE  QueueOrdered' /\ Queued' = Queued \cup {e} /\ \A f \in Queued : f.time < e.time
    BY <1>1, <1>3, Sending
<1>4. \/ queue' = queue /\ (s # "Changed" => s \notin subscribed)
                       /\ (s = "Changed" => LiveEntries(d) = {})
      \/ \E e \in EventType :
            /\ queue' = Append(queue, e)
            /\ e.signal = s /\ e.dev = d /\ e.mounted = (d \in mounted') /\ e.time = events'
    BY SentTyped
<1>5. CASE \E e \in EventType :
            /\ queue' = Append(queue, e)
            /\ e.signal = s /\ e.dev = d /\ e.mounted = (d \in mounted') /\ e.time = events'
    <2>1. PICK e \in EventType :
            /\ queue' = Append(queue, e)
            /\ e.signal = s /\ e.dev = d /\ e.mounted = (d \in mounted') /\ e.time = events'
        BY <1>5
    <2>2. QueueOrdered' /\ Queued' = Queued \cup {e} /\ \A f \in Queued : f.time < e.time
        BY <1>3, <2>1
    <2> QED
        BY <1>1, <2>1, <2>2
<1> QED
    BY <1>2, <1>4, <1>5

LEMMA Delivered ==
    ASSUME Typed, Ordered, NEW s, NEW d, Delivers(s, d)
    PROVE  \E e \in Queued :
            /\ e = Head(queue) /\ e.signal = s /\ e.dev = d
            /\ Queued' = Queued \ {e} /\ (\A f \in Queued' : e.time < f.time)
            /\ QueueOrdered' /\ pc = "ready"
BY Delivering DEF Delivers

\* What OnChanged() does to the list: nothing but to mounted states.
LEMMA ListReads ==
    ASSUME Typed, NEW d \in Devices, OnChanged(d)
    PROVE  /\ DOMAIN list' = DOMAIN list
           /\ \A i \in DOMAIN list :
                /\ list'[i].dev = list[i].dev /\ list'[i].deleted = list[i].deleted
                /\ list'[i].born = list[i].born
                /\ list'[i].mounted = IF version = 1 /\ i \in Receivers(d) /\ d \in present
                                      THEN d \in mounted ELSE list[i].mounted
           /\ \A c : LiveEntries(c)' = LiveEntries(c) /\ Named(c)' = Named(c)
<1>1. \A i \in DOMAIN list : list[i] \in EntryType
    BY DEF Typed, PInv
<1>2. version \in {1, 2}
    BY DEF Typed, Sets
<1>3. CASE version = 2
    <2>1. list' = list
        BY <1>3 DEF OnChanged
    <2> QED
        BY <1>3, <2>1, SameList
<1>4. CASE version = 1
    <2> DEFINE news == {i \in Receivers(d) : d \in present /\ list[i].mounted # MountedNow(i, d)}
    <2>1. list' = [i \in DOMAIN list |->
                        IF i \in news THEN [list[i] EXCEPT !.mounted = MountedNow(i, d)]
                                      ELSE list[i]]
        BY <1>4 DEF OnChanged
    <2>2. DOMAIN list' = DOMAIN list
        BY <2>1
    <2>3. ASSUME NEW i \in DOMAIN list
          PROVE  /\ list'[i].dev = list[i].dev /\ list'[i].deleted = list[i].deleted
                 /\ list'[i].born = list[i].born
                 /\ list'[i].mounted = IF i \in news THEN d \in mounted ELSE list[i].mounted
        <3> DEFINE m == d \in mounted
        <3>1. CASE i \in news
            <4>1. list'[i] = [list[i] EXCEPT !.mounted = m]
                BY <2>1, <3>1 DEF MountedNow
            <4> HIDE DEF m, news
            <4>2. list[i] \in EntryType
                BY <1>1
            <4>3. /\ list'[i].dev = list[i].dev /\ list'[i].deleted = list[i].deleted
                  /\ list'[i].born = list[i].born /\ list'[i].mounted = m
                BY <4>1, <4>2 DEF EntryType
            <4> QED
                BY <3>1, <4>3 DEF m
        <3>2. CASE i \notin news
            <4>1. list'[i] = list[i]
                BY <2>1, <3>2
            <4> HIDE DEF m, news
            <4> QED
                BY <3>2, <4>1
        <3> QED
            BY <3>1, <3>2
    <2>4. ASSUME NEW i \in DOMAIN list
          PROVE  list'[i].mounted = IF i \in Receivers(d) /\ d \in present
                                      THEN d \in mounted ELSE list[i].mounted
        <3>1. (i \in Receivers(d) /\ d \in present /\
                  i \notin news) => list[i].mounted = (d \in mounted)
            BY <1>1 DEF MountedNow
        <3>2. i \in news => i \in Receivers(d) /\ d \in present
            OBVIOUS
        <3> HIDE DEF news
        <3> QED
            BY <2>3, <3>1, <3>2
    <2>5. \A c : LiveEntries(c)' = LiveEntries(c) /\ Named(c)' = Named(c)
        <3> HIDE DEF news
        <3> QED
            BY <2>2, <2>3 DEF LiveEntries, Named
    <2> HIDE DEF news
    <2> QED
        BY <1>4, <2>2, <2>3, <2>4, <2>5
<1> QED
    BY <1>2, <1>3, <1>4

\* What a list consists of after a step: what it consisted of, and devices
\* born now.
LEMMA ListAges ==
    ASSUME Typed, Next, pc' # "undefined"
    PROVE  \A j \in DOMAIN list' : list'[j].born = events \/
               \E i \in DOMAIN list : list'[j].born = list[i].born
<1> DEFINE Ages == \A j \in DOMAIN list' : list'[j].born = events \/
    \E i \in DOMAIN list : list'[j].born = list[i].born
<1>1. list' = list => Ages
    OBVIOUS
<1>2. ASSUME NEW d \in Devices, NEW m \in BOOLEAN, list' = Append(list, Entry(d, m)) PROVE Ages
    BY <1>2, ListAppends
<1>3. list' = [i \in DOMAIN list |-> [list[i] EXCEPT !.deleted = TRUE]] => Ages
    <2>1. \A i \in DOMAIN list : list[i] \in EntryType
        BY DEF Typed, PInv
    <2>2. \A i \in DOMAIN list : [list[i] EXCEPT !.deleted = TRUE].born = list[i].born
        BY <2>1 DEF EntryType
    <2> QED
        BY <2>2
<1>4. ASSUME NEW k \in DOMAIN list, list' = Without(k) PROVE Ages
    BY <1>4, ListWithout
<1>5. ASSUME NEW d \in Devices, OnChanged(d) PROVE Ages
    BY <1>5, ListReads
<1>6. ASSUME NEW d \in Devices, OnRemoved(d) PROVE Ages
    <2>1. \A k \in LiveEntries(d) : k \in DOMAIN list
        BY DEF LiveEntries
    <2> HIDE DEF Ages
    <2> QED
        BY <1>1, <1>4, <1>6, <2>1, FirstOfPath
<1>7. reading.mounted \in BOOLEAN
    BY DEF Typed, PInv
<1>8. adding # <<>> => Head(adding).dev \in Devices /\ Head(adding).mounted \in BOOLEAN
    BY NonemptyHead DEF Typed, PInv, AddingType
<1> HIDE DEF Ages
<1>9. ASSUME Construct PROVE Ages
    BY <1>1, <1>2, <1>3, <1>7, <1>9 DEF Construct, Subscribe, Enumerate, Check, ReadMounted,
        ConstructDevice, Checked, Commit, CtorThrows, CtorSwallows
<1>10. ASSUME Handle PROVE Ages
    <2>1. ASSUME AddedAppends PROVE Ages
        BY <1>1, <1>2, <1>8, <2>1 DEF AddedAppends
    <2> QED
        BY <1>1, <1>3, <1>5, <1>6, <1>10, <2>1 DEF Handle, OnAdded, AddedReads, Uninit
<1>11. ASSUME NEW d \in Devices, DeviceChanges(d) PROVE Ages
    BY <1>1, <1>11 DEF DeviceChanges
<1>12. Ages
    BY <1>9, <1>10, <1>11 DEF Next
<1> QED
    BY <1>12 DEF Ages

LEMMA NextOrdered ==
    ASSUME Typed, Ordered, Next, pc' # "undefined"
    PROVE  Ordered'
<1>1. events \in Nat
    BY BoundAssumption DEF Typed, PInv
<1>2. events' >= events /\ events' \in Nat /\ QueueOrdered' /\ \A e \in Queued' : e.time <= events'
    <2>1. ASSUME NEW d \in Devices, DeviceChanges(d) PROVE <1>2
        <3>1. PICK s \in {"Added", "Removed", "Changed"} : Emits(s, d)
            BY <2>1 DEF DeviceChanges, Plug, Unplug, Change
        <3>2. events' = events + 1 /\ QueueOrdered' /\
                  \A e \in Queued' : e \in Queued \/ e.time = events'
            BY <3>1, Emitting
        <3>3. \A e \in Queued : e.time \in Nat /\ e.time <= events
            BY Times DEF Ordered, NoFuture
        <3> QED
            BY <1>1, <3>2, <3>3
    <2>2. CASE events' = events /\ queue' = queue
        BY <1>1, <2>2, SameQueue DEF Ordered, NoFuture, QueueOrdered
    <2>3. CASE events' = events /\ queue' = <<>>
        BY <1>1, <2>3, QueueEmpties
    <2>4. CASE events' = events /\ queue # <<>> /\ queue' = Tail(queue)
        BY <1>1, <2>4, Delivering DEF Ordered, NoFuture
    <2>5. CASE Construct
        <3>1. events' = events /\ (queue' = queue \/ queue' = <<>>)
            BY <2>5 DEF Construct, Subscribe, Enumerate, Check, ReadMounted,
                ConstructDevice, Checked, Commit, CtorThrows, CtorSwallows, ctorVars,
                serviceVars
        <3> QED
            BY <2>2, <2>3, <3>1
    <2>6. CASE Handle
        <3>1. events' = events /\ (queue' = queue \/ queue' = <<>> \/ (queue # <<>> /\
                  queue' = Tail(queue)))
            BY <2>6 DEF Handle, OnAdded, AddedReads, AddedAppends, OnRemoved, OnChanged,
                Uninit, Delivers, handlerUnchanged, serviceVars
        <3> QED
            BY <2>2, <2>3, <2>4, <3>1
    <2> QED
        BY <2>1, <2>5, <2>6 DEF Next
<1>3. \A i \in DOMAIN list : list[i].born <= events /\ list[i].born \in Nat
    <2>1. \A i \in DOMAIN list : list[i] \in EntryType
        BY DEF Typed, PInv
    <2> QED
        BY <2>1, BoundAssumption DEF EntryType, Ordered, NoFuture
<1>4. \A j \in DOMAIN list' : list'[j].born <= events'
    BY <1>1, <1>2, <1>3, ListAges
<1> QED
    BY <1>2, <1>4 DEF Ordered, NoFuture

-----------------------------------------------------------------------------
(***************************************************************************)
(* The phases of the constructor, and the chain of the comings and goings. *)
(***************************************************************************)
Before == {"none", "connected", "subscribed"}

\* What holds as long as the constructor, or its roll-back, is where it is.
Connected ==
    /\ pc \in {"none", "failed", "uninit"} => subscribed = {} /\ Queued = {}
    /\ pc = "connected" => subscribed = {"Added"}
    /\ pc \in {"subscribed", "check", "found", "ready"} => subscribed = {"Added", "Removed"}

Building ==
    /\ pc \in Before \cup {"check"} => list = <<>>
    /\ pc \in Before => found = {}
    /\ pc \notin {"check", "failed"} => todo = {}
    /\ pc = "ready" /\ ~swallowed => found = {}
    /\ adding # <<>> => pc = "ready"
    /\ reading # Nobody => pc = "found" /\ version = 1 /\ reading.dev \in found

Untold == pc \in Before \cup {"check", "found"} =>
    \A d \in Devices : told[d] = "nothing" /\ mountTold[d] = "nothing"

\* The snapshot is not taken yet: what is coming of a device came early.
Unseen ==
    /\ pc \in {"none", "connected"} => \A d \in Devices \ early : Coming(d) = {}
    /\ pc = "subscribed" => \A d \in present \ early : Coming(d) = {}

Phases == Connected /\ Building /\ Untold /\ Unseen

LEMMA NobodyLives ==
    ASSUME Typed, Phases, pc \in Before \cup {"check", "failed", "uninit"}
    PROVE  \A d : LiveEntries(d) = {}
<1>1. CASE pc \in Before \cup {"check"}
    BY <1>1 DEF Phases, Building, LiveEntries
<1>2. CASE pc \in {"failed", "uninit"}
    BY <1>2, AllDeletedNoneLive DEF Typed, PInv
<1> QED
    BY <1>1, <1>2

LEMMA ChangeKeepsPhases ==
    ASSUME Typed, Ordered, Phases, NEW d \in Devices, DeviceChanges(d), pc # "undefined"
    PROVE  Phases'
<1>1. UNCHANGED <<pc, version, subscribed, todo, found, reading, list, adding, told, mountTold,
                  swallowed>>
    BY DEF DeviceChanges
<1>2. Building' /\ Untold'
    BY <1>1 DEF Phases, Building, Untold
<1>3. ASSUME pc \in {"none", "failed", "uninit"} PROVE Queued' = {}
    <2>1. subscribed = {} /\ Queued = {} /\ LiveEntries(d) = {}
        BY <1>3, NobodyLives DEF Phases, Connected, Before
    <2>2. PICK s \in {"Added", "Removed", "Changed"} : Emits(s, d)
        BY DEF DeviceChanges, Plug, Unplug, Change
    <2>3. queue' = queue
        BY <2>1, <2>2 DEF Emits
    <2> QED
        BY <2>1, <2>3, SameQueue
<1>4. Connected'
    BY <1>1, <1>3 DEF Phases, Connected
<1>5. Unseen'
    <2>1. ASSUME pc = "connected" \/ pc = "subscribed", NEW c \in Devices, c \notin early'
          PROVE  /\ pc = "connected" /\ Coming(c) = {} => Coming(c)' = {}
                 /\ pc = "subscribed" /\ c \in present' => c \in present /\
                        (Coming(c) = {} => Coming(c)' = {})
        <3>1. CASE Plug(d)
            <4>1. c # d /\ early' = early \cup {d} /\ present' = present \cup {d}
                BY <2>1, <3>1 DEF Plug
            <4>2. Emits("Added", d)
                BY <3>1 DEF Plug
            <4>3. Coming(c)' = Coming(c)
                BY <4>1, <4>2, Emitting, SameQueued, QueuedGains
            <4> QED
                BY <2>1, <4>1, <4>3
        <3>2. CASE Unplug(d)
            <4>1. early' = early /\ present' = present \ {d} /\ Emits("Removed", d)
                BY <3>2 DEF Unplug
            <4>2. CASE pc = "connected"
                <5>1. "Removed" \notin subscribed
                    BY <4>2 DEF Phases, Connected
                <5>2. queue' = queue
                    BY <4>1, <5>1 DEF Emits
                <5> QED
                    BY <4>2, <5>2, SameQueue, SameQueued
            <4>3. CASE pc = "subscribed" /\ c \in present'
                <5>1. c # d /\ c \in present
                    BY <4>1, <4>3
                <5>2. Coming(c)' = Coming(c)
                    BY <4>1, <5>1, Emitting, SameQueued, QueuedGains
                <5> QED
                    BY <4>3, <5>1, <5>2
            <4> QED
                BY <2>1, <4>2, <4>3
        <3>3. CASE Change(d)
            <4>1. early' = early /\ present' = present /\ Emits("Changed", d)
                BY <3>3 DEF Change
            <4>2. Coming(c)' = Coming(c)
                BY <4>1, Emitting, SameQueued, QueuedGains
            <4> QED
                BY <2>1, <4>1, <4>2
        <3> QED
            BY <3>1, <3>2, <3>3 DEF DeviceChanges
    <2>2. early \subseteq early'
        BY DEF DeviceChanges, Plug, Unplug, Change
    <2>3. present' \subseteq Devices
        BY DEF DeviceChanges, Plug, Unplug, Change, Typed, Sets
    <2>4. pc = "none" => \A c : Coming(c)' = {}
        BY <1>3 DEF Coming
    <2> QED
        BY <1>1, <2>1, <2>2, <2>3, <2>4 DEF Phases, Unseen
<1> QED
    BY <1>2, <1>4, <1>5 DEF Phases

LEMMA ConstructKeepsPhases ==
    ASSUME Typed, Ordered, Phases, Construct
    PROVE  Phases'
<1>1. UNCHANGED <<present, version, adding, told, mountTold, early>>
    BY DEF Construct, Subscribe, Enumerate, Check, ReadMounted, ConstructDevice, Checked,
        Commit, ctorVars, serviceVars
<1>2. adding = <<>>
    BY DEF Phases, Building, Construct, Subscribe, Enumerate, Check, ReadMounted,
        ConstructDevice, Checked, Commit
<1>3. ASSUME CtorThrows, pc # "ready" PROVE Phases'
    <2>1. pc' = "failed" /\ subscribed' = {} /\ queue' = <<>> /\ reading' = Nobody
        BY <1>3 DEF CtorThrows
    <2>2. Connected'
        BY <2>1, QueueEmpties DEF Connected
    <2>3. Building'
        BY <1>1, <1>2, <2>1 DEF Building, Before
    <2> QED
        BY <2>1, <2>2, <2>3 DEF Phases, Untold, Unseen, Before
<1>4. ASSUME CtorSwallows, pc = "found" PROVE Phases'
    <2>1. pc' = "ready" /\ swallowed' = TRUE /\ reading' = Nobody /\ UNCHANGED <<subscribed, queue,
                                                                                 todo, found>>
        BY <1>4 DEF CtorSwallows
    <2>2. Connected'
        BY <1>4, <2>1 DEF Phases, Connected
    <2>3. Building'
        BY <1>1, <1>2, <1>4, <2>1 DEF Phases, Building, Before
    <2> QED
        BY <2>1, <2>2, <2>3 DEF Phases, Untold, Unseen, Before
<1>5. ASSUME NEW s \in {"Added", "Removed"}, Subscribe(s) PROVE Phases'
    <2>1. CASE CtorThrows
        BY <1>3, <1>5, <2>1 DEF Subscribe
    <2>2. CASE /\ subscribed' = subscribed \cup {s}
               /\ pc' = IF s = "Added" THEN "connected" ELSE "subscribed"
               /\ UNCHANGED <<todo, found, reading, list, queue, swallowed>>
        <3>1. \/ s = "Added" /\ pc = "none" /\ pc' = "connected"
              \/ s = "Removed" /\ pc = "connected" /\ pc' = "subscribed"
            BY <1>5, <2>2 DEF Subscribe
        <3>2. Queued' = Queued /\ \A c : Coming(c)' = Coming(c)
            BY <2>2, SameQueue, SameQueued
        <3>3. Connected'
            BY <2>2, <3>1, <3>2 DEF Phases, Connected
        <3>4. Building'
            BY <1>1, <1>2, <2>2, <3>1 DEF Phases, Building, Before
        <3>5. Untold'
            BY <1>1, <3>1 DEF Phases, Untold, Before
        <3>6. Unseen'
            BY <1>1, <3>1, <3>2 DEF Phases, Unseen, Typed, Sets
        <3> QED
            BY <3>3, <3>4, <3>5, <3>6 DEF Phases
    <2> QED
        BY <1>5, <2>1, <2>2 DEF Subscribe
<1>6. ASSUME ~CtorThrows, ~CtorSwallows,
             Enumerate \/ Checked \/ Commit \/ \E d \in Devices : Check(d) \/ ReadMounted(d) \/
                 ConstructDevice(d)
      PROVE  Phases'
    <2>1. /\ UNCHANGED <<subscribed, queue, swallowed>>
          /\ \/ pc = "subscribed" /\ pc' \in {"check", "found"}
             \/ pc = "check" /\ pc' \in {"check", "found"}
             \/ pc = "found" /\ pc' \in {"found", "ready"}
        BY <1>6 DEF Enumerate, Check, ReadMounted, ConstructDevice, Checked, Commit
    <2>2. Queued' = Queued
        BY <2>1, SameQueue
    <2>3. Connected'
        BY <2>1, <2>2 DEF Phases, Connected
    <2>4. Untold'
        BY <1>1, <2>1 DEF Phases, Untold, Before
    <2>5. Unseen'
        BY <2>1 DEF Unseen
    <2>6. /\ pc' = "check" => list' = <<>>
          /\ pc' \in {"found", "ready"} => todo' = {}
          /\ pc' = "ready" => found' = {}
          /\ reading' # Nobody => pc' = "found" /\ version = 1 /\ reading'.dev \in found'
        <3>1. CASE Enumerate \/ Checked \/ Commit
            BY <1>6, <3>1 DEF Enumerate, Checked, Commit, Phases, Building, Before
        <3>2. ASSUME NEW d \in Devices, Check(d) PROVE <2>6
            BY <1>6, <3>2 DEF Check, Phases, Building
        <3>3. ASSUME NEW d \in Devices, ReadMounted(d) PROVE <2>6
            <4>1. pc = "found" /\ version = 1 /\ d \in found /\ UNCHANGED <<pc, list, todo, found>>
                /\ reading' = [dev |-> d, mounted |-> d \in mounted]
                BY <1>6, <3>3 DEF ReadMounted
            <4>2. reading'.dev = d
                BY <4>1
            <4> QED
                BY <4>1, <4>2 DEF Phases, Building
        <3>4. ASSUME NEW d \in Devices, ConstructDevice(d) PROVE <2>6
            BY <1>6, <3>4 DEF ConstructDevice, Phases, Building
        <3> QED
            BY <1>6, <3>1, <3>2, <3>3, <3>4
    <2>7. Building'
        BY <1>1, <1>2, <2>1, <2>6 DEF Building, Before
    <2> QED
        BY <2>3, <2>4, <2>5, <2>7 DEF Phases
<1>7. CtorThrows => pc # "ready"
    BY DEF Construct, Subscribe, Enumerate, Check, ReadMounted, ConstructDevice, Checked,
        Commit
<1>8. CtorSwallows /\ ~CtorThrows => pc = "found" \/
          (\E s \in {"Added", "Removed"} : Subscribe(s)) \/ ~CtorSwallows
    BY DEF Construct, Subscribe, Enumerate, Check, ReadMounted, ConstructDevice, Checked,
        Commit, CtorSwallows
<1> QED
    BY <1>3, <1>4, <1>5, <1>6, <1>7, <1>8 DEF Construct

LEMMA HandleKeepsPhases ==
    ASSUME Typed, Ordered, Phases, Handle, pc # "undefined", pc' # "undefined"
    PROVE  Phases'
<1>1. CASE Uninit
    <2>1. /\ pc = "ready" /\ pc' = "uninit" /\ subscribed' = {} /\ queue' = <<>>
          /\ UNCHANGED <<todo, found, reading, version, adding>> /\ adding = <<>>
        BY <1>1 DEF Uninit, serviceVars
    <2>2. Connected'
        BY <2>1, QueueEmpties DEF Connected
    <2>3. Building'
        BY <2>1 DEF Phases, Building, Before
    <2> QED
        BY <2>1, <2>2, <2>3 DEF Phases, Untold, Unseen, Before
<1>2. CASE ~Uninit
    <2>1. pc = "ready" /\ pc' = "ready" /\ UNCHANGED <<subscribed, todo, found, reading, version,
                                                       swallowed>>
        BY <1>2 DEF Handle, OnAdded, AddedReads, AddedAppends, OnRemoved, OnChanged,
            Delivers, handlerUnchanged, serviceVars, Phases, Building
    <2>2. Building'
        BY <2>1 DEF Phases, Building, Before
    <2> QED
        BY <2>1, <2>2 DEF Phases, Connected, Untold, Unseen, Before
<1> QED
    BY <1>1, <1>2

\* The last coming or going tells whether a device is there, and they alternate,
\* but for a device that slipped away before removals were subscribed to.
LastTells(d) == \A e \in Coming(d) : (\A f \in Coming(d) : f.time <= e.time) =>
    /\ e.signal = "Removed" => d \notin present
    /\ d \notin slipped /\ e.signal = "Added" => d \in present

Alternate(d) == \A e, f \in Coming(d) :
    e.time < f.time /\ (\A g \in Coming(d) : ~(e.time < g.time /\ g.time < f.time))
        => e.signal # f.signal

Chained == \A d \in Devices : LastTells(d) /\ (d \notin slipped => Alternate(d))

LEMMA ChangeKeepsChained ==
    ASSUME Typed, Ordered, Phases, Chained, NEW d \in Devices, DeviceChanges(d), pc # "undefined"
    PROVE  Chained'
<1>1. \A e \in Queued : e.time \in Nat
    BY Times
<1>2. ASSUME NEW c \in Devices, Coming(c)' = Coming(c), c # d \/ Change(d)
      PROVE  LastTells(c)' /\ (c \notin slipped' => Alternate(c)')
    <2>1. (c \in present' <=> c \in present) /\ (c \in slipped' <=> c \in slipped)
        BY <1>2 DEF DeviceChanges, Plug, Unplug, Change
    <2> QED
        BY <1>2, <2>1 DEF Chained, LastTells, Alternate
<1>3. \A c \in Devices : c # d \/ Change(d) => Coming(c)' = Coming(c)
    BY Emitting, SameQueued, QueuedGains DEF DeviceChanges, Plug, Unplug, Change
<1>4. ASSUME Plug(d) PROVE LastTells(d)' /\ (d \notin slipped' => Alternate(d)')
    <2>1. d \notin present /\ d \in present' /\ slipped' = slipped /\ Emits("Added", d)
        BY <1>4 DEF Plug
    <2>2. CASE Queued' = Queued /\ "Added" \notin subscribed
        <3>1. Queued = {}
            BY <2>2 DEF Phases, Connected, Typed, Sets
        <3> QED
            BY <2>2, <3>1 DEF LastTells, Alternate, Coming
    <2>3. ASSUME NEW e \in EventType, Queued' = Queued \cup {e}, e.signal = "Added", e.dev = d,
                 \A f \in Queued : f.time < e.time
          PROVE  LastTells(d)' /\ (d \notin slipped' => Alternate(d)')
        <3>1. Coming(d)' = Coming(d) \cup {e} /\ Coming(d) \subseteq Queued /\ e.time \in Nat
            BY <2>3, QueuedGains, BoundAssumption DEF Coming, EventType
        <3>2. LastTells(d)'
            BY <1>1, <2>1, <2>3, <3>1 DEF LastTells
        <3>3. ASSUME d \notin slipped, NEW a \in Coming(d), NEW b \in Coming(d), a.time < b.time,
                     \A g \in Coming(d)' : ~(a.time < g.time /\ g.time < b.time)
              PROVE  a.signal # b.signal
            BY <3>1, <3>3 DEF Chained, Alternate
        <3>4. ASSUME d \notin slipped, NEW a \in Coming(d),
                     \A g \in Coming(d)' : ~(a.time < g.time /\ g.time < e.time)
              PROVE  a.signal = "Removed"
            <4>1. \A g \in Coming(d) : g.time <= a.time
                BY <1>1, <2>3, <3>1, <3>4
            <4> QED
                BY <2>1, <3>4, <4>1 DEF Chained, LastTells, Coming
        <3>5. d \notin slipped' => Alternate(d)'
            BY <1>1, <2>1, <2>3, <3>1, <3>3, <3>4 DEF Alternate
        <3> QED
            BY <3>2, <3>5
    <2> QED
        BY <2>1, <2>2, <2>3, Emitting
<1>5. ASSUME Unplug(d) PROVE LastTells(d)' /\ (d \notin slipped' => Alternate(d)')
    <2>1. d \in present /\ d \notin present' /\ slipped \subseteq slipped' /\ Emits("Removed", d)
        BY <1>5 DEF Unplug
    <2>2. CASE Queued' = Queued /\ "Removed" \notin subscribed
        <3>1. pc \in {"none", "failed", "uninit", "connected"}
            BY <2>2 DEF Phases, Connected, Typed, Sets
        <3>2. d \notin slipped' => Coming(d)' = {}
            <4>1. CASE pc \in {"none", "failed", "uninit"}
                BY <2>2, <4>1 DEF Phases, Connected, Coming
            <4>2. CASE pc = "connected"
                <5>1. d \notin slipped' => d \notin early
                    BY <1>5, <4>2 DEF Unplug
                <5> QED
                    BY <2>2, <4>2, <5>1, SameQueued DEF Phases, Unseen
            <4> QED
                BY <3>1, <4>1, <4>2
        <3>3. LastTells(d)'
            BY <2>1, <3>2 DEF LastTells
        <3> QED
            BY <3>2, <3>3 DEF Alternate
    <2>3. ASSUME NEW e \in EventType, Queued' = Queued \cup {e}, e.signal = "Removed", e.dev = d,
                 \A f \in Queued : f.time < e.time
          PROVE  LastTells(d)' /\ (d \notin slipped' => Alternate(d)')
        <3>1. Coming(d)' = Coming(d) \cup {e} /\ Coming(d) \subseteq Queued /\ e.time \in Nat
            BY <2>3, QueuedGains, BoundAssumption DEF Coming, EventType
        <3>2. LastTells(d)'
            BY <1>1, <2>1, <2>3, <3>1 DEF LastTells
        <3>3. ASSUME d \notin slipped, NEW a \in Coming(d), NEW b \in Coming(d), a.time < b.time,
                     \A g \in Coming(d)' : ~(a.time < g.time /\ g.time < b.time)
              PROVE  a.signal # b.signal
            BY <3>1, <3>3 DEF Chained, Alternate
        <3>4. ASSUME d \notin slipped, NEW a \in Coming(d),
                     \A g \in Coming(d)' : ~(a.time < g.time /\ g.time < e.time)
              PROVE  a.signal = "Added"
            <4>1. \A g \in Coming(d) : g.time <= a.time
                BY <1>1, <2>3, <3>1, <3>4
            <4>2. a.signal \in {"Added", "Removed"}
                BY DEF Coming
            <4> QED
                BY <2>1, <3>4, <4>1, <4>2 DEF Chained, LastTells
        <3>5. d \notin slipped' => Alternate(d)'
            BY <1>1, <2>1, <2>3, <3>1, <3>3, <3>4 DEF Alternate
        <3> QED
            BY <3>2, <3>5
    <2> QED
        BY <2>1, <2>2, <2>3, Emitting
<1>6. \A c \in Devices : LastTells(c)' /\ (c \notin slipped' => Alternate(c)')
    BY <1>2, <1>3, <1>4, <1>5 DEF DeviceChanges
<1> QED
    BY <1>6 DEF Chained

\* An event that is delivered is before all others.
LEMMA DeliveryKeepsChained ==
    ASSUME Typed, Chained, present' = present, slipped' = slipped,
           NEW e \in Queued, Queued' = Queued \ {e}, \A f \in Queued' : e.time < f.time
    PROVE  Chained'
<1>1. \A f \in Queued : f.time \in Nat
    BY Times
<1>2. \A c : Coming(c)' = Coming(c) \ {e} /\ Coming(c) \subseteq Queued
    BY QueuedLoses DEF Coming
<1>3. ASSUME NEW c \in Devices PROVE LastTells(c)'
    <2> SUFFICES ASSUME NEW a \in Coming(c)', \A f \in Coming(c)' : f.time <= a.time
                 PROVE  /\ a.signal = "Removed" => c \notin present
                        /\ c \notin slipped /\ a.signal = "Added" => c \in present
        BY DEF LastTells
    <2>1. a \in Coming(c) /\ e.time < a.time /\ e.time <= a.time
        BY <1>1, <1>2
    <2>2. \A f \in Coming(c) : f.time <= a.time
        BY <1>2, <2>1
    <2> QED
        BY <2>1, <2>2 DEF Chained, LastTells
<1>4. ASSUME NEW c \in Devices, c \notin slipped PROVE Alternate(c)'
    <2> SUFFICES ASSUME NEW a \in Coming(c)', NEW b \in Coming(c)', a.time < b.time,
                        \A g \in Coming(c)' : ~(a.time < g.time /\ g.time < b.time)
                 PROVE  a.signal # b.signal
        BY DEF Alternate
    <2>1. a \in Coming(c) /\ b \in Coming(c) /\ ~(a.time < e.time)
        BY <1>1, <1>2
    <2>2. \A g \in Coming(c) : ~(a.time < g.time /\ g.time < b.time)
        BY <1>2, <2>1
    <2> QED
        BY <1>4, <2>1, <2>2 DEF Chained, Alternate
<1> QED
    BY <1>3, <1>4 DEF Chained

LEMMA OthersKeepChained ==
    ASSUME Typed, Ordered, Chained, Construct \/ Handle, pc # "undefined"
    PROVE  Chained'
<1>1. present' = present /\ slipped' = slipped
    BY DEF Construct, Subscribe, Enumerate, Check, ReadMounted, ConstructDevice, Checked,
        Commit, ctorVars, Handle, OnAdded, AddedReads, AddedAppends, OnRemoved, OnChanged,
        Uninit, handlerUnchanged, serviceVars, ghosts
<1>2. queue' = queue \/ queue' = <<>> \/ (queue # <<>> /\ queue' = Tail(queue))
    BY DEF Construct, Subscribe, Enumerate, Check, ReadMounted, ConstructDevice, Checked,
        Commit, CtorThrows, CtorSwallows, Handle, OnAdded, AddedReads, AddedAppends,
        OnRemoved, OnChanged, Uninit, Delivers
<1>3. CASE queue' = queue
    <2>1. \A c : Coming(c)' = Coming(c)
        BY <1>3, SameQueue, SameQueued
    <2> QED
        BY <1>1, <2>1 DEF Chained, LastTells, Alternate
<1>4. CASE queue' = <<>>
    <2>1. \A c : Coming(c)' = {}
        BY <1>4, QueueEmpties
    <2> QED
        BY <2>1 DEF Chained, LastTells, Alternate
<1>5. CASE queue # <<>> /\ queue' = Tail(queue)
    BY <1>1, <1>5, Delivering, DeliveryKeepsChained
<1> QED
    BY <1>2, <1>3, <1>4, <1>5

-----------------------------------------------------------------------------
(***************************************************************************)
(* What the handlers do to the calls of OnDeviceAdded() and to the list.   *)
(***************************************************************************)
\* The calls of OnDeviceAdded() of a device after one begins, reads or ends.
LEMMA AddingMore ==
    ASSUME Typed, NEW d \in Devices, adding' = <<[dev |-> d, at |-> "slots",
                                                 mounted |-> FALSE]>> \o adding
    PROVE  /\ InAdding(d)' # {}
           /\ \A c : c # d => (InAdding(c)' = {} <=> InAdding(c) = {})
           /\ \A c : (c # d \/ InAdding(c) = {}) /\ (\A i, j \in InAdding(c) : i = j)
                        => \A i, j \in InAdding(c)' : i = j
           /\ \A c : \A j \in InAdding(c)' : adding'[j].at = "slots" \/
                  \E i \in InAdding(c) : adding'[j] = adding[i]
<1> DEFINE r == [dev |-> d, at |-> "slots", mounted |-> FALSE]
<1>1. r \in AddingType /\ r.dev = d /\ r.at = "slots"
    BY DEF AddingType
<1>2. adding' = <<r>> \o adding
    OBVIOUS
<1> HIDE DEF r
<1>3. /\ 1 \in DOMAIN adding' /\ adding'[1] = r
      /\ \A i \in DOMAIN adding : i \in Nat /\ i >= 1 /\ i + 1 \in DOMAIN adding' /\
             adding'[i + 1] = adding[i]
      /\ \A j \in DOMAIN adding' : j # 1 => j \in Nat /\ j - 1 \in DOMAIN adding /\
             adding'[j] = adding[j - 1]
    BY <1>1, <1>2, AddingCons
<1>4. InAdding(d)' # {}
    BY <1>1, <1>3 DEF InAdding
<1>5. \A c : \A i \in InAdding(c) : i + 1 \in InAdding(c)'
    BY <1>3 DEF InAdding
<1>6. \A c : \A j \in InAdding(c)' : (j = 1 /\ c = d) \/ (j # 1 /\ j \in Nat /\
          j - 1 \in InAdding(c) /\ adding'[j] = adding[j - 1])
    BY <1>1, <1>3 DEF InAdding
<1>7. \A c : c # d => (InAdding(c)' = {} <=> InAdding(c) = {})
    BY <1>5, <1>6
<1>8. ASSUME NEW c, c # d \/ InAdding(c) = {}, \A i, j \in InAdding(c) : i = j,
             NEW i \in InAdding(c)', NEW j \in InAdding(c)'
      PROVE  i = j
    <2>1. CASE c # d
        <3>1. /\ i \in Nat /\ j \in Nat /\ i - 1 \in InAdding(c) /\ j - 1 \in InAdding(c)
            BY <1>6, <2>1
        <3>2. i - 1 = j - 1
            BY <1>8, <3>1
        <3> QED
            BY <3>1, <3>2
    <2>2. CASE InAdding(c) = {}
        BY <1>6, <2>2
    <2> QED
        BY <1>8, <2>1, <2>2
<1>9. \A c : \A j \in InAdding(c)' : adding'[j].at = "slots" \/
          \E i \in InAdding(c) : adding'[j] = adding[i]
    BY <1>1, <1>3, <1>6
<1> QED
    BY <1>4, <1>7, <1>8, <1>9

LEMMA AddingLess ==
    ASSUME Typed, adding # <<>>, adding' = Tail(adding), NEW d \in Devices, d = Head(adding).dev
    PROVE  /\ \A c : c # d => (InAdding(c)' = {} <=> InAdding(c) = {})
           /\ InAdding(d) # {}
           /\ \A c : (\A i, j \in InAdding(c) : i = j) => \A i, j \in InAdding(c)' : i = j
           /\ (\A i, j \in InAdding(d) : i = j) => InAdding(d)' = {}
           /\ \A c : \A j \in InAdding(c)' : j \in Nat /\ j >= 1 /\ j + 1 \in InAdding(c) /\
                  adding'[j] = adding[j + 1]
<1>1. /\ 1 \in DOMAIN adding /\ Head(adding) = adding[1] /\ adding[1] \in AddingType
      /\ \A i \in DOMAIN adding : i # 1 => i \in Nat /\ i - 1 \in DOMAIN adding' /\
             adding'[i - 1] = adding[i]
      /\ \A j \in DOMAIN adding' : j \in Nat /\ j >= 1 /\ j + 1 \in DOMAIN adding /\
             adding'[j] = adding[j + 1]
    BY AddingTail
<1>2. 1 \in InAdding(d) /\ d \in Devices /\ \A c : 1 \in InAdding(c) => c = d
    BY <1>1 DEF InAdding, AddingType
<1>3. \A c : \A i \in InAdding(c) : i # 1 => i - 1 \in InAdding(c)'
    BY <1>1 DEF InAdding
<1>4. \A c : \A j \in InAdding(c)' : j \in Nat /\ j >= 1 /\ j + 1 \in InAdding(c) /\
          adding'[j] = adding[j + 1]
    BY <1>1 DEF InAdding
<1>5. \A c : c # d => (InAdding(c)' = {} <=> InAdding(c) = {})
    BY <1>2, <1>3, <1>4
<1>6. ASSUME NEW c, \A i, j \in InAdding(c) : i = j, NEW i \in InAdding(c)', NEW j \in InAdding(c)'
      PROVE  i = j
    <2>1. i + 1 \in InAdding(c) /\ j + 1 \in InAdding(c) /\ i \in Nat /\ j \in Nat
        BY <1>4
    <2>2. i + 1 = j + 1
        BY <1>6, <2>1
    <2> QED
        BY <2>1, <2>2
<1>7. ASSUME \A i, j \in InAdding(d) : i = j PROVE InAdding(d)' = {}
    <2> SUFFICES ASSUME NEW j \in InAdding(d)' PROVE FALSE
        OBVIOUS
    <2>1. j \in Nat /\ j >= 1 /\ j + 1 \in InAdding(d)
        BY <1>4
    <2>2. j + 1 = 1
        BY <1>2, <1>7, <2>1
    <2> QED
        BY <2>1, <2>2
<1> QED
    BY <1>2, <1>4, <1>5, <1>6, <1>7

\* The mounted state is read, or the device is gone.
LEMMA AddingReads ==
    ASSUME Typed, AddedReads
    PROVE  \/ /\ Head(adding).dev \in present /\ failed' = failed
              /\ \A c : InAdding(c)' = InAdding(c)
              /\ 1 \in DOMAIN adding /\ adding[1] = Head(adding) /\ adding[1].at = "slots"
              /\ adding'[1].at = "connect" /\ adding'[1].mounted = (Head(adding).dev \in mounted)
              /\ \A i \in DOMAIN adding : i # 1 => adding'[i] = adding[i]
           \/ /\ Head(adding).dev \notin present /\ adding # <<>> /\ adding' = Tail(adding)
              /\ failed' = failed \cup {Head(adding).dev}
<1>1. adding # <<>> /\ Head(adding).at = "slots"
    BY DEF AddedReads
<1>2. 1 \in DOMAIN adding /\ adding[1] \in AddingType /\ Head(adding) = adding[1]
    BY <1>1, NonemptyHead DEF Typed, PInv
<1>3. CASE Head(adding).dev \in present
    <2> DEFINE m == Head(adding).dev \in mounted
               r == [[adding[1] EXCEPT !.at = "connect"] EXCEPT !.mounted = m]
    <2>1. adding' = [adding EXCEPT ![1].at = "connect", ![1].mounted = m] /\ failed' = failed
        BY <1>3 DEF AddedReads
    <2>2. adding' = [adding EXCEPT ![1] = r]
        BY <1>2, <2>1
    <2> HIDE DEF m
    <2>3. r.dev = adding[1].dev /\ r.at = "connect" /\ r.mounted = m
        BY <1>2 DEF AddingType
    <2> HIDE DEF r
    <2>4. DOMAIN adding' = DOMAIN adding /\ adding'[1] = r /\
              \A i \in DOMAIN adding : i # 1 => adding'[i] = adding[i]
        BY <1>2, <2>2
    <2>5. \A c : InAdding(c)' = InAdding(c)
        BY <2>3, <2>4 DEF InAdding
    <2> QED
        BY <1>1, <1>2, <1>3, <2>1, <2>3, <2>4, <2>5 DEF m
<1>4. CASE Head(adding).dev \notin present
    BY <1>1, <1>4 DEF AddedReads
<1> QED
    BY <1>3, <1>4

\* The list after OnDeviceRemoved().
LEMMA Removal ==
    ASSUME Typed, NEW d \in Devices, OnRemoved(d), pc' # "undefined"
    PROVE  /\ \A c : \A j \in LiveEntries(c)' : \E i \in LiveEntries(c) : list'[j] = list[i]
           /\ \A c : c # d => \A i \in LiveEntries(c) : \E j \in LiveEntries(c)' :
                  list'[j] = list[i]
           /\ \A c : (\A i, j \in LiveEntries(c) : i = j) => \A i, j \in LiveEntries(c)' : i = j
           /\ (\A i, j \in LiveEntries(d) : i = j) => LiveEntries(d)' = {}
           /\ \A c : c # d /\ Named(c) # {} => Named(c)' # {}
           /\ \A i \in DOMAIN list : list[i].dev # d => \E j \in DOMAIN list' : list'[j] = list[i]
<1> DEFINE AsTold ==
        /\ \A c : \A j \in LiveEntries(c)' : \E i \in LiveEntries(c) : list'[j] = list[i]
        /\ \A c : c # d => \A i \in LiveEntries(c) : \E j \in LiveEntries(c)' : list'[j] = list[i]
        /\ \A c : (\A i, j \in LiveEntries(c) : i = j) => \A i, j \in LiveEntries(c)' : i = j
        /\ (\A i, j \in LiveEntries(d) : i = j) => LiveEntries(d)' = {}
        /\ \A c : c # d /\ Named(c) # {} => Named(c)' # {}
        /\ \A i \in DOMAIN list : list[i].dev # d => \E j \in DOMAIN list' : list'[j] = list[i]
<1> SUFFICES AsTold
    OBVIOUS
<1>1. CASE Named(d) = {} /\ list' = list
    <2>1. LiveEntries(d) = {}
        BY <1>1 DEF Named, LiveEntries
    <2> QED
        BY <1>1, <2>1, SameList
<1>2. ASSUME NEW k \in LiveEntries(d), list' = Without(k) PROVE AsTold
    <2>1. k \in DOMAIN list /\ list[k].dev = d
        BY DEF LiveEntries
    <2>2. /\ \A j \in DOMAIN list' : \E i \in DOMAIN list : i # k /\ list'[j] = list[i]
          /\ \A i \in DOMAIN list \ {k} : \E j \in DOMAIN list' : list'[j] = list[i]
          /\ \A c : (\A i, j \in LiveEntries(c) : i = j) => \A i, j \in LiveEntries(c)' : i = j
        BY <1>2, <2>1, ListWithout
    <2>3. \A c : \A j \in LiveEntries(c)' : \E i \in LiveEntries(c) : i # k /\ list'[j] = list[i]
        <3> SUFFICES ASSUME NEW c, NEW j \in LiveEntries(c)'
                     PROVE  \E i \in LiveEntries(c) : i # k /\ list'[j] = list[i]
            OBVIOUS
        <3>1. j \in DOMAIN list' /\ list'[j].dev = c /\ ~list'[j].deleted
            BY DEF LiveEntries
        <3>2. PICK i \in DOMAIN list : i # k /\ list'[j] = list[i]
            BY <2>2, <3>1
        <3> QED
            BY <3>1, <3>2 DEF LiveEntries
    <2>4. \A c : c # d => \A i \in LiveEntries(c) : \E j \in LiveEntries(c)' : list'[j] = list[i]
        <3> SUFFICES ASSUME NEW c, c # d, NEW i \in LiveEntries(c)
                     PROVE  \E j \in LiveEntries(c)' : list'[j] = list[i]
            OBVIOUS
        <3>1. i \in DOMAIN list \ {k} /\ list[i].dev = c /\ ~list[i].deleted
            BY <2>1 DEF LiveEntries
        <3>2. PICK j \in DOMAIN list' : list'[j] = list[i]
            BY <2>2, <3>1
        <3> QED
            BY <3>1, <3>2 DEF LiveEntries
    <2>5. \A c : c # d /\ Named(c) # {} => Named(c)' # {}
        <3> SUFFICES ASSUME NEW c, c # d, NEW i \in Named(c) PROVE Named(c)' # {}
            OBVIOUS
        <3>1. i \in DOMAIN list \ {k} /\ list[i].dev = c
            BY <2>1 DEF Named
        <3>2. PICK j \in DOMAIN list' : list'[j] = list[i]
            BY <2>2, <3>1
        <3> QED
            BY <3>1, <3>2 DEF Named
    <2>6. \A i \in DOMAIN list : list[i].dev # d => \E j \in DOMAIN list' : list'[j] = list[i]
        BY <2>1, <2>2
    <2> QED
        BY <2>2, <2>3, <2>4, <2>5, <2>6
<1> HIDE DEF AsTold
<1> QED
    BY <1>1, <1>2, FirstOfPath

-----------------------------------------------------------------------------
(***************************************************************************)
(* The invariant of a device.  No position and no count appears in it: it  *)
(* relates what is there, what is queued, what is in the list and what the *)
(* slots were told.  What happens to a device keeps it.                    *)
(***************************************************************************)
Phase == pc \in {"check", "found", "ready"}

\* A device that is there is known, unless its addition is still to be handled.
MissFor(d) == Phase /\ ~swallowed /\ d \in present /\ Coming(d) = {} =>
    d \in todo \cup found \cup failed \/ LiveEntries(d) # {} \/ InAdding(d) # {}

Listing(d) == pc \in {"check", "found"} /\ d \in todo \cup found

\* The handlers have seen the device come: what they have yet to see, if
\* anything, is that it goes.
HandledPresent(d) ==
    /\ Coming(d) = {} => d \in present
    /\ \A e \in Coming(d) : (\A f \in Coming(d) : e.time <= f.time) => e.signal = "Removed"

\* A device that the handlers know, they know once, and have seen it come.
TwiceFor(d) == Phase /\ d \notin early \cup overtaken =>
    /\ Listing(d) \/ LiveEntries(d) # {} \/ InAdding(d) # {} => HandledPresent(d)
    /\ \A i, j \in LiveEntries(d) : i = j
    /\ \A i, j \in InAdding(d) : i = j
    /\ Listing(d) => LiveEntries(d) = {}
    /\ InAdding(d) = {} \/ LiveEntries(d) = {}

\* What UDisks1 has read is the mounted state, but for changes that are queued.
CachedFor(d) == version = 1 /\ d \in present \ (early \cup overtaken \cup unread) /\
    Coming(d) = {} =>
    /\ reading.dev = d => reading.mounted = (d \in mounted)
    /\ \A i \in InAdding(d) : adding[i].at = "connect" => adding[i].mounted = (d \in mounted)
    /\ \A i \in LiveEntries(d) :
        (\A e \in Changes(d) : e.time <= list[i].born) => list[i].mounted = (d \in mounted)

\* What the slots were told last of a device, once nothing of it is queued.
ToldFor(d) == pc = "ready" =>
    /\ d \notin slipped /\ Coming(d) = {} /\ told[d] = "added" =>
        d \in present \/ (version = 1 /\ (d \in failed \/ InAdding(d) # {}))
    /\ Coming(d) = {} /\ told[d] = "removed" => d \notin present
    /\ version = 1 /\ told[d] = "added" => d \in failed \/ InAdding(d) # {} \/ Named(d) # {}
    /\ \A i \in InAdding(d) : adding[i].at = "connect" => i = 1 /\ (Coming(d) = {} => d \in present)

\* A device whose mounted state was told is there to hear of further changes.
MountFor(d) == pc = "ready" /\ mountTold[d] # "nothing" =>
    /\ \E i \in LiveEntries(d) :
        /\ \A e \in Changes(d) : list[i].born < e.time
        /\ version = 1 => mountTold[d] = MountSignal(list[i].mounted)
    /\ Coming(d) = {} /\ Changes(d) = {} /\ d \in present =>
           mountTold[d] = MountSignal(d \in mounted)

\* The last signal of a change that a device will hear says the mounted state.
LastFor(d) == version = 2 /\ d \in present => \A e \in Changes(d) :
    (/\ \E i \in LiveEntries(d) : list[i].born < e.time
     /\ \A f \in Coming(d) \cup Changes(d) : f.time <= e.time)
        => e.mounted = (d \in mounted)

MirrorOf(d) == MissFor(d) /\ TwiceFor(d) /\ CachedFor(d) /\ ToldFor(d) /\ MountFor(d) /\ LastFor(d)

LEMMA BornInTime == ASSUME Typed, Ordered PROVE \A i \in DOMAIN list : list[i].born \in Nat /\
    list[i].born <= events
<1>1. \A i \in DOMAIN list : list[i] \in EntryType
    BY DEF Typed, PInv
<1> QED
    BY <1>1, BoundAssumption DEF EntryType, Ordered, NoFuture

\* Nothing of it changes for the other devices.
LEMMA OthersUntouched ==
    ASSUME NEW c \in Devices, MirrorOf(c), UNCHANGED <<pc, version, todo, found, reading, list,
                                                       adding,
                told, mountTold, overtaken, failed, swallowed>>,
           Coming(c)' = Coming(c), Changes(c)' = Changes(c),
           c \in present' <=> c \in present, (c \in mounted') = (c \in mounted),
           c \in slipped => c \in slipped', c \in early => c \in early', c \in unread =>
               c \in unread'
    PROVE  MirrorOf(c)'
<1>1. LiveEntries(c)' = LiveEntries(c) /\ Named(c)' = Named(c) /\ InAdding(c)' = InAdding(c)
    BY SameList, SameAdding
<1>2. MissFor(c)'
    BY <1>1 DEF MirrorOf, MissFor, Phase
<1>3. TwiceFor(c)'
    BY <1>1 DEF MirrorOf, TwiceFor, Phase, Listing, HandledPresent
<1>4. CachedFor(c)'
    BY <1>1 DEF MirrorOf, CachedFor
<1>5. ToldFor(c)'
    BY <1>1 DEF MirrorOf, ToldFor
<1>6. MountFor(c)'
    BY <1>1 DEF MirrorOf, MountFor
<1>7. LastFor(c)'
    BY <1>1 DEF MirrorOf, LastFor
<1> QED
    BY <1>2, <1>3, <1>4, <1>5, <1>6, <1>7 DEF MirrorOf

\* Nobody knows of a device in the other phases.
LEMMA OutOfPhase ==
    ASSUME Typed, Phases, ~Phase, pc # "undefined", NEW d \in Devices
    PROVE  LiveEntries(d) = {} /\ InAdding(d) = {} /\ reading.dev # d
<1>1. LiveEntries(d) = {}
    BY NobodyLives DEF Phase, Typed, Sets, Before
<1>2. adding = <<>> /\ reading = Nobody
    BY DEF Phases, Building, Phase
<1>3. InAdding(d) = {}
    BY <1>2 DEF InAdding
<1> QED
    BY <1>1, <1>2, <1>3, DevicesAssumption DEF Nobody

LEMMA PlugKeepsMirror ==
    ASSUME Typed, Ordered, Phases, NEW d \in Devices, MirrorOf(d), DeviceChanges(d), Plug(d),
           pc # "undefined"
    PROVE  MirrorOf(d)'
<1>1. UNCHANGED <<mounted, version, pc, todo, found, reading, list, adding, told, mountTold,
                  overtaken, unread, failed, swallowed, slipped>>
    BY DEF DeviceChanges, Plug
<1>2. d \notin present /\ d \in present' /\ early \subseteq early' /\ Emits("Added", d)
    BY DEF Plug
<1>3. LiveEntries(d)' = LiveEntries(d) /\ Named(d)' = Named(d) /\ InAdding(d)' = InAdding(d)
    BY <1>1, SameList, SameAdding
<1>4. CASE Queued' = Queued /\ "Added" \notin subscribed
    <2>1. ~Phase /\ pc # "ready" /\ Queued' = {}
        BY <1>4 DEF Phases, Connected, Phase, Typed, Sets
    <2>2. Changes(d)' = {}
        BY <2>1 DEF Changes
    <2>3. CachedFor(d)'
        BY <1>1, <1>3, <2>1, OutOfPhase DEF CachedFor
    <2> QED
        BY <1>1, <2>1, <2>2, <2>3 DEF MirrorOf, MissFor, TwiceFor, ToldFor, MountFor,
            LastFor, Phase
<1>5. ASSUME NEW e \in EventType, Queued' = Queued \cup {e}, e.signal = "Added", e.dev = d,
             e.time = events', \A f \in Queued : f.time < e.time
      PROVE  MirrorOf(d)'
    <2>1. /\ Coming(d)' = Coming(d) \cup {e} /\ Changes(d)' = Changes(d)
          /\ Coming(d) \subseteq Queued /\ Changes(d) \subseteq Queued
        BY <1>5, QueuedGains DEF Coming, Changes
    <2>2. MissFor(d)' /\ CachedFor(d)'
        BY <2>1 DEF MissFor, CachedFor
    <2>3. HandledPresent(d) => HandledPresent(d)'
        <3> SUFFICES ASSUME HandledPresent(d), NEW a \in Coming(d)', \A f \in Coming(d)' :
            a.time <= f.time
                     PROVE  a.signal = "Removed"
            BY <2>1 DEF HandledPresent
        <3>1. PICK b \in Coming(d) : TRUE
            BY <1>2 DEF HandledPresent
        <3>2. b.time < e.time /\ b.time \in Nat /\ e.time \in Nat
            BY <1>5, <2>1, Times, BoundAssumption DEF EventType
        <3>3. a # e
            BY <2>1, <3>1, <3>2
        <3> QED
            BY <2>1, <3>3 DEF HandledPresent
    <2>4. TwiceFor(d)'
        BY <1>1, <1>2, <1>3, <2>3 DEF MirrorOf, TwiceFor, Phase, Listing
    <2>5. ToldFor(d)'
        BY <1>1, <1>2, <1>3, <2>1 DEF MirrorOf, ToldFor
    <2>6. MountFor(d)'
        BY <1>1, <1>3, <2>1 DEF MirrorOf, MountFor
    <2>7. LastFor(d)'
        <3>1. \A f \in Changes(d)' : ~(e.time <= f.time)
            BY <1>5, <2>1, Times, BoundAssumption DEF EventType
        <3> QED
            BY <2>1, <3>1 DEF LastFor
    <2> QED
        BY <2>2, <2>4, <2>5, <2>6, <2>7 DEF MirrorOf
<1> QED
    BY <1>2, <1>4, <1>5, Emitting

LEMMA UnplugKeepsMirror ==
    ASSUME Typed, Ordered, Phases, NEW d \in Devices, MirrorOf(d), DeviceChanges(d), Unplug(d),
           pc # "undefined"
    PROVE  MirrorOf(d)'
<1>1. UNCHANGED <<version, pc, todo, found, reading, list, adding, told, mountTold,
                  overtaken, unread, failed, swallowed, early>>
    BY DEF DeviceChanges, Unplug
<1>2. d \in present /\ d \notin present' /\ slipped \subseteq slipped' /\ Emits("Removed", d)
    BY DEF Unplug
<1>3. LiveEntries(d)' = LiveEntries(d) /\ Named(d)' = Named(d) /\ InAdding(d)' = InAdding(d)
    BY <1>1, SameList, SameAdding
<1>4. MissFor(d)' /\ CachedFor(d)' /\ LastFor(d)'
    BY <1>2 DEF MissFor, CachedFor, LastFor
<1>5. CASE Queued' = Queued /\ "Removed" \notin subscribed
    <2>1. ~Phase /\ pc # "ready"
        BY <1>5 DEF Phases, Connected, Phase, Typed, Sets
    <2> QED
        BY <1>1, <1>4, <2>1 DEF MirrorOf, TwiceFor, ToldFor, MountFor, Phase
<1>6. ASSUME NEW e \in EventType, Queued' = Queued \cup {e}, e.signal = "Removed", e.dev = d,
             e.time = events', \A f \in Queued : f.time < e.time
      PROVE  MirrorOf(d)'
    <2>1. Coming(d)' = Coming(d) \cup {e} /\ Changes(d)' = Changes(d)
        BY <1>6, QueuedGains
    <2>2. HandledPresent(d) => HandledPresent(d)'
        BY <1>6, <2>1 DEF HandledPresent
    <2>3. TwiceFor(d)'
        BY <1>1, <1>3, <2>2 DEF MirrorOf, TwiceFor, Phase, Listing
    <2>4. ToldFor(d)'
        BY <1>1, <1>2, <1>3, <2>1 DEF MirrorOf, ToldFor
    <2>5. MountFor(d)'
        BY <1>1, <1>2, <1>3, <2>1 DEF MirrorOf, MountFor
    <2> QED
        BY <1>4, <2>3, <2>4, <2>5 DEF MirrorOf
<1> QED
    BY <1>2, <1>5, <1>6, Emitting

LEMMA MountKeepsMirror ==
    ASSUME Typed, Ordered, Phases, NEW d \in Devices, MirrorOf(d), DeviceChanges(d), Change(d),
           pc # "undefined"
    PROVE  MirrorOf(d)'
<1>1. UNCHANGED <<present, version, pc, todo, found, reading, list, adding, told, mountTold,
                  overtaken, failed, swallowed, early, slipped>>
    BY DEF DeviceChanges, Change
<1>2. d \in present /\ Emits("Changed", d) /\ unread \subseteq unread'
      /\ (reading.dev = d \/ (\E i \in InAdding(d) : adding[i].at = "connect") => d \in unread')
    BY DEF Change, InAdding
<1>3. LiveEntries(d)' = LiveEntries(d) /\ Named(d)' = Named(d) /\ InAdding(d)' = InAdding(d)
      /\ LiveEntries(d) \subseteq DOMAIN list
    BY <1>1, SameList, SameAdding DEF LiveEntries
<1>4. events \in Nat /\ events' = events + 1 /\ Coming(d)' = Coming(d)
    BY <1>2, Emitting, SameQueued, QueuedGains
<1>5. MissFor(d)' /\ TwiceFor(d)' /\ ToldFor(d)'
    BY <1>1, <1>3, <1>4 DEF MirrorOf, MissFor, TwiceFor, ToldFor, Phase, Listing,
        HandledPresent
<1>6. CASE Queued' = Queued /\ LiveEntries(d) = {}
    <2>1. CachedFor(d)'
        BY <1>1, <1>2, <1>3, <1>6 DEF CachedFor
    <2> QED
        BY <1>1, <1>3, <1>5, <1>6, <2>1 DEF MirrorOf, MountFor, LastFor
<1>7. ASSUME NEW e \in EventType, Queued' = Queued \cup {e}, e.signal = "Changed", e.dev = d,
             e.mounted = (d \in mounted'), e.time = events', \A f \in Queued : f.time < e.time
      PROVE  MirrorOf(d)'
    <2>1. Changes(d)' = Changes(d) \cup {e} /\ Changes(d) \subseteq Queued
        BY <1>7, QueuedGains DEF Changes
    <2>2. \A i \in LiveEntries(d) : list[i].born < e.time /\ ~(e.time <= list[i].born)
        BY <1>3, <1>4, <1>7, BornInTime
    <2>3. CachedFor(d)'
        BY <1>1, <1>2, <1>3, <2>1, <2>2 DEF CachedFor
    <2>4. MountFor(d)'
        BY <1>1, <1>3, <2>1, <2>2 DEF MirrorOf, MountFor
    <2>5. LastFor(d)'
        <3>1. \A f \in Changes(d) : ~(e.time <= f.time)
            BY <1>7, <2>1, Times, BoundAssumption DEF EventType
        <3> QED
            BY <1>7, <2>1, <3>1 DEF LastFor
    <2> QED
        BY <1>5, <2>3, <2>4, <2>5 DEF MirrorOf
<1> QED
    BY <1>2, <1>6, <1>7, Emitting

LEMMA ChangeKeepsMirror ==
    ASSUME Typed, Ordered, Phases, NEW d \in Devices, DeviceChanges(d), pc # "undefined",
           NEW c \in Devices, MirrorOf(c)
    PROVE  MirrorOf(c)'
<1>1. CASE c = d
    BY <1>1, PlugKeepsMirror, UnplugKeepsMirror, MountKeepsMirror DEF DeviceChanges
<1>2. CASE c # d
    <2>1. UNCHANGED <<pc, version, todo, found, reading, list, adding, told, mountTold, overtaken,
                      failed, swallowed>>
        BY DEF DeviceChanges
    <2>2. PICK s \in {"Added", "Removed", "Changed"} : Emits(s, d)
        BY DEF DeviceChanges, Plug, Unplug, Change
    <2>3. Coming(c)' = Coming(c) /\ Changes(c)' = Changes(c)
        BY <1>2, <2>2, Emitting, SameQueued, QueuedGains
    <2>4. (c \in present' <=> c \in present) /\ (c \in mounted') = (c \in mounted)
        BY <1>2 DEF DeviceChanges, Plug, Unplug, Change
    <2>5. slipped \subseteq slipped' /\ early \subseteq early' /\ unread \subseteq unread'
        BY DEF DeviceChanges, Plug, Unplug, Change
    <2> QED
        BY <2>1, <2>3, <2>4, <2>5, OthersUntouched
<1> QED
    BY <1>1, <1>2

-----------------------------------------------------------------------------
(***************************************************************************)
(* The constructor and Uninit() keep it.                                   *)
(***************************************************************************)
\* Nobody knows of a device any more, or yet.
LEMMA UnknownIsMirrored ==
    ASSUME NEW c \in Devices, LiveEntries(c)' = {}, InAdding(c)' = {}, reading' = Nobody,
           ~Phase' \/ (swallowed' /\ pc' = "ready"),
           pc' = "ready" => told'[c] = "nothing" /\ mountTold'[c] = "nothing"
    PROVE  MirrorOf(c)'
<1>1. reading'.dev # c
    BY DevicesAssumption DEF Nobody
<1>2. MissFor(c)' /\ TwiceFor(c)'
    BY DEF MissFor, TwiceFor, Phase, Listing
<1>3. CachedFor(c)'
    BY <1>1 DEF CachedFor
<1>4. ToldFor(c)' /\ MountFor(c)' /\ LastFor(c)'
    BY DEF ToldFor, MountFor, LastFor
<1> QED
    BY <1>2, <1>3, <1>4 DEF MirrorOf

LEMMA ConstructKeepsMirror ==
    ASSUME Typed, Ordered, Phases, Construct, NEW c \in Devices, MirrorOf(c)
    PROVE  MirrorOf(c)'
<1>1. UNCHANGED <<present, mounted, version, adding, told, mountTold, early, slipped, overtaken,
                  unread, failed>>
    BY DEF Construct, Subscribe, Enumerate, Check, ReadMounted, ConstructDevice, Checked,
        Commit, ctorVars, serviceVars
<1>2. pc \in Before \cup {"check", "found"}
    BY DEF Before, Construct, Subscribe, Enumerate, Check, ReadMounted, ConstructDevice,
        Checked, Commit
<1>3. adding = <<>> /\ told[c] = "nothing" /\ mountTold[c] = "nothing"
    BY <1>2 DEF Phases, Building, Untold, Before
<1>4. InAdding(c) = {} /\ InAdding(c)' = {}
    BY <1>1, <1>3 DEF InAdding
<1>5. ASSUME CtorThrows \/ (CtorSwallows /\ pc = "found") PROVE MirrorOf(c)'
    <2>1. AllDeleted'
        BY <1>5, DeletingAll DEF CtorThrows, CtorSwallows, Typed, PInv
    <2>2. LiveEntries(c)' = {}
        BY <2>1 DEF AllDeleted, LiveEntries
    <2>3. reading' = Nobody /\ (pc' = "failed" \/ (swallowed' /\ pc' = "ready"))
        BY <1>5 DEF CtorThrows, CtorSwallows
    <2> QED
        BY <1>1, <1>3, <1>4, <2>2, <2>3, UnknownIsMirrored DEF Phase
<1>6. ASSUME NEW s \in {"Added", "Removed"}, Subscribe(s), ~CtorThrows PROVE MirrorOf(c)'
    <2>1. pc \in Before /\ pc' \in {"connected", "subscribed"} /\ reading' = reading /\ list' = list
        BY <1>6 DEF Subscribe, Before
    <2>2. reading = Nobody /\ list = <<>>
        BY <2>1 DEF Phases, Building, Before
    <2>3. LiveEntries(c)' = {}
        BY <2>1, <2>2 DEF LiveEntries
    <2> QED
        BY <1>4, <2>1, <2>2, <2>3, UnknownIsMirrored DEF Phase
<1>7. reading = Nobody => reading.dev # c
    BY DevicesAssumption DEF Nobody
<1>8. ASSUME ~CtorThrows, Enumerate PROVE MirrorOf(c)'
    <2>1. /\ pc = "subscribed" /\ pc' \in {"check", "found"} /\ todo' \cup found' = present
          /\ UNCHANGED <<reading, list, queue, swallowed>>
        BY <1>8 DEF Enumerate
    <2>2. reading = Nobody /\ list = <<>>
        BY <2>1 DEF Phases, Building, Before
    <2>3. LiveEntries(c)' = {}
        BY <2>1, <2>2 DEF LiveEntries
    <2>4. Coming(c)' = Coming(c)
        BY <2>1, SameQueue, SameQueued
    <2>5. c \in todo' \cup found' /\ c \notin early => Coming(c)' = {} /\ c \in present
        BY <2>1, <2>4 DEF Phases, Unseen
    <2>6. MissFor(c)'
        BY <1>1, <2>1 DEF MissFor
    <2>7. TwiceFor(c)'
        BY <1>1, <1>4, <2>3, <2>5 DEF TwiceFor, Listing, HandledPresent
    <2>8. CachedFor(c)'
        BY <1>4, <1>7, <2>1, <2>2, <2>3 DEF CachedFor
    <2>9. ToldFor(c)' /\ MountFor(c)' /\ LastFor(c)'
        BY <2>1, <2>3 DEF ToldFor, MountFor, LastFor
    <2> QED
        BY <2>6, <2>7, <2>8, <2>9 DEF MirrorOf
<1>9. ASSUME ~CtorThrows,
             Checked \/ Commit \/ \E d \in Devices : Check(d)
      PROVE  MirrorOf(c)'
    <2>1. /\ UNCHANGED <<reading, list, queue, swallowed>> /\ todo' \cup found' = todo \cup found
          /\ \/ pc = "check" /\ pc' \in {"check", "found"}
             \/ pc = "found" /\ pc' = "ready" /\ todo' = todo /\ found' = found /\ found = {}
        BY <1>9 DEF Check, Checked, Commit
    <2>2. Coming(c)' = Coming(c) /\ Changes(c)' = Changes(c) /\ LiveEntries(c)' = LiveEntries(c)
        BY <2>1, SameQueue, SameQueued, SameList
    <2>3. MissFor(c)'
        BY <1>1, <1>4, <2>1, <2>2 DEF MirrorOf, MissFor, Phase
    <2>4. TwiceFor(c)'
        BY <1>1, <1>4, <2>1, <2>2 DEF MirrorOf, TwiceFor, Phase, Listing, HandledPresent
    <2>5. CachedFor(c)' /\ LastFor(c)'
        BY <1>1, <1>4, <2>1, <2>2 DEF MirrorOf, CachedFor, LastFor
    <2>6. ToldFor(c)' /\ MountFor(c)'
        BY <1>1, <1>3, <1>4 DEF ToldFor, MountFor
    <2> QED
        BY <2>3, <2>4, <2>5, <2>6 DEF MirrorOf
<1>10. ASSUME NEW d \in Devices, ReadMounted(d), ~CtorSwallows PROVE MirrorOf(c)'
    <2> DEFINE m == d \in mounted
    <2>1. /\ pc = "found" /\ reading' = [dev |-> d, mounted |-> m]
          /\ UNCHANGED <<pc, todo, found, list, queue, swallowed>>
        BY <1>10 DEF ReadMounted
    <2>2. Coming(c)' = Coming(c) /\ Changes(c)' = Changes(c) /\ LiveEntries(c)' = LiveEntries(c)
        BY <2>1, SameQueue, SameQueued, SameList
    <2>3. MissFor(c)' /\ TwiceFor(c)' /\ LastFor(c)'
        BY <1>1, <1>4, <2>1, <2>2 DEF MirrorOf, MissFor, TwiceFor, LastFor, Phase, Listing,
            HandledPresent
    <2>4. CachedFor(c)'
        <3>1. reading'.dev = d /\ reading'.mounted = m
            BY <2>1
        <3>2. reading'.dev = c => reading'.mounted = (c \in mounted)
            BY <3>1
        <3> HIDE DEF m
        <3> QED
            BY <1>1, <1>4, <2>1, <2>2, <3>2 DEF MirrorOf, CachedFor
    <2>5. ToldFor(c)' /\ MountFor(c)'
        BY <2>1 DEF ToldFor, MountFor
    <2> QED
        BY <2>3, <2>4, <2>5 DEF MirrorOf
<1>11. ASSUME NEW d \in Devices, ConstructDevice(d), ~CtorThrows, ~CtorSwallows PROVE MirrorOf(c)'
    <2>1. /\ pc = "found" /\ d \in found /\ (version = 1 => reading.dev = d)
          /\ list' = Append(list, Entry(d, reading.mounted)) /\ found' = found \ {d} /\
                 reading' = Nobody
          /\ UNCHANGED <<pc, todo, queue, swallowed>>
        BY <1>11 DEF ConstructDevice
    <2>2. reading.mounted \in BOOLEAN
        BY DEF Typed, PInv
    <2>3. PICK n \in Nat :
           /\ n \notin DOMAIN list /\ DOMAIN list' = DOMAIN list \cup {n}
           /\ list'[n].dev = d /\ list'[n].mounted = reading.mounted /\
                  list'[n].born = events /\ ~list'[n].deleted
           /\ \A i \in DOMAIN list : list'[i] = list[i]
           /\ \A b : LiveEntries(b)' = IF b = d THEN LiveEntries(b) \cup {n} ELSE LiveEntries(b)
           /\ \A b : Named(b)' = IF b = d THEN Named(b) \cup {n} ELSE Named(b)
        BY <2>1, <2>2, ListAppends
    <2>4. Coming(c)' = Coming(c) /\ Changes(c)' = Changes(c) /\ todo = {} /\ todo' = {} /\
              LiveEntries(c) \subseteq DOMAIN list
        BY <2>1, SameQueue, SameQueued DEF Phases, Building, LiveEntries
    <2>5. MissFor(c)'
        BY <1>1, <1>4, <2>1, <2>3, <2>4 DEF MirrorOf, MissFor, Phase
    <2>6. TwiceFor(c)'
        <3>1. CASE c = d
            BY <1>1, <1>4, <2>1, <2>3, <2>4, <3>1 DEF MirrorOf, TwiceFor, Phase, Listing,
                HandledPresent
        <3>2. CASE c # d
            BY <1>1, <1>4, <2>1, <2>3, <2>4, <3>2 DEF MirrorOf, TwiceFor, Phase, Listing,
                HandledPresent
        <3> QED
            BY <3>1, <3>2
    <2>7. CachedFor(c)'
        <3> SUFFICES ASSUME version = 1, c \in present \ (early \cup overtaken \cup unread),
            Coming(c) = {}
                     PROVE  \A i \in LiveEntries(c)' : (\A e \in Changes(c) :
                                e.time <= list'[i].born)
                                => list'[i].mounted = (c \in mounted)
            BY <1>1, <1>4, <1>7, <2>1, <2>4, DevicesAssumption DEF CachedFor, Nobody
        <3>1. \A i \in LiveEntries(c) : (\A e \in Changes(c) : e.time <= list'[i].born)
                                => list'[i].mounted = (c \in mounted)
            BY <2>3, <2>4 DEF MirrorOf, CachedFor
        <3>2. c = d => list'[n].mounted = (c \in mounted)
            BY <2>1, <2>3 DEF MirrorOf, CachedFor
        <3> QED
            BY <2>3, <3>1, <3>2
    <2>8. LastFor(c)'
        <3>1. \A e \in Changes(c) : ~(events < e.time)
            <4>1. \A e \in Changes(c) : e.time \in Nat /\ e.time <= events
                BY Times DEF Changes, Ordered, NoFuture
            <4>2. events \in Nat
                BY BoundAssumption DEF Typed, PInv
            <4> QED
                BY <4>1, <4>2
        <3>2. \A e \in Changes(c) : \A i \in LiveEntries(c)' : list'[i].born < e.time =>
                  i \in LiveEntries(c) /\ list'[i] = list[i]
            BY <2>3, <2>4, <3>1
        <3> QED
            BY <1>1, <2>4, <3>2 DEF MirrorOf, LastFor
    <2>9. ToldFor(c)' /\ MountFor(c)'
        BY <2>1 DEF ToldFor, MountFor
    <2> QED
        BY <2>5, <2>6, <2>7, <2>8, <2>9 DEF MirrorOf
<1>12. CASE CtorThrows \/ (CtorSwallows /\ pc = "found")
    BY <1>5, <1>12
<1>13. CASE ~(CtorThrows \/ (CtorSwallows /\ pc = "found"))
    <2>1. \A d \in Devices : ReadMounted(d) \/ ConstructDevice(d) => ~CtorSwallows
        BY <1>13 DEF ReadMounted, ConstructDevice
    <2> QED
        BY <1>6, <1>8, <1>9, <1>10, <1>11, <1>13, <2>1 DEF Construct
<1> QED
    BY <1>12, <1>13

LEMMA UninitKeepsMirror ==
    ASSUME Typed, Phases, Uninit, pc' # "undefined", NEW c \in Devices
    PROVE  MirrorOf(c)'
<1>1. pc = "ready" /\ adding = <<>> /\ adding' = adding /\ reading' = reading /\ pc' = "uninit"
    BY DEF Uninit
<1>2. AllDeleted'
    BY DeletingAll DEF Uninit, Typed, PInv
<1>3. LiveEntries(c)' = {} /\ InAdding(c)' = {}
    BY <1>1, <1>2 DEF AllDeleted, LiveEntries, InAdding
<1>4. reading' = Nobody
    BY <1>1 DEF Phases, Building
<1> QED
    BY <1>1, <1>3, <1>4, UnknownIsMirrored DEF Phase

-----------------------------------------------------------------------------
(***************************************************************************)
(* OnDeviceAdded() keeps it.                                               *)
(***************************************************************************)
\* An event of a device is delivered: when nothing of the device is to come then
\* it was the last, which tells whether the device is there; when there is more
\* then the next is of the other kind.
LEMMA DeliveryTells ==
    ASSUME Typed, Chained, NEW e \in Queued, NEW d \in Devices, e.dev = d,
           e.signal \in {"Added", "Removed"}, Queued' = Queued \ {e}, \A f \in Queued' :
               e.time < f.time
    PROVE  /\ e \in Coming(d) /\ \A f \in Coming(d) : e.time <= f.time
           /\ Coming(d)' = {} /\ e.signal = "Removed" => d \notin present
           /\ Coming(d)' = {} /\ e.signal = "Added" /\ d \notin slipped => d \in present
           /\ d \notin slipped => \A f \in Coming(d)' :
                (\A g \in Coming(d)' : f.time <= g.time) => f.signal # e.signal
<1>1. \A f \in Queued : f.time \in Nat
    BY Times
<1>2. e \in Coming(d) /\ Coming(d) \subseteq Queued /\ Coming(d)' = Coming(d) \ {e}
    BY QueuedLoses DEF Coming
<1>3. \A f \in Coming(d) : e.time <= f.time
    BY <1>1, <1>2
<1>4. Coming(d)' = {} => \A f \in Coming(d) : f.time <= e.time
    BY <1>1, <1>2
<1>5. ASSUME d \notin slipped, NEW f \in Coming(d)', \A g \in Coming(d)' : f.time <= g.time
      PROVE  f.signal # e.signal
    <2>1. e.time < f.time /\ f \in Coming(d)
        BY <1>2
    <2>2. \A g \in Coming(d) : ~(e.time < g.time /\ g.time < f.time)
        BY <1>1, <1>2, <1>5
    <2> QED
        BY <1>2, <1>5, <2>1, <2>2 DEF Chained, Alternate
<1> QED
    BY <1>2, <1>3, <1>4, <1>5 DEF Chained, LastTells

\* A delivered addition is of a device that nobody knows of.
LEMMA AddedIsNew ==
    ASSUME NEW d \in Devices, TwiceFor(d), pc = "ready", d \notin early \cup overtaken,
           NEW e \in Coming(d), \A f \in Coming(d) : e.time <= f.time, e.signal = "Added"
    PROVE  LiveEntries(d) = {} /\ InAdding(d) = {}
BY DEF TwiceFor, Phase, HandledPresent

LEMMA OnAddedKeepsMirror ==
    ASSUME Typed, Ordered, Phases, Chained, NEW d \in Devices, OnAdded(d),
           NEW c \in Devices, MirrorOf(c)
    PROVE  MirrorOf(c)'
<1>1. UNCHANGED <<present, mounted, version, pc, todo, found, reading, early, slipped, swallowed,
                  list,
                  overtaken, unread, failed>>
    BY DEF OnAdded, handlerUnchanged, serviceVars
<1>2. PICK e \in Queued :
            /\ e.signal = "Added" /\ e.dev = d
            /\ Queued' = Queued \ {e} /\ (\A f \in Queued' : e.time < f.time) /\ pc = "ready"
    BY Delivered DEF OnAdded
<1>3. LiveEntries(c)' = LiveEntries(c) /\ Named(c)' = Named(c) /\ Changes(c)' = Changes(c)
    <2>1. Changes(c)' = Changes(c) \ {e} /\ e \notin Changes(c)
        BY <1>2, QueuedLoses DEF Changes
    <2> QED
        BY <1>1, <2>1, SameList
<1>4. reading.dev # c
    BY <1>2, DevicesAssumption DEF Phases, Building, Nobody
<1>5. \A i \in InAdding(c) : adding[i].at # "connect"
    <2>1. adding # <<>> => Head(adding) = adding[1] /\ adding[1].at = "slots"
        BY NonemptyHead DEF OnAdded, Delivers, Typed, PInv
    <2>2. \A i \in InAdding(c) : adding # <<>> /\ (adding[i].at = "connect" => i = 1)
        BY <1>2 DEF InAdding, MirrorOf, ToldFor
    <2> QED
        BY <2>1, <2>2
<1>6. CASE version = 1 /\ d \notin present
    <2>1. UNCHANGED <<adding, told, mountTold>> /\ InAdding(c)' = InAdding(c)
        BY <1>6, SameAdding DEF OnAdded
    <2>2. CASE c # d
        <3>1. Coming(c)' = Coming(c)
            BY <1>2, <2>2, QueuedLoses DEF Coming
        <3> QED
            BY <1>1, <1>3, <2>1, <3>1, OthersUntouched
    <2>3. CASE c = d
        <3>1. Coming(c)' = Coming(c) \ {e} /\ e \in Coming(c)
            BY <1>2, <2>3, QueuedLoses DEF Coming
        <3>2. /\ \A f \in Coming(d) : e.time <= f.time
              /\ Coming(d)' = {} /\ d \notin slipped => d \in present
            BY <1>2, DeliveryTells
        <3>3. MissFor(c)' /\ CachedFor(c)' /\ LastFor(c)'
            BY <1>1, <1>6, <2>3 DEF MissFor, CachedFor, LastFor
        <3>4. TwiceFor(c)'
            <4>1. c \notin early \cup overtaken => LiveEntries(c) = {} /\ InAdding(c) = {}
                BY <1>2, <2>3, <3>1, <3>2, AddedIsNew DEF MirrorOf
            <4> QED
                BY <1>1, <1>2, <1>3, <2>1, <4>1 DEF TwiceFor, Listing
        <3>5. ToldFor(c)'
            BY <1>1, <1>3, <1>5, <1>6, <2>1, <2>3, <3>2 DEF MirrorOf, ToldFor
        <3>6. MountFor(c)'
            BY <1>1, <1>3, <1>6, <2>1, <2>3 DEF MirrorOf, MountFor
        <3> QED
            BY <3>3, <3>4, <3>5, <3>6 DEF MirrorOf
    <2> QED
        BY <2>2, <2>3
<1>7. CASE ~(version = 1 /\ d \notin present)
    <2>1. /\ adding' = <<[dev |-> d, at |-> "slots", mounted |-> FALSE]>> \o adding
          /\ told' = [told EXCEPT ![d] = "added"] /\
                 mountTold' = [mountTold EXCEPT ![d] = "nothing"]
        BY <1>7 DEF OnAdded
    <2>2. /\ InAdding(d)' # {}
          /\ \A b : b # d => (InAdding(b)' = {} <=> InAdding(b) = {})
          /\ \A b : (b # d \/ InAdding(b) = {}) /\ (\A i, j \in InAdding(b) : i = j)
                        => \A i, j \in InAdding(b)' : i = j
          /\ \A b : \A j \in InAdding(b)' : adding'[j].at = "slots" \/
                 \E i \in InAdding(b) : adding'[j] = adding[i]
        BY <2>1, AddingMore
    <2>3. \A j \in InAdding(c)' : adding'[j].at # "connect"
        BY <1>5, <2>2
    <2>4. told \in [Devices -> {"nothing", "added", "removed"}] /\
              mountTold \in [Devices -> {"nothing", "mounted", "unmounted"}]
        BY DEF Typed, Tellings
    <2>5. CASE c # d
        <3>1. Coming(c)' = Coming(c) /\ told'[c] = told[c] /\ mountTold'[c] = mountTold[c]
            BY <1>2, <2>1, <2>4, <2>5, QueuedLoses DEF Coming
        <3>2. InAdding(c)' = {} <=> InAdding(c) = {}
            BY <2>2, <2>5
        <3>3. MissFor(c)'
            BY <1>1, <1>3, <3>1, <3>2 DEF MirrorOf, MissFor, Phase
        <3>4. TwiceFor(c)'
            BY <1>1, <1>3, <2>2, <2>5, <3>1, <3>2 DEF MirrorOf, TwiceFor, Phase, Listing,
                HandledPresent
        <3>5. CachedFor(c)'
            BY <1>1, <1>3, <2>3, <3>1 DEF MirrorOf, CachedFor
        <3>6. ToldFor(c)'
            BY <1>1, <1>3, <2>3, <3>1, <3>2 DEF MirrorOf, ToldFor
        <3>7. MountFor(c)' /\ LastFor(c)'
            BY <1>1, <1>3, <3>1 DEF MirrorOf, MountFor, LastFor
        <3> QED
            BY <3>3, <3>4, <3>5, <3>6, <3>7 DEF MirrorOf
    <2>6. CASE c = d
        <3>1. /\ e \in Coming(c) /\ \A f \in Coming(c) : e.time <= f.time
              /\ Coming(c)' = Coming(c) \ {e}
              /\ Coming(c)' = {} /\ c \notin slipped => c \in present
              /\ c \notin slipped => \A f \in Coming(c)' :
                    (\A g \in Coming(c)' : f.time <= g.time) => f.signal # "Added"
            BY <1>2, <2>6, DeliveryTells, QueuedLoses
        <3>2. told'[c] = "added" /\ mountTold'[c] = "nothing" /\ InAdding(c)' # {}
            BY <2>1, <2>2, <2>4, <2>6
        <3>3. c \notin early \cup overtaken => LiveEntries(c) = {} /\ InAdding(c) = {} /\
                  c \notin slipped
            BY <1>2, <3>1, AddedIsNew DEF MirrorOf, Typed, Sets
        <3>4. MissFor(c)'
            BY <3>2 DEF MissFor
        <3>5. HandledPresent(c)' \/ c \in slipped
            <4>1. \A f \in Coming(c)' : f.signal \in {"Added", "Removed"}
                BY DEF Coming
            <4> QED
                BY <1>1, <3>1, <4>1 DEF HandledPresent
        <3>6. TwiceFor(c)'
            BY <1>1, <1>2, <1>3, <2>2, <3>3, <3>5 DEF TwiceFor, Listing
        <3>7. CachedFor(c)'
            BY <1>1, <1>3, <1>4, <2>3, <3>3 DEF CachedFor
        <3>8. ToldFor(c)'
            BY <1>1, <2>3, <3>1, <3>2 DEF ToldFor
        <3>9. MountFor(c)'
            BY <3>2 DEF MountFor
        <3>10. LastFor(c)'
            <4>1. ASSUME version = 2, c \in present, NEW a \in Changes(c), NEW i \in LiveEntries(c),
                         list[i].born < a.time, \A f \in Coming(c)' \cup Changes(c) :
                             f.time <= a.time
                  PROVE  a.mounted = (c \in mounted)
                <5>1. a \in Queued' /\ e.time < a.time /\ a.time \in Nat /\ e.time \in Nat
                    BY <1>2, Times DEF Changes
                <5>2. \A f \in Coming(c) \cup Changes(c) : f.time <= a.time
                    BY <3>1, <4>1, <5>1
                <5> QED
                    BY <4>1, <5>2 DEF MirrorOf, LastFor
            <4> QED
                BY <1>1, <1>3, <4>1 DEF LastFor
        <3> QED
            BY <3>4, <3>6, <3>7, <3>8, <3>9, <3>10 DEF MirrorOf
    <2> QED
        BY <2>5, <2>6
<1> QED
    BY <1>6, <1>7

LEMMA AddedReadsKeepsMirror ==
    ASSUME Typed, Ordered, Phases, AddedReads, pc # "undefined", NEW c \in Devices, MirrorOf(c)
    PROVE  MirrorOf(c)'
<1>1. UNCHANGED <<present, mounted, version, pc, todo, found, reading, early, slipped, swallowed,
                  list,
                  queue, told, mountTold, overtaken, unread>>
    BY DEF AddedReads, handlerUnchanged, serviceVars
<1>2. adding # <<>> /\ version = 1 /\ pc = "ready"
    BY DEF AddedReads, Phases, Building
<1>3. LiveEntries(c)' = LiveEntries(c) /\ Named(c)' = Named(c) /\ Coming(c)' = Coming(c) /\
          Changes(c)' = Changes(c)
    BY <1>1, SameList, SameQueue, SameQueued
<1>4. MountFor(c)' /\ LastFor(c)'
    BY <1>1, <1>3 DEF MirrorOf, MountFor, LastFor
<1>5. CASE /\ Head(adding).dev \in present /\ failed' = failed
           /\ \A b : InAdding(b)' = InAdding(b)
           /\ 1 \in DOMAIN adding /\ adding[1] = Head(adding) /\ adding[1].at = "slots"
           /\ adding'[1].at = "connect" /\ adding'[1].mounted = (Head(adding).dev \in mounted)
           /\ \A i \in DOMAIN adding : i # 1 => adding'[i] = adding[i]
    <2>1. MissFor(c)' /\ TwiceFor(c)'
        BY <1>1, <1>3, <1>5 DEF MirrorOf, MissFor, TwiceFor, Phase, Listing, HandledPresent
    <2>2. \A i \in InAdding(c) : i \in DOMAIN adding /\ adding[i].dev = c
        BY DEF InAdding
    <2>3. CachedFor(c)'
        BY <1>1, <1>3, <1>5, <2>2 DEF MirrorOf, CachedFor
    <2>4. ToldFor(c)'
        BY <1>1, <1>3, <1>5, <2>2 DEF MirrorOf, ToldFor
    <2> QED
        BY <1>4, <2>1, <2>3, <2>4 DEF MirrorOf
<1>6. CASE /\ Head(adding).dev \notin present /\ adding' = Tail(adding)
           /\ failed' = failed \cup {Head(adding).dev}
    <2>1. PICK d \in Devices : d = Head(adding).dev
        BY <1>2, NonemptyHead DEF Typed, PInv, AddingType
    <2>2. /\ \A b : b # d => (InAdding(b)' = {} <=> InAdding(b) = {})
          /\ \A b : (\A i, j \in InAdding(b) : i = j) => \A i, j \in InAdding(b)' : i = j
          /\ (\A i, j \in InAdding(d) : i = j) => InAdding(d)' = {}
          /\ InAdding(d) # {}
          /\ \A b : \A j \in InAdding(b)' : j \in Nat /\ j >= 1 /\ j + 1 \in InAdding(b) /\
                 adding'[j] = adding[j + 1]
        BY <1>2, <1>6, <2>1, AddingLess
    <2>3. d \notin present /\ failed' = failed \cup {d}
        BY <1>6, <2>1
    <2>4. InAdding(c)' # {} => InAdding(c) # {}
        BY <2>2
    <2>5. \A j \in InAdding(c)' : adding'[j].at # "connect"
        BY <1>2, <2>2 DEF MirrorOf, ToldFor
    <2>6. MissFor(c)'
        BY <1>1, <1>3, <2>2, <2>3 DEF MirrorOf, MissFor, Phase
    <2>7. TwiceFor(c)'
        BY <1>1, <1>3, <2>2, <2>4 DEF MirrorOf, TwiceFor, Phase, Listing, HandledPresent
    <2>8. CachedFor(c)'
        BY <1>1, <1>3, <2>5 DEF MirrorOf, CachedFor
    <2>9. ToldFor(c)'
        BY <1>1, <1>2, <1>3, <2>2, <2>3, <2>5 DEF MirrorOf, ToldFor
    <2> QED
        BY <1>4, <2>6, <2>7, <2>8, <2>9 DEF MirrorOf
<1> QED
    BY <1>5, <1>6, AddingReads

LEMMA AddedAppendsKeepsMirror ==
    ASSUME Typed, Ordered, Phases, AddedAppends, pc # "undefined", NEW c \in Devices, MirrorOf(c)
    PROVE  MirrorOf(c)'
<1>1. UNCHANGED <<present, mounted, version, pc, todo, found, reading, early, slipped, swallowed,
                  queue, told, mountTold, overtaken, unread>>
    BY DEF AddedAppends, handlerUnchanged, serviceVars
<1>2. adding # <<>> /\ pc = "ready" /\ adding' = Tail(adding)
    BY DEF AddedAppends, Phases, Building
<1>3. Coming(c)' = Coming(c) /\ Changes(c)' = Changes(c)
    BY <1>1, SameQueue, SameQueued
<1>4. PICK d \in Devices : d = Head(adding).dev
    BY <1>2, NonemptyHead DEF Typed, PInv, AddingType
<1>5. /\ \A b : b # d => (InAdding(b)' = {} <=> InAdding(b) = {})
      /\ InAdding(d) # {}
      /\ \A b : (\A i, j \in InAdding(b) : i = j) => \A i, j \in InAdding(b)' : i = j
      /\ (\A i, j \in InAdding(d) : i = j) => InAdding(d)' = {}
      /\ \A b : \A j \in InAdding(b)' : j \in Nat /\ j >= 1 /\ j + 1 \in InAdding(b) /\
             adding'[j] = adding[j + 1]
    BY <1>2, <1>4, AddingLess
<1>6. InAdding(c)' # {} => InAdding(c) # {}
    BY <1>5
<1>7. \A j \in InAdding(c)' : adding'[j].at # "connect"
    <2>1. \A i \in InAdding(c) : adding[i].at = "connect" => i = 1
        BY <1>2 DEF MirrorOf, ToldFor
    <2>2. \A j \in InAdding(c)' : j + 1 \in InAdding(c) /\ j + 1 # 1 /\ adding'[j] = adding[j + 1]
        BY <1>5
    <2> QED
        BY <2>1, <2>2
<1>8. /\ 1 \in InAdding(d) /\ Head(adding) = adding[1] /\ adding[1].mounted \in BOOLEAN
      /\ version = 1 => adding[1].at = "connect"
    <2>1. 1 \in DOMAIN adding /\ adding[1] \in AddingType /\ Head(adding) = adding[1]
        BY <1>2, NonemptyHead DEF Typed, PInv
    <2>2. adding[1].mounted \in BOOLEAN
        BY <2>1 DEF AddingType
    <2> QED
        BY <1>4, <2>1, <2>2 DEF AddedAppends, InAdding
<1>9. version = 1 \/ version = 2
    BY DEF Typed, Sets
<1>10. CASE list' = list /\ failed' = failed \cup {d}
    <2>1. LiveEntries(c)' = LiveEntries(c) /\ Named(c)' = Named(c)
        BY <1>10, SameList
    <2>2. MissFor(c)'
        BY <1>1, <1>3, <1>5, <1>10, <2>1 DEF MirrorOf, MissFor, Phase
    <2>3. TwiceFor(c)'
        BY <1>1, <1>3, <1>5, <1>6, <2>1 DEF MirrorOf, TwiceFor, Phase, Listing,
            HandledPresent
    <2>4. CachedFor(c)'
        BY <1>1, <1>3, <1>7, <1>10, <2>1 DEF MirrorOf, CachedFor
    <2>5. ToldFor(c)'
        BY <1>1, <1>2, <1>3, <1>5, <1>7, <1>9, <1>10, <2>1 DEF MirrorOf, ToldFor
    <2>6. MountFor(c)' /\ LastFor(c)'
        BY <1>1, <1>3, <1>10, <2>1 DEF MirrorOf, MountFor, LastFor
    <2> QED
        BY <2>2, <2>3, <2>4, <2>5, <2>6 DEF MirrorOf
<1>11. CASE list' = Append(list, Entry(d, adding[1].mounted)) /\ failed' = failed \ {d}
    <2>1. PICK n \in Nat :
           /\ n \notin DOMAIN list /\ DOMAIN list' = DOMAIN list \cup {n}
           /\ list'[n].dev = d /\ list'[n].mounted = adding[1].mounted /\
                  list'[n].born = events /\ ~list'[n].deleted
           /\ \A i \in DOMAIN list : list'[i] = list[i]
           /\ \A b : LiveEntries(b)' = IF b = d THEN LiveEntries(b) \cup {n} ELSE LiveEntries(b)
           /\ \A b : Named(b)' = IF b = d THEN Named(b) \cup {n} ELSE Named(b)
        BY <1>5, <1>8, <1>11, ListAppends
    <2>2. LiveEntries(c) \subseteq DOMAIN list
        BY DEF LiveEntries
    <2>3. MissFor(c)'
        BY <1>1, <1>3, <1>5, <1>11, <2>1 DEF MirrorOf, MissFor, Phase
    <2>4. TwiceFor(c)'
        <3>1. CASE c # d
            BY <1>1, <1>3, <1>5, <1>6, <2>1, <3>1 DEF MirrorOf, TwiceFor, Phase, Listing,
                HandledPresent
        <3>2. CASE c = d
            <4> SUFFICES ASSUME c \notin early \cup overtaken
                         PROVE  /\ HandledPresent(c)' /\ InAdding(c)' = {}
                                /\ \A i, j \in LiveEntries(c)' : i = j
                BY <1>1, <1>2 DEF TwiceFor, Listing
            <4>1. /\ HandledPresent(c) /\ LiveEntries(c) = {}
                  /\ \A i, j \in InAdding(c) : i = j
                BY <1>2, <1>5, <3>2 DEF MirrorOf, TwiceFor, Phase
            <4>2. HandledPresent(c)'
                BY <1>1, <1>3, <4>1 DEF HandledPresent
            <4> QED
                BY <1>5, <2>1, <3>2, <4>1, <4>2
        <3> QED
            BY <3>1, <3>2
    <2>5. CachedFor(c)'
        <3> SUFFICES ASSUME version = 1, c \in present \ (early \cup overtaken \cup unread),
            Coming(c) = {}
                     PROVE  \A i \in LiveEntries(c)' : (\A e \in Changes(c) :
                                e.time <= list'[i].born)
                                => list'[i].mounted = (c \in mounted)
            BY <1>1, <1>3, <1>7 DEF MirrorOf, CachedFor
        <3>1. \A i \in LiveEntries(c) : (\A e \in Changes(c) : e.time <= list'[i].born)
                                => list'[i].mounted = (c \in mounted)
            BY <2>1, <2>2 DEF MirrorOf, CachedFor
        <3>2. c = d => list'[n].mounted = (c \in mounted)
            BY <1>8, <2>1 DEF MirrorOf, CachedFor
        <3> QED
            BY <2>1, <3>1, <3>2
    <2>6. LastFor(c)'
        <3>1. \A e \in Changes(c) : ~(events < e.time)
            <4>1. \A e \in Changes(c) : e.time \in Nat /\ e.time <= events
                BY Times DEF Changes, Ordered, NoFuture
            <4>2. events \in Nat
                BY BoundAssumption DEF Typed, PInv
            <4> QED
                BY <4>1, <4>2
        <3>2. \A e \in Changes(c) : \A i \in LiveEntries(c)' : list'[i].born < e.time =>
                  i \in LiveEntries(c) /\ list'[i] = list[i]
            BY <2>1, <2>2, <3>1
        <3> QED
            BY <1>1, <1>3, <3>2 DEF MirrorOf, LastFor
    <2>7. MountFor(c)'
        BY <1>1, <1>3, <2>1, <2>2 DEF MirrorOf, MountFor
    <2>8. ToldFor(c)'
        <3>1. c = d => Named(c)' # {}
            BY <2>1
        <3>2. c # d => Named(c)' = Named(c) /\ (c \in failed' <=> c \in failed)
            BY <1>11, <2>1
        <3>3. version = 1 /\ c = d /\ Coming(c) = {} => c \in present
            BY <1>2, <1>8 DEF MirrorOf, ToldFor
        <3> QED
            BY <1>1, <1>2, <1>3, <1>5, <1>7, <1>9, <3>1, <3>2, <3>3 DEF MirrorOf, ToldFor
    <2> QED
        BY <2>3, <2>4, <2>5, <2>6, <2>7, <2>8 DEF MirrorOf
<1> QED
    BY <1>4, <1>8, <1>10, <1>11 DEF AddedAppends

-----------------------------------------------------------------------------
(***************************************************************************)
(* OnDeviceRemoved() and the handlers of changes keep it.                  *)
(***************************************************************************)
LEMMA OnRemovedKeepsMirror ==
    ASSUME Typed, Ordered, Phases, Chained, NEW d \in Devices, OnRemoved(d), pc' # "undefined",
           NEW c \in Devices, MirrorOf(c)
    PROVE  MirrorOf(c)'
<1>1. /\ UNCHANGED <<present, mounted, version, pc, todo, found, reading, early, slipped, swallowed,
                     adding, failed>>
      /\ unread' = unread \ {d}
    BY DEF OnRemoved, handlerUnchanged, serviceVars
<1>2. PICK e \in Queued :
            /\ e.signal = "Removed" /\ e.dev = d
            /\ Queued' = Queued \ {e} /\ (\A f \in Queued' : e.time < f.time) /\ pc = "ready"
    BY Delivered DEF OnRemoved
<1>3. InAdding(c)' = InAdding(c) /\ Changes(c)' = Changes(c)
    <2>1. Changes(c)' = Changes(c) \ {e} /\ e \notin Changes(c)
        BY <1>2, QueuedLoses DEF Changes
    <2> QED
        BY <1>1, <2>1, SameAdding
<1>4. reading.dev # c
    BY <1>2, DevicesAssumption DEF Phases, Building, Nobody
<1>5. \A i \in InAdding(c) : adding[i].at # "connect"
    <2>1. adding # <<>> => Head(adding) = adding[1] /\ adding[1].at = "slots"
        BY NonemptyHead DEF OnRemoved, Delivers, Typed, PInv
    <2>2. \A i \in InAdding(c) : adding # <<>> /\ (adding[i].at = "connect" => i = 1)
        BY <1>2 DEF InAdding, MirrorOf, ToldFor
    <2> QED
        BY <2>1, <2>2
<1>6. /\ \A b : \A j \in LiveEntries(b)' : \E i \in LiveEntries(b) : list'[j] = list[i]
      /\ \A b : b # d => \A i \in LiveEntries(b) : \E j \in LiveEntries(b)' : list'[j] = list[i]
      /\ \A b : (\A i, j \in LiveEntries(b) : i = j) => \A i, j \in LiveEntries(b)' : i = j
      /\ (\A i, j \in LiveEntries(d) : i = j) => LiveEntries(d)' = {}
      /\ \A b : b # d /\ Named(b) # {} => Named(b)' # {}
    BY Removal
<1>7. /\ \/ told' = [told EXCEPT ![d] = "removed"]
         \/ told' = told /\ Named(d) = {} /\ version # 2 /\ Named(d)' = {}
      /\ mountTold' = [mountTold EXCEPT ![d] = "nothing"]
    <2>1. /\ list' = IF Named(d) = {} THEN list ELSE Without(CHOOSE i \in Named(d) :
                 \A j \in Named(d) : i <= j)
          /\ told' = IF Named(d) # {} \/ version = 2 THEN [told EXCEPT ![d] = "removed"] ELSE told
          /\ mountTold' = [mountTold EXCEPT ![d] = "nothing"]
        BY DEF OnRemoved, Named
    <2>2. Named(d) = {} => Named(d)' = Named(d)
        BY <2>1, SameList
    <2> QED
        BY <2>1, <2>2
<1>8. told \in [Devices -> {"nothing", "added", "removed"}] /\
          mountTold \in [Devices -> {"nothing", "mounted", "unmounted"}]
    BY DEF Typed, Tellings
<1>9. CASE c # d
    <2>1. Coming(c)' = Coming(c) /\ told'[c] = told[c] /\ mountTold'[c] = mountTold[c]
        BY <1>2, <1>7, <1>8, <1>9, QueuedLoses DEF Coming
    <2>2. LiveEntries(c)' = {} <=> LiveEntries(c) = {}
        BY <1>6, <1>9
    <2>3. overtaken \subseteq overtaken'
        BY DEF OnRemoved
    <2>4. MissFor(c)'
        BY <1>1, <1>3, <2>1, <2>2 DEF MirrorOf, MissFor, Phase
    <2>5. TwiceFor(c)'
        BY <1>1, <1>3, <1>6, <2>1, <2>2, <2>3 DEF MirrorOf, TwiceFor, Phase, Listing,
            HandledPresent
    <2>6. CachedFor(c)'
        BY <1>1, <1>3, <1>6, <1>9, <2>1, <2>3 DEF MirrorOf, CachedFor
    <2>7. ToldFor(c)'
        BY <1>1, <1>3, <1>6, <1>9, <2>1 DEF MirrorOf, ToldFor
    <2>8. MountFor(c)'
        <3>1. ASSUME NEW i \in LiveEntries(c), \A a \in Changes(c) : list[i].born < a.time,
                     version = 1 => mountTold[c] = MountSignal(list[i].mounted)
              PROVE  \E j \in LiveEntries(c)' :
                        /\ \A a \in Changes(c)' : list'[j].born < a.time
                        /\ version' = 1 => mountTold'[c] = MountSignal(list'[j].mounted)
            <4>1. PICK j \in LiveEntries(c)' : list'[j] = list[i]
                BY <1>6, <1>9
            <4> QED
                BY <1>1, <1>3, <2>1, <3>1, <4>1
        <3> QED
            BY <1>1, <1>3, <2>1, <3>1 DEF MirrorOf, MountFor
    <2>9. LastFor(c)'
        <3>1. \A a \in Changes(c) : (\E j \in LiveEntries(c)' : list'[j].born < a.time)
                                        => \E i \in LiveEntries(c) : list[i].born < a.time
            BY <1>6
        <3> QED
            BY <1>1, <1>3, <2>1, <3>1 DEF MirrorOf, LastFor
    <2> QED
        BY <2>4, <2>5, <2>6, <2>7, <2>8, <2>9 DEF MirrorOf
<1>10. CASE c = d
    <2>1. /\ e \in Coming(c) /\ (Coming(c)' = {} => c \notin present)
          /\ Coming(c)' = Coming(c) \ {e}
        BY <1>2, <1>10, DeliveryTells, QueuedLoses
    <2>2. mountTold'[c] = "nothing" /\ (told'[c] = "removed" \/ (told'[c] = told[c] /\
              Named(c) = {} /\ Named(c)' = {} /\ version # 2))
        BY <1>7, <1>8, <1>10
    <2>3. MissFor(c)' /\ CachedFor(c)' /\ MountFor(c)'
        BY <1>1, <2>1, <2>2 DEF MissFor, CachedFor, MountFor
    <2>4. TwiceFor(c)'
        <3> SUFFICES ASSUME c \notin early' \cup overtaken'
                     PROVE  LiveEntries(c)' = {} /\ InAdding(c)' = {}
            BY <1>1, <1>2 DEF TwiceFor, Listing
        <3>1. InAdding(c) = {} /\ c \notin early \cup overtaken
            BY <1>1, <1>10 DEF OnRemoved, InAdding
        <3>2. \A i, j \in LiveEntries(c) : i = j
            BY <1>2, <3>1 DEF MirrorOf, TwiceFor, Phase
        <3> QED
            BY <1>3, <1>6, <1>10, <3>1, <3>2
    <2>5. ToldFor(c)'
        <3>1. /\ version = 1 \/ version = 2
            BY DEF Typed, Sets
        <3>2. CASE told'[c] = "removed"
            BY <1>1, <1>3, <1>5, <2>1, <3>2 DEF ToldFor
        <3>3. CASE told'[c] = told[c] /\ Named(c) = {} /\ Named(c)' = {} /\ version = 1
            BY <1>1, <1>2, <1>3, <1>5, <2>1, <3>3 DEF MirrorOf, ToldFor
        <3> QED
            BY <2>2, <3>1, <3>2, <3>3
    <2>6. LastFor(c)'
        <3>1. ASSUME version = 2, c \in present, NEW a \in Changes(c), NEW j \in LiveEntries(c)',
                     list'[j].born < a.time, \A f \in Coming(c)' \cup Changes(c) : f.time <= a.time
              PROVE  a.mounted = (c \in mounted)
            <4>1. a \in Queued' /\ e.time < a.time /\ a.time \in Nat /\ e.time \in Nat
                BY <1>2, <1>3, Times DEF Changes
            <4>2. \A f \in Coming(c) \cup Changes(c) : f.time <= a.time
                BY <2>1, <3>1, <4>1
            <4>3. \E i \in LiveEntries(c) : list[i].born < a.time
                BY <1>6, <3>1
            <4> QED
                BY <3>1, <4>2, <4>3 DEF MirrorOf, LastFor
        <3> QED
            BY <1>1, <1>3, <3>1 DEF LastFor
    <2> QED
        BY <2>3, <2>4, <2>5, <2>6 DEF MirrorOf
<1> QED
    BY <1>9, <1>10

LEMMA OnChangedKeepsMirror ==
    ASSUME Typed, Ordered, Phases, NEW d \in Devices, OnChanged(d),
           NEW c \in Devices, MirrorOf(c)
    PROVE  MirrorOf(c)'
<1>1. UNCHANGED <<present, mounted, version, pc, todo, found, reading, early, slipped, swallowed,
                  adding, failed, told, overtaken>>
    BY DEF OnChanged, handlerUnchanged, serviceVars
<1>2. PICK e \in Queued :
            /\ e = Head(queue) /\ e.signal = "Changed" /\ e.dev = d
            /\ Queued' = Queued \ {e} /\ (\A f \in Queued' : e.time < f.time) /\ pc = "ready"
    BY Delivered DEF OnChanged
<1>3. /\ DOMAIN list' = DOMAIN list
      /\ \A i \in DOMAIN list :
            /\ list'[i].dev = list[i].dev /\ list'[i].deleted = list[i].deleted
            /\ list'[i].born = list[i].born
            /\ list'[i].mounted = IF version = 1 /\ i \in Receivers(d) /\ d \in present
                                  THEN d \in mounted ELSE list[i].mounted
      /\ \A b : LiveEntries(b)' = LiveEntries(b) /\ Named(b)' = Named(b)
    BY ListReads
<1>4. /\ InAdding(c)' = InAdding(c) /\ Coming(c)' = Coming(c) /\
             LiveEntries(c) \subseteq DOMAIN list
      /\ Changes(c)' = Changes(c) \ {e}
    <2>1. Coming(c)' = Coming(c) \ {e} /\ e \notin Coming(c) /\ Changes(c)' = Changes(c) \ {e}
        BY <1>2, QueuedLoses DEF Coming
    <2> QED
        BY <1>1, <2>1, SameAdding DEF LiveEntries
<1>5. MissFor(c)' /\ TwiceFor(c)' /\ ToldFor(c)'
    BY <1>1, <1>3, <1>4 DEF MirrorOf, MissFor, TwiceFor, ToldFor, Phase, Listing,
        HandledPresent
<1>6. version = 1 \/ version = 2
    BY DEF Typed, Sets
<1>7. reading.dev # c
    BY <1>2, DevicesAssumption DEF Phases, Building, Nobody
<1>8. Receivers(d) = {i \in LiveEntries(d) : list[i].born < e.time}
    BY <1>2 DEF Receivers
<1>9. mountTold \in [Devices -> {"nothing", "mounted", "unmounted"}]
    BY DEF Typed, Tellings
<1>10. CASE c # d
    <2>1. \A i \in LiveEntries(c) : i \notin Receivers(d) /\
              list'[i].mounted = list[i].mounted /\ list'[i].born = list[i].born
        <3>1. \A i \in LiveEntries(c) : i \notin Receivers(d)
            BY <1>8, <1>10 DEF LiveEntries
        <3> QED
            BY <1>3, <1>4, <3>1
    <2>2. mountTold'[c] = mountTold[c] /\ (c \in unread' <=> c \in unread)
        BY <1>9, <1>10 DEF OnChanged
    <2>3. Changes(c)' = Changes(c)
        BY <1>2, <1>4, <1>10 DEF Changes
    <2>4. CachedFor(c)'
        BY <1>1, <1>3, <1>4, <2>1, <2>2, <2>3 DEF MirrorOf, CachedFor
    <2>5. MountFor(c)'
        BY <1>1, <1>3, <1>4, <2>1, <2>2, <2>3 DEF MirrorOf, MountFor
    <2>6. LastFor(c)'
        BY <1>1, <1>3, <1>4, <2>1, <2>3 DEF MirrorOf, LastFor
    <2> QED
        BY <1>5, <2>4, <2>5, <2>6 DEF MirrorOf
<1>11. CASE c = d
    <2>1. e \in Changes(c) /\ e.time \in Nat /\ \A f \in Changes(c) : f.time \in Nat /\
              (f # e => e.time < f.time)
        BY <1>2, <1>11, Times DEF Changes
    <2>2. \A i \in LiveEntries(c) : list[i].born \in Nat
        BY <1>4, BornInTime
    <2>3. LastFor(c)'
        <3>1. ASSUME version = 2, c \in present, NEW a \in Changes(c)', NEW i \in LiveEntries(c),
                     list'[i].born < a.time, \A f \in Coming(c) \cup Changes(c)' : f.time <= a.time
              PROVE  a.mounted = (c \in mounted)
            <4>1. e.time < a.time /\ a.time \in Nat /\ a \in Changes(c)
                BY <1>4, <2>1
            <4>2. \A f \in Coming(c) \cup Changes(c) : f.time <= a.time
                BY <1>4, <2>1, <3>1, <4>1
            <4>3. list[i].born < a.time
                BY <1>3, <1>4, <3>1
            <4> QED
                BY <3>1, <4>1, <4>2, <4>3 DEF MirrorOf, LastFor
        <3> QED
            BY <1>1, <1>3, <1>4, <3>1 DEF LastFor
    <2>4. CachedFor(c)'
        <3> SUFFICES ASSUME version = 1, c \in present, c \notin early \cup overtaken,
            c \notin unread',
                            Coming(c) = {}, NEW i \in LiveEntries(c),
                            \A f \in Changes(c)' : f.time <= list[i].born
                     PROVE  list'[i].mounted = (c \in mounted)
            <4>1. (\E i \in LiveEntries(c) : TRUE) => InAdding(c) = {} \/ c \in early \cup overtaken
                BY <1>2 DEF MirrorOf, TwiceFor, Phase
            <4>2. ASSUME c \notin unread PROVE \A i \in InAdding(c) : c \in present /\
                             Coming(c) = {} /\ version = 1 /\
                        c \notin early \cup overtaken /\
                            adding[i].at = "connect" => adding[i].mounted = (c \in mounted)
                BY <4>2 DEF MirrorOf, CachedFor
            <4>3. c \in unread /\ c \notin unread' => LiveEntries(c) # {}
                BY <1>8, <1>11 DEF OnChanged
            <4> QED
                BY <1>1, <1>3, <1>4, <1>7, <4>1, <4>2, <4>3 DEF CachedFor
        <3>1. CASE i \in Receivers(d)
            BY <1>3, <1>4, <1>11, <3>1
        <3>2. CASE i \notin Receivers(d)
            <4>1. ~(list[i].born < e.time)
                BY <1>8, <1>11, <3>2
            <4>2. \A f \in Changes(c) : f.time <= list[i].born
                BY <1>4, <2>1, <2>2, <4>1
            <4>3. \A k \in LiveEntries(c) : k = i
                BY <1>2 DEF MirrorOf, TwiceFor, Phase
            <4>4. Receivers(d) = {}
                BY <1>8, <1>11, <3>2, <4>3
            <4>5. c \notin unread
                BY <1>2, <4>4 DEF OnChanged
            <4>6. list[i].mounted = (c \in mounted)
                BY <4>2, <4>5 DEF MirrorOf, CachedFor
            <4> QED
                BY <1>3, <1>4, <3>2, <4>6
        <3> QED
            BY <3>1, <3>2
    <2>5. MountFor(c)'
        <3> DEFINE Hears(i) == i \in LiveEntries(c) /\ \A a \in Changes(c) : list[i].born < a.time
        <3>1. \A i : Hears(i) => i \in Receivers(d) /\ \A a \in Changes(c)' : list'[i].born < a.time
            BY <1>3, <1>4, <1>8, <1>11, <2>1
        <3>2. \A i \in Receivers(d) : i \in LiveEntries(c) /\
                  \A a \in Changes(c)' : list'[i].born < a.time
            <4> SUFFICES ASSUME NEW i \in Receivers(d), NEW a \in Changes(c)'
                         PROVE  i \in LiveEntries(c) /\ list'[i].born < a.time
                BY <1>8, <1>11
            <4>1. i \in LiveEntries(c) /\ list[i].born < e.time
                BY <1>8, <1>11
            <4>2. e.time < a.time /\ a.time \in Nat
                BY <1>4, <2>1
            <4> QED
                BY <1>3, <1>4, <2>1, <2>2, <4>1, <4>2
        <3>3. mountTold[c] # "nothing" => \E i : Hears(i) /\
                  (version = 1 => mountTold[c] = MountSignal(list[i].mounted))
            BY <1>2 DEF MirrorOf, MountFor
        <3>4. CASE version = 2
            <4>1. mountTold' = IF Receivers(d) # {}
                               THEN [mountTold EXCEPT ![d] = MountSignal(e.mounted)] ELSE mountTold
                BY <1>2, <3>4 DEF OnChanged
            <4>2. CASE Receivers(d) = {}
                BY <3>1, <3>3, <4>1, <4>2 DEF MountFor
            <4>3. CASE Receivers(d) # {}
                <5>1. mountTold'[c] = MountSignal(e.mounted)
                    BY <1>9, <1>11, <4>1, <4>3
                <5>2. \E i \in LiveEntries(c)' : \A a \in Changes(c)' : list'[i].born < a.time
                    BY <1>3, <3>2, <4>3
                <5>3. ASSUME Coming(c) = {}, Changes(c)' = {}, c \in present
                      PROVE  e.mounted = (c \in mounted)
                    <6>1. \A f \in Coming(c) \cup Changes(c) : f.time <= e.time
                        BY <1>4, <2>1, <5>3
                    <6>2. \E i \in LiveEntries(c) : list[i].born < e.time
                        BY <1>8, <1>11, <4>3
                    <6> QED
                        BY <2>1, <3>4, <5>3, <6>1, <6>2 DEF MirrorOf, LastFor
                <5> QED
                    BY <1>1, <1>4, <3>4, <5>1, <5>2, <5>3 DEF MountFor
            <4> QED
                BY <4>2, <4>3
        <3>5. CASE version = 1
            <4> DEFINE news == {i \in Receivers(d) : d \in present /\
                list[i].mounted # MountedNow(i, d)}
            <4>1. mountTold' = IF news # {}
                               THEN [mountTold EXCEPT ![d] =
                                   MountSignal(MountedNow(CHOOSE i \in news : TRUE, d))]
                               ELSE mountTold
                BY <3>5 DEF OnChanged
            <4>2. CASE news = {}
                <5>1. mountTold' = mountTold
                    BY <4>1, <4>2
                <5>2. \A i \in Receivers(d) : d \in present => list[i].mounted = (d \in mounted)
                    BY <4>2 DEF MountedNow
                <5>3. \A i \in Receivers(d) : list'[i].mounted = list[i].mounted
                    BY <1>3, <1>4, <1>11, <3>2, <5>2
                <5> HIDE DEF Hears
                <5>4. ASSUME mountTold[c] # "nothing"
                      PROVE  /\ \E i \in LiveEntries(c)' :
                                /\ \A a \in Changes(c)' : list'[i].born < a.time
                                /\ mountTold[c] = MountSignal(list'[i].mounted)
                             /\ c \in present => mountTold[c] = MountSignal(c \in mounted)
                    <6>1. PICK i : Hears(i) /\ mountTold[c] = MountSignal(list[i].mounted)
                        BY <3>3, <3>5, <5>4
                    <6>2. i \in Receivers(d) /\ i \in LiveEntries(c)'
                        BY <1>3, <3>1, <3>2, <6>1
                    <6> QED
                        BY <1>11, <3>1, <5>2, <5>3, <6>1, <6>2
                <5> QED
                    BY <1>1, <5>1, <5>4 DEF MountFor
            <4>3. CASE news # {}
                <5>1. mountTold'[c] = MountSignal(c \in mounted)
                    BY <1>9, <1>11, <4>1, <4>3 DEF MountedNow
                <5>2. PICK i \in Receivers(d) : d \in present
                    BY <4>3
                <5>3. i \in LiveEntries(c)' /\ list'[i].mounted = (c \in mounted)
                    BY <1>3, <1>4, <1>11, <3>2, <3>5, <5>2
                <5> QED
                    BY <1>1, <3>2, <5>1, <5>2, <5>3 DEF MountFor
            <4> QED
                BY <4>2, <4>3
        <3> QED
            BY <1>6, <3>4, <3>5
    <2> QED
        BY <1>5, <2>3, <2>4, <2>5 DEF MirrorOf
<1> QED
    BY <1>10, <1>11

\* The inductive invariant, as long as nothing deleted was used.
Mirror == pc # "undefined" => Ordered /\ Phases /\ Chained /\ \A d \in Devices : MirrorOf(d)

LEMMA InitMirror == Init => Mirror
<1> SUFFICES ASSUME Init PROVE Mirror
    OBVIOUS
<1>1. queue = <<>> /\ list = <<>> /\ adding = <<>> /\ reading = Nobody /\ pc = "none" /\
          subscribed = {} /\ todo = {} /\ found = {}
    BY DEF Init
<1>2. Queued = {} /\ \A d : Coming(d) = {} /\ Changes(d) = {} /\ LiveEntries(d) = {} /\
          InAdding(d) = {}
    BY <1>1 DEF Queued, Coming, Changes, LiveEntries, InAdding
<1>3. Ordered
    BY <1>1, <1>2 DEF Ordered, QueueOrdered, NoFuture
<1>4. Connected /\ Building /\ Unseen
    BY <1>1, <1>2 DEF Connected, Building, Unseen
<1>5. Untold
    BY DEF Init, Untold
<1>6. Chained
    BY <1>2 DEF Chained, LastTells, Alternate
<1>7. ASSUME NEW d \in Devices PROVE MirrorOf(d)
    <2>1. reading.dev # d
        BY <1>1, DevicesAssumption DEF Nobody
    <2> QED
        BY <1>1, <1>2, <2>1 DEF MirrorOf, MissFor, TwiceFor, CachedFor, ToldFor, MountFor,
            LastFor, Phase
<1> QED
    BY <1>3, <1>4, <1>5, <1>6, <1>7 DEF Mirror, Phases

LEMMA NextMirror ==
    ASSUME Typed, Mirror, [Next]_vars
    PROVE  Mirror'
<1> SUFFICES ASSUME pc' # "undefined" PROVE Mirror'
    BY DEF Mirror
<1>1. CASE UNCHANGED vars
    <2>1. UNCHANGED <<present, mounted, events, version, pc, subscribed, todo, found, reading,
                      list, queue, adding,
                      told, mountTold, early, slipped, overtaken, unread, failed, swallowed>>
        BY <1>1 DEF vars, serviceVars, ghosts
    <2>2. Queued' = Queued /\ \A c : Coming(c)' = Coming(c) /\ Changes(c)' = Changes(c)
        BY <2>1, SameQueue, SameQueued
    <2>3. Ordered'
        BY <2>1, <2>2 DEF Mirror, Ordered, QueueOrdered, NoFuture
    <2>4. Phases'
        BY <2>1, <2>2 DEF Mirror, Phases, Connected, Building, Untold, Unseen
    <2>5. Chained'
        BY <2>1, <2>2 DEF Mirror, Chained, LastTells, Alternate
    <2>6. \A c \in Devices : MirrorOf(c)'
        BY <2>1, <2>2, OthersUntouched DEF Mirror
    <2> QED
        BY <2>3, <2>4, <2>5, <2>6 DEF Mirror
<1>2. CASE Next
    <2>1. pc # "undefined"
        <3>1. CASE pc = "undefined"
            <4>1. ~Handle \/ pc' = pc
                BY <3>1 DEF Handle, OnAdded, OnRemoved, OnChanged, Delivers, AddedReads,
                    AddedAppends, Uninit
            <4>2. ~Construct
                BY <3>1 DEF Construct, Subscribe, Enumerate, Check, ReadMounted,
                    ConstructDevice, Checked, Commit
            <4> QED
                BY <1>2, <3>1, <4>1, <4>2 DEF Next, DeviceChanges
        <3> QED
            BY <3>1
    <2>2. Ordered /\ Phases /\ Chained /\ \A d \in Devices : MirrorOf(d)
        BY <2>1 DEF Mirror
    <2>3. Ordered'
        BY <1>2, <2>2, NextOrdered
    <2>4. Phases'
        BY <1>2, <2>1, <2>2, ChangeKeepsPhases, ConstructKeepsPhases, HandleKeepsPhases DEF
            Next
    <2>5. Chained'
        BY <1>2, <2>1, <2>2, ChangeKeepsChained, OthersKeepChained DEF Next
    <2>6. ASSUME NEW c \in Devices PROVE MirrorOf(c)'
        <3>1. CASE Handle
            BY <2>1, <2>2, <3>1, OnAddedKeepsMirror, AddedReadsKeepsMirror,
                AddedAppendsKeepsMirror, OnRemovedKeepsMirror, OnChangedKeepsMirror,
                UninitKeepsMirror DEF Handle
        <3> QED
            BY <1>2, <2>1, <2>2, <3>1, ChangeKeepsMirror, ConstructKeepsMirror DEF Next
    <2> QED
        BY <2>3, <2>4, <2>5, <2>6 DEF Mirror
<1> QED
    BY <1>1, <1>2

LEMMA MirrorAlways == Spec => [](Typed /\ Mirror)
<1>1. Init => Typed /\ Mirror
    BY InitTyped, InitMirror
<1>2. Typed /\ Mirror /\ [Next]_vars => Typed' /\ Mirror'
    BY NextTyped, NextMirror
<1> QED
    BY <1>1, <1>2, PTL DEF Spec

LEMMA QuietNothingQueued ==
    ASSUME Typed, Quiet, NEW d \in Devices
    PROVE  pc = "ready" /\ Coming(d) = {} /\ Changes(d) = {} /\ InAdding(d) = {}
BY DEF Quiet, Coming, Changes, Queued, InAdding

\* Once all signals are handled no device is missing from the list, none is in
\* it twice or without being there, and the mounted states are true, but for
\* the exceptions that the code allows.
THEOREM ListMirrorsDevices == Spec => []MirrorsDevices
<1>1. Typed /\ Mirror => MirrorsDevices
    <2> SUFFICES ASSUME Typed, Mirror PROVE MirrorsDevices
        OBVIOUS
    <2>1. TypeOK
        BY TypedIsTypeOK
    <2>2. ASSUME Quiet, NEW d \in Devices
          PROVE  /\ d \in present => LiveEntries(d) # {} \/ d \in failed \/ swallowed
                 /\ d \notin early \cup overtaken =>
                        Cardinality(LiveEntries(d)) <= IF d \in present THEN 1 ELSE 0
                 /\ version = 1 /\ d \in present /\ d \notin early \cup overtaken \cup unread =>
                        \A i \in LiveEntries(d) : list[i].mounted = (d \in mounted)
        <3>1. pc = "ready" /\ Coming(d) = {} /\ Changes(d) = {} /\ InAdding(d) = {}
            BY <2>2, QuietNothingQueued
        <3>2. Phases /\ MirrorOf(d)
            BY <3>1 DEF Mirror
        <3>3. d \in present => LiveEntries(d) # {} \/ d \in failed \/ swallowed
            BY <3>1, <3>2 DEF MirrorOf, MissFor, Phase, Phases, Building
        <3>4. ASSUME d \notin early \cup overtaken
              PROVE  Cardinality(LiveEntries(d)) <= IF d \in present THEN 1 ELSE 0
            <4>1. /\ \A i, j \in LiveEntries(d) : i = j
                  /\ LiveEntries(d) # {} => d \in present
                BY <3>1, <3>2, <3>4 DEF MirrorOf, TwiceFor, Phase, HandledPresent
            <4>2. CASE LiveEntries(d) = {}
                BY <4>2, FS_EmptySet
            <4>3. CASE LiveEntries(d) # {}
                <5>1. PICK i \in LiveEntries(d) : TRUE
                    BY <4>3
                <5>2. LiveEntries(d) = {i}
                    BY <4>1, <5>1
                <5>3. Cardinality(LiveEntries(d)) = 1
                    BY <5>2, FS_Singleton
                <5> QED
                    BY <4>1, <4>3, <5>3
            <4> QED
                BY <4>2, <4>3
        <3>5. version = 1 /\ d \in present /\ d \notin early \cup overtaken \cup unread =>
                \A i \in LiveEntries(d) : list[i].mounted = (d \in mounted)
            BY <3>1, <3>2 DEF MirrorOf, CachedFor
        <3> QED
            BY <3>3, <3>4, <3>5
    <2> QED
        BY <2>1, <2>2 DEF MirrorsDevices
<1> QED
    BY <1>1, MirrorAlways, PTL

\* What the slots were told last of a device is true once all signals are
\* handled: whether it is there, and whether it is mounted.
THEOREM SlotsAreInformed == Spec => []ClientInformed
<1>1. Typed /\ Mirror => ClientInformed
    <2> SUFFICES ASSUME Typed, Mirror, Quiet, NEW d \in Devices \ slipped
                 PROVE  /\ told[d] # "nothing" =>
                            (told[d] = "added" <=> d \in present) \/ (version = 1 /\ d \in failed)
                        /\ mountTold[d] # "nothing" /\
                               d \in present => mountTold[d] = MountSignal(d \in mounted)
        BY DEF ClientInformed
    <2>1. pc = "ready" /\ Coming(d) = {} /\ Changes(d) = {} /\ InAdding(d) = {}
        BY QuietNothingQueued
    <2>2. ToldFor(d) /\ MountFor(d)
        BY <2>1 DEF Mirror, MirrorOf
    <2>3. told[d] \in {"nothing", "added", "removed"}
        BY DEF Typed, Tellings
    <2>4. told[d] # "nothing" => (told[d] = "added" <=> d \in present) \/ (version = 1 /\
              d \in failed)
        BY <2>1, <2>2, <2>3 DEF ToldFor
    <2>5. mountTold[d] # "nothing" /\ d \in present => mountTold[d] = MountSignal(d \in mounted)
        BY <2>1, <2>2 DEF MountFor
    <2> QED
        BY <2>4, <2>5
<1> QED
    BY <1>1, MirrorAlways, PTL
=============================================================================
