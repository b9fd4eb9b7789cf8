------------------------- MODULE StorageDeviceNotifier -------------------------
(***************************************************************************)
(* The mirror of the storage devices that StorageDeviceNotifier keeps, by  *)
(* UDisks2DeviceNotifier or UDisks1DeviceNotifier, whichever service is    *)
(* registered: it subscribes to the signals of the service, takes a        *)
(* snapshot, then follows the signals.  Devices come, go, are mounted and  *)
(* unmounted at any time; signals received during a blocking call wait in  *)
(* the queue of the event loop.  Slots of StorageDeviceAdded() may run an  *)
(* event loop of their own (a message box), slots of the others do not.    *)
(***************************************************************************)
EXTENDS Naturals, Sequences, FiniteSets, SequencesExt

CONSTANTS
    Devices,            \* object paths of filesystem block devices
    MaxEvents           \* bound: things that happen to devices

\* "none" is not the path of an object.
ASSUME DevicesAssumption == "none" \notin Devices
ASSUME BoundAssumption == MaxEvents \in Nat

VARIABLES
    present, mounted, events,   \* the service: its devices, the mounted ones
    version,            \* the registered service: 1 or 2
    pc,                 \* where the constructor is, or "ready" ...
    subscribed,         \* of "Added" and "Removed", those connected to
    todo,               \* devices of the reply not yet looked at
    found,              \* filesystem block devices not yet constructed
    reading,            \* the device under construction has been read
    list,               \* udisks[12]FilesystemBlockDevices_
    queue,              \* what the event loop has to deliver
    adding,             \* the calls of OnDeviceAdded(), innermost first
    told, mountTold,    \* the last signals about a device that were emitted
    early,              \* devices that came between subscription and snapshot
    slipped,            \* ... and went before removals were subscribed to
    overtaken,          \* devices removed inside the slots of their addition
    unread,             \* devices that changed between read and subscription
    failed,             \* devices whose construction failed
    swallowed           \* the constructor swallowed an exception

serviceVars == <<present, mounted, events, version>>
ghosts == <<early, slipped, overtaken, unread, failed, swallowed>>
vars == <<serviceVars, pc, subscribed, todo, found, reading, list, queue, adding,
          told, mountTold, ghosts>>

Nobody == [dev |-> "none", mounted |-> FALSE]
LiveEntries(d) == {i \in DOMAIN list : list[i].dev = d /\ ~list[i].deleted}
-----------------------------------------------------------------------------
Init ==
    /\ present \in SUBSET Devices
    /\ mounted = {} /\ events = 0
    /\ version \in {1, 2}
    /\ pc = "none"
    /\ subscribed = {}
    /\ todo = {} /\ found = {} /\ reading = Nobody
    /\ list = <<>> /\ queue = <<>> /\ adding = <<>>
    /\ told = [d \in Devices |-> "nothing"]
    /\ mountTold = [d \in Devices |-> "nothing"]
    /\ early = {} /\ slipped = {} /\ overtaken = {} /\ unread = {} /\ failed = {}
    /\ swallowed = FALSE

\* The service emits a signal, which reaches who is subscribed to it then.
Emits(signal, d) ==
    LET heard == IF signal = "Changed" THEN LiveEntries(d) # {} ELSE signal \in subscribed
    IN  /\ events < MaxEvents /\ events' = events + 1
        /\ queue' = IF heard
                    THEN Append(queue, [signal |-> signal, dev |-> d,
                                        mounted |-> d \in mounted', time |-> events'])
                    ELSE queue

Plug(d) ==
    /\ d \notin present
    /\ present' = present \cup {d}
    /\ UNCHANGED mounted
    /\ Emits("Added", d)
    /\ early' = IF pc \in {"connected", "subscribed"} THEN early \cup {d} ELSE early
    /\ UNCHANGED <<slipped, unread>>

Unplug(d) ==
    /\ d \in present
    /\ present' = present \ {d} /\ mounted' = mounted \ {d}
    /\ Emits("Removed", d)
    /\ slipped' = IF pc = "connected" /\ d \in early THEN slipped \cup {d} ELSE slipped
    /\ UNCHANGED <<early, unread>>

\* Mounted or unmounted.
Change(d) ==
    /\ d \in present
    /\ mounted' = IF d \in mounted THEN mounted \ {d} ELSE mounted \cup {d}
    /\ UNCHANGED present
    /\ Emits("Changed", d)
    /\ unread' = IF reading.dev = d \/ (\E i \in DOMAIN adding :
                        adding[i].dev = d /\ adding[i].at = "connect")
                 THEN unread \cup {d} ELSE unread
    /\ UNCHANGED <<early, slipped>>

DeviceChanges(d) ==
    /\ Plug(d) \/ Unplug(d) \/ Change(d)
    /\ UNCHANGED <<version, pc, subscribed, todo, found, reading, list, adding,
                   told, mountTold, overtaken, failed, swallowed>>
-----------------------------------------------------------------------------
ctorVars == <<serviceVars, adding, told, mountTold, early, slipped, overtaken, unread, failed>>

\* Mutant: the guard of the first subscription is missing.
CtorThrows_NoGuard ==
    /\ pc' = "failed"
    /\ subscribed' = subscribed \ {"Removed"}
    /\ queue' = <<>>
    /\ list' = [i \in DOMAIN list |-> [list[i] EXCEPT !.deleted = TRUE]]
    /\ UNCHANGED <<todo, found, swallowed>> /\ reading' = Nobody

\* The constructor throws: its guards disconnect, the devices are deleted, and
\* what was sent to it is dropped.
CtorThrows ==
    /\ pc' = "failed"
    /\ subscribed' = {}
    /\ queue' = <<>>
    /\ list' = [i \in DOMAIN list |-> [list[i] EXCEPT !.deleted = TRUE]]
    /\ UNCHANGED <<todo, found, swallowed>> /\ reading' = Nobody

\* The catch (...) of UDisks1: the devices are deleted and their pointers stay.
CtorSwallows ==
    /\ pc' = "ready"
    /\ swallowed' = TRUE
    /\ list' = [i \in DOMAIN list |-> [list[i] EXCEPT !.deleted = TRUE]]
    /\ reading' = Nobody
    /\ UNCHANGED <<subscribed, queue, todo, found>>

\* Mutant: what connect() returns is not looked at.
Subscribe_Unchecked(signal) ==
    /\ CASE signal = "Added" -> pc = "none" [] signal = "Removed" -> pc = "connected"
    /\ subscribed' = subscribed \cup {signal} \/ UNCHANGED subscribed
    /\ pc' = IF signal = "Added" THEN "connected" ELSE "subscribed"
    /\ UNCHANGED <<todo, found, reading, list, queue, swallowed>>
    /\ UNCHANGED ctorVars

\* StorageDeviceNotifier(): connect to the signals, in turn.
Subscribe(signal) ==
    /\ CASE signal = "Added" -> pc = "none" [] signal = "Removed" -> pc = "connected"
    /\ \/ /\ subscribed' = subscribed \cup {signal}
          /\ pc' = IF signal = "Added" THEN "connected" ELSE "subscribed"
          /\ UNCHANGED <<todo, found, reading, list, queue, swallowed>>
       \/ CtorThrows
    /\ UNCHANGED ctorVars

\* GetManagedObjects() of UDisks2, which tells the filesystems, too, or
\* EnumerateDevices() of UDisks1, which does not.
Enumerate ==
    /\ pc = "subscribed"
    /\ \/ /\ IF version = 2 THEN found' = present /\ todo' = {} /\ pc' = "found"
                            ELSE todo' = present /\ found' = {} /\ pc' = "check"
          /\ UNCHANGED <<subscribed, reading, list, queue, swallowed>>
       \/ CtorThrows
    /\ UNCHANGED ctorVars

\* IsBlockDevice() and IsFilesystem() of UDisks1 ask the device, and throw when
\* it is gone.
Check(d) ==
    /\ pc = "check" /\ d \in todo
    /\ IF d \in present
       THEN /\ todo' = todo \ {d} /\ found' = found \cup {d}
            /\ UNCHANGED <<pc, subscribed, reading, list, queue, swallowed>>
       ELSE CtorThrows
    /\ UNCHANGED ctorVars

Checked ==
    /\ pc = "check" /\ todo = {}
    /\ pc' = "found"
    /\ UNCHANGED <<subscribed, todo, found, reading, list, queue, swallowed>>
    /\ UNCHANGED ctorVars

Entry(d, m) == [dev |-> d, mounted |-> m, deleted |-> FALSE, born |-> events]

\* UDisks1FilesystemBlockDevice(): the mounted state is read ...
ReadMounted(d) ==
    /\ pc = "found" /\ version = 1 /\ d \in found /\ reading = Nobody
    /\ IF d \in present
       THEN /\ reading' = [dev |-> d, mounted |-> d \in mounted]
            /\ UNCHANGED <<pc, subscribed, todo, found, list, queue, swallowed>>
       ELSE CtorSwallows
    /\ UNCHANGED ctorVars

\* ... and the signal connected to; UDisks2FilesystemBlockDevice() does the
\* latter alone.
ConstructDevice(d) ==
    /\ pc = "found" /\ d \in found
    /\ version = 1 => reading.dev = d
    /\ \/ /\ list' = Append(list, Entry(d, reading.mounted))
          /\ found' = found \ {d}
          /\ reading' = Nobody
          /\ UNCHANGED <<pc, subscribed, todo, queue, swallowed>>
       \/ IF version = 1 THEN CtorSwallows ELSE CtorThrows
    /\ UNCHANGED ctorVars

Commit ==
    /\ pc = "found" /\ found = {}
    /\ pc' = "ready"
    /\ UNCHANGED <<subscribed, todo, found, reading, list, queue, swallowed>>
    /\ UNCHANGED ctorVars

Construct ==
    \/ Subscribe("Added") \/ Subscribe("Removed")
    \/ Enumerate
    \/ \E d \in Devices : Check(d) \/ ReadMounted(d) \/ ConstructDevice(d)
    \/ Checked \/ Commit
-----------------------------------------------------------------------------
\* The event loop runs: the outer one, or that of a slot.
Delivers(signal, d) ==
    /\ pc = "ready"
    /\ adding # <<>> => Head(adding).at = "slots"
    /\ queue # <<>> /\ Head(queue).signal = signal /\ Head(queue).dev = d
    /\ queue' = Tail(queue)

handlerUnchanged == <<serviceVars, subscribed, todo, found, reading, early, slipped, swallowed>>

\* OnInterfacesAdded() and OnDeviceAdded(): StorageDeviceAdded() is emitted
\* first.  UDisks1 asks the device before, and throws when it is gone.
OnAdded(d) ==
    /\ Delivers("Added", d)
    /\ IF version = 1 /\ d \notin present
       THEN UNCHANGED <<adding, told, mountTold>>
       ELSE /\ adding' = <<[dev |-> d, at |-> "slots", mounted |-> FALSE]>> \o adding
            /\ told' = [told EXCEPT ![d] = "added"]
            /\ mountTold' = [mountTold EXCEPT ![d] = "nothing"]
    /\ UNCHANGED <<handlerUnchanged, pc, list, overtaken, unread, failed>>

\* The slots have returned: UDisks1 reads the mounted state, and throws when
\* the device is gone.
AddedReads ==
    /\ version = 1 /\ adding # <<>> /\ Head(adding).at = "slots"
    /\ LET d == Head(adding).dev
       IN  IF d \in present
           THEN /\ adding' = [adding EXCEPT ![1].at = "connect", ![1].mounted = d \in mounted]
                /\ UNCHANGED failed
           ELSE /\ adding' = Tail(adding)
                /\ failed' = failed \cup {d}
    /\ UNCHANGED <<handlerUnchanged, pc, list, queue, told, mountTold, overtaken, unread>>

\* The device connects and is appended, or throws; UDisks2 does not pass the
\* exception on.
AddedAppends ==
    /\ adding # <<>> /\ Head(adding).at = IF version = 1 THEN "connect" ELSE "slots"
    /\ LET d == Head(adding).dev
       IN  \/ /\ list' = Append(list, Entry(d, Head(adding).mounted))
              /\ failed' = failed \ {d}
           \/ failed' = failed \cup {d} /\ UNCHANGED list
    /\ adding' = Tail(adding)
    /\ UNCHANGED <<handlerUnchanged, pc, queue, told, mountTold, overtaken, unread>>

\* Mutant: the device is deleted and its pointer stays.
Without_Keeps(i) == [list EXCEPT ![i].deleted = TRUE]

\* erase(iter) after delete *iter.
Without(i) == RemoveAt(list, i)

\* OnInterfacesRemoved() and OnDeviceRemoved(): the first device of that path is
\* deleted.  UDisks2 emits StorageDeviceRemoved() whether there is one or not.
\* Looking at a deleted device on the way is undefined behaviour.
OnRemoved(d) ==
    LET same == {i \in DOMAIN list : list[i].dev = d}
        first == CHOOSE i \in same : \A j \in same : i <= j
        looked == {i \in DOMAIN list : same # {} => i <= first}
    IN  /\ Delivers("Removed", d)
        /\ IF \E i \in looked : list[i].deleted
           THEN pc' = "undefined" /\ UNCHANGED <<list, told, mountTold>>
           ELSE /\ list' = IF same = {} THEN list ELSE Without(first)
                /\ told' = IF same # {} \/ version = 2
                           THEN [told EXCEPT ![d] = "removed"] ELSE told
                /\ mountTold' = [mountTold EXCEPT ![d] = "nothing"]
                /\ UNCHANGED pc
        /\ overtaken' = IF \E i \in DOMAIN adding : adding[i].dev = d
                        THEN overtaken \cup {d} ELSE overtaken
        /\ unread' = unread \ {d}
        /\ UNCHANGED <<handlerUnchanged, adding, failed>>

\* Mutant: every change of UDisks1 toggles.
MountedNow_Toggles(i, d) == ~list[i].mounted

\* GetDeviceIsMounted() of the device of an entry.
MountedNow(i, d) == d \in mounted

\* A signal is for the devices that existed when it was sent.
Receivers(d) == {i \in LiveEntries(d) : list[i].born < Head(queue).time}

MountSignal(m) == IF m THEN "mounted" ELSE "unmounted"

\* OnPropertiesChanged() of UDisks2 forwards what the signal says; OnChanged()
\* of UDisks1 asks the device, ignores it when it is gone, and tells changes.
OnChanged(d) ==
    /\ Delivers("Changed", d)
    /\ IF version = 2
       THEN /\ mountTold' = IF Receivers(d) # {}
                            THEN [mountTold EXCEPT ![d] = MountSignal(Head(queue).mounted)] ELSE mountTold
            /\ UNCHANGED <<list, unread>>
       ELSE LET news == {i \in Receivers(d) :
                            d \in present /\ list[i].mounted # MountedNow(i, d)}
            IN  /\ list' = [i \in DOMAIN list |->
                        IF i \in news THEN [list[i] EXCEPT !.mounted = MountedNow(i, d)]
                                      ELSE list[i]]
                /\ mountTold' = IF news # {}
                                THEN [mountTold EXCEPT ![d] =
                                        MountSignal(MountedNow(CHOOSE i \in news : TRUE, d))]
                                ELSE mountTold
                /\ unread' = IF d \in present /\ Receivers(d) # {} THEN unread \ {d} ELSE unread
    /\ UNCHANGED <<handlerUnchanged, pc, adding, told, overtaken, failed>>

\* ~UDisks[12]DeviceNotifier(), by Uninit(): the devices are deleted, once more
\* those of a constructor that swallowed an exception.
Uninit ==
    /\ pc = "ready" /\ adding = <<>>
    /\ pc' = IF \E i \in DOMAIN list : list[i].deleted THEN "undefined" ELSE "uninit"
    /\ list' = [i \in DOMAIN list |-> [list[i] EXCEPT !.deleted = TRUE]]
    /\ subscribed' = {} /\ queue' = <<>>
    /\ UNCHANGED <<serviceVars, todo, found, reading, adding, told, mountTold, ghosts>>

Handle ==
    \/ \E d \in Devices : OnAdded(d) \/ OnRemoved(d) \/ OnChanged(d)
    \/ AddedReads \/ AddedAppends
    \/ Uninit

Next == (\E d \in Devices : DeviceChanges(d)) \/ Construct \/ Handle

Spec == Init /\ [][Next]_vars
-----------------------------------------------------------------------------
Quiet == pc = "ready" /\ queue = <<>> /\ adding = <<>>

TypeOK ==
    /\ mounted \subseteq present /\ present \subseteq Devices
    /\ events \in 0..MaxEvents /\ version \in {1, 2}
    /\ pc \in {"none", "connected", "subscribed", "check", "found", "ready",
               "failed", "uninit", "undefined"}
    /\ subscribed \subseteq {"Added", "Removed"}
    /\ todo \cup found \cup early \cup overtaken \cup unread \cup failed \subseteq Devices
    /\ reading \in [dev : Devices \cup {"none"}, mounted : BOOLEAN]
    /\ list \in Seq([dev : Devices, mounted : BOOLEAN, deleted : BOOLEAN,
                     born : 0..MaxEvents])
    /\ queue \in Seq([signal : {"Added", "Removed", "Changed"}, dev : Devices,
                      mounted : BOOLEAN, time : 1..MaxEvents])
    /\ adding \in Seq([dev : Devices, at : {"slots", "connect"}, mounted : BOOLEAN])
    /\ told \in [Devices -> {"nothing", "added", "removed"}]
    /\ mountTold \in [Devices -> {"nothing", "mounted", "unmounted"}]
    /\ slipped \subseteq early /\ swallowed \in BOOLEAN

\* Types apart: once all signals are handled the list is that of the service.
\* No device is missing, whenever it came, but for one whose construction
\* failed; none is too many, but for one that came between the subscription and
\* the snapshot, which is in both or went unnoticed, or one that went inside the
\* slots of its addition.  The mounted state that a UDisks1 device caches is the
\* true one, unless it changed between the read and the subscription.
MirrorsDevices ==
    /\ TypeOK
    /\ Quiet => \A d \in Devices :
        /\ d \in present => LiveEntries(d) # {} \/ d \in failed \/ swallowed
        /\ d \notin early \cup overtaken =>
            Cardinality(LiveEntries(d)) <= IF d \in present THEN 1 ELSE 0
        /\ version = 1 /\ d \in present /\ d \notin early \cup overtaken \cup unread =>
            \A i \in LiveEntries(d) : list[i].mounted = (d \in mounted)

\* A deleted device is used only after the constructor of UDisks1 swallowed the
\* exception that made it delete the devices.
NoDeletedUse == pc = "undefined" => swallowed /\ version = 1

\* A constructor that throws, at any point, and Uninit() leave nothing behind:
\* no subscription and no device object.
RolledBack == pc \in {"failed", "uninit"} =>
    subscribed = {} /\ \A d \in Devices : LiveEntries(d) = {}

\* What the slots were told last is true when all signals are handled: whether
\* the device is there, unless OnDeviceAdded() of UDisks1 threw after it had
\* emitted the addition, or the device came and went while only additions were
\* subscribed to; and whether it is mounted.
ClientInformed == Quiet => \A d \in Devices \ slipped :
    /\ told[d] # "nothing" =>
        (told[d] = "added" <=> d \in present) \/ (version = 1 /\ d \in failed)
    /\ mountTold[d] # "nothing" /\ d \in present => mountTold[d] = MountSignal(d \in mounted)
=============================================================================
