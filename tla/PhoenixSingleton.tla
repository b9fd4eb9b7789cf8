--------------------------- MODULE PhoenixSingleton ---------------------------
(***************************************************************************)
(* PhoenixSingleton and ThreadSafePhoenixSingleton of singletons.hpp, with *)
(* thread safe local statics, in a program whose static objects use the    *)
(* singleton in their constructors and destructors.  Destructors of static *)
(* objects and the functions given to atexit() run in the reverse of the   *)
(* order in which they were registered, those registered meanwhile first.  *)
(***************************************************************************)
EXTENDS Integers, Sequences

CONSTANT Users      \* the other static objects of the program

ASSUME UsersAssumption == Users \cap {"instance", "mtx", "Destroy"} = {}

VARIABLES
    phase,          \* "running", "exiting" or "done"
    exits,          \* what is registered to run at exit, the first to run first
    instanceInit,   \* the local static of Create() was initialized
    mtx,            \* the local static of GetMutexRef(), "unused" by PhoenixSingleton
    pInstance,      \* pInstance_ is not NULL
    destroyed,      \* destroyed_
    lives,          \* objects constructed in the storage and not destroyed
    threw,          \* a constructor of T threw
    returned        \* what the last GetInstance() did

vars == <<phase, exits, instanceInit, mtx, pInstance, destroyed, lives, threw,
          returned>>
-----------------------------------------------------------------------------
Init ==
    /\ phase = "running"
    /\ exits = <<>>
    /\ instanceInit = FALSE
    /\ mtx \in {"unused", "none"}
    /\ pInstance = FALSE
    /\ destroyed = FALSE
    /\ lives = 0
    /\ threw = FALSE
    /\ returned = "none"

\* exits with the handlers that GetMutexRef() and then Create() or ReCreate()
\* register.
Registered(handlers) ==
    handlers \o (IF mtx = "none" THEN <<"mtx">> ELSE <<>>) \o exits

GetMutexRef == mtx' = IF mtx = "none" THEN "alive" ELSE mtx

\* The object exists.
GetExisting ==
    /\ pInstance
    /\ returned' = "instance"
    /\ exits' = Registered(<<>>)
    /\ UNCHANGED <<instanceInit, pInstance, destroyed, lives, threw>>

\* Mutant: Create() registers Destroy(), too.
Create_Registers ==
    /\ ~pInstance /\ ~destroyed
    /\ pInstance' = TRUE
    /\ instanceInit' = TRUE
    /\ lives' = lives + 1
    /\ exits' = Registered(<<"Destroy", "instance">>)
    /\ returned' = "instance"
    /\ UNCHANGED <<destroyed, threw>>

\* Create(): the local static is initialized, and its destructor registered.
Create ==
    /\ ~pInstance /\ ~destroyed
    /\ pInstance' = TRUE
    /\ instanceInit' = TRUE
    /\ lives' = IF instanceInit THEN lives ELSE lives + 1
    /\ exits' = Registered(IF instanceInit THEN <<>> ELSE <<"instance">>)
    /\ returned' = "instance"
    /\ UNCHANGED <<destroyed, threw>>

\* Mutant: Destroy() is not registered with atexit().
ReCreate_Unregistered ==
    /\ ~pInstance /\ destroyed
    /\ instanceInit' = TRUE
    /\ exits' = Registered(IF instanceInit THEN <<>> ELSE <<"instance">>)
    /\ lives' = lives + 1 + (IF instanceInit THEN 0 ELSE 1)
    /\ pInstance' = TRUE
    /\ destroyed' = FALSE
    /\ returned' = "instance"
    /\ UNCHANGED threw

\* ReCreate(): Create(), then T is constructed in the storage and Destroy()
\* registered; when that fails the new object is destroyed again.
ReCreate ==
    LET initLives == lives + (IF instanceInit THEN 0 ELSE 1)
        initExits == IF instanceInit THEN <<>> ELSE <<"instance">>
    IN  /\ ~pInstance /\ destroyed
        /\ instanceInit' = TRUE
        /\ \/ /\ lives' = initLives + 1
              /\ exits' = Registered(<<"Destroy">> \o initExits)
              /\ pInstance' = TRUE
              /\ destroyed' = FALSE
              /\ returned' = "instance"
           \/ /\ lives' = initLives
              /\ exits' = Registered(initExits)
              /\ returned' = "exception"
              /\ UNCHANGED <<pInstance, destroyed>>
        /\ UNCHANGED threw

\* The constructor of T throws, in the initialization of the local static or
\* in ReCreate(): ~PhoenixSingleton() of the base was run.  It does so once.
CreateThrows ==
    /\ ~threw
    /\ ~pInstance
    /\ threw' = TRUE
    /\ destroyed' = TRUE
    /\ returned' = "exception"
    /\ exits' = Registered(<<>>)
    /\ UNCHANGED <<instanceInit, pInstance, lives>>

\* GetInstance().  Locking a mutex after its destruction throws at best.
GetInstance ==
    IF mtx = "dead"
    THEN returned' = "deadMutex" /\ UNCHANGED <<exits, instanceInit, mtx,
                        pInstance, destroyed, lives, threw>>
    ELSE GetMutexRef /\ (GetExisting \/ Create \/ ReCreate \/ CreateThrows)
-----------------------------------------------------------------------------
\* A static object is constructed, by main or before it.
Construct(u) ==
    /\ phase = "running"
    /\ \A i \in DOMAIN exits : exits[i] # u
    /\ exits' = <<u>> \o exits
    /\ returned' = "none"
    /\ UNCHANGED <<phase, instanceInit, mtx, pInstance, destroyed, lives, threw>>

Use ==
    /\ phase = "running"
    /\ GetInstance
    /\ UNCHANGED phase

\* exit(), or main() returns.
Exit ==
    /\ phase = "running"
    /\ phase' = "exiting"
    /\ returned' = "none"
    /\ UNCHANGED <<exits, instanceInit, mtx, pInstance, destroyed, lives, threw>>

\* Mutant: the destructor leaves the pointer.
EndLife_KeepsPointer ==
    /\ lives' = lives - 1
    /\ destroyed' = TRUE
    /\ UNCHANGED pInstance

\* ~T() and ~PhoenixSingleton().
EndLife ==
    /\ lives' = lives - 1
    /\ pInstance' = FALSE
    /\ destroyed' = TRUE

\* The destructor of the local static, or Destroy().
DestroyInstance ==
    /\ phase = "exiting" /\ exits # <<>>
    /\ Head(exits) \in {"instance", "Destroy"}
    /\ exits' = Tail(exits)
    /\ EndLife
    /\ returned' = "none"
    /\ UNCHANGED <<phase, instanceInit, mtx, threw>>

\* The destructor of the local static of GetMutexRef().
DestroyMutex ==
    /\ phase = "exiting" /\ exits # <<>>
    /\ Head(exits) = "mtx"
    /\ exits' = Tail(exits)
    /\ mtx' = "dead"
    /\ returned' = "none"
    /\ UNCHANGED <<phase, instanceInit, pInstance, destroyed, lives, threw>>

\* The destructor of a static object begins ...
DestroyUser ==
    /\ phase = "exiting" /\ exits # <<>>
    /\ Head(exits) \in Users
    /\ exits' = Tail(exits)
    /\ phase' = "inDestructor"
    /\ returned' = "none"
    /\ UNCHANGED <<instanceInit, mtx, pInstance, destroyed, lives, threw>>

\* ... and uses the singleton or does not.
UseInDestructor ==
    /\ phase = "inDestructor"
    /\ phase' = "exiting"
    /\ \/ GetInstance
       \/ UNCHANGED <<exits, instanceInit, mtx, pInstance, destroyed, lives,
                      threw, returned>>

Done ==
    /\ phase = "exiting" /\ exits = <<>>
    /\ phase' = "done"
    /\ returned' = "none"
    /\ UNCHANGED <<exits, instanceInit, mtx, pInstance, destroyed, lives, threw>>

Ended == phase = "done" /\ UNCHANGED vars

Next ==
    \/ \E u \in Users : Construct(u)
    \/ Use \/ Exit
    \/ DestroyInstance \/ DestroyMutex \/ DestroyUser \/ UseInDestructor \/ Done
    \/ Ended

Spec == Init /\ [][Next]_vars
-----------------------------------------------------------------------------
Handlers == Users \cup {"instance", "mtx", "Destroy"}

TypeOK ==
    /\ phase \in {"running", "exiting", "inDestructor", "done"}
    /\ exits \in Seq(Handlers)
    /\ {instanceInit, pInstance, destroyed, threw} \subseteq BOOLEAN
    /\ mtx \in {"unused", "none", "alive", "dead"}
    /\ mtx = "alive" <=> \E i \in DOMAIN exits : exits[i] = "mtx"
    /\ lives \in Int
    /\ returned \in {"none", "instance", "exception", "deadMutex"}

\* Types apart: at no time does the storage hold two objects, nor is one destroyed twice:
\* the destructor of the local static and Destroy() take turns.  A constructor
\* that threw breaks this.
OneLife == TypeOK /\ (lives \in {0, 1} \/ threw)

\* GetInstance() returns a live object, after any number of destructions.
ReturnsLive == returned = "instance" => lives > 0

\* Every object, the recreated ones included, was destroyed when the program
\* has ended, and the state tells so.
DestroyedAtEnd == phase = "done" => lives = 0 /\ ~pInstance
=============================================================================
