------------------------------- MODULE SeeInit -------------------------------
(***************************************************************************)
(* Bringing the library up and down: see_init and see_deinit               *)
(* (src/src/see_init.c), with what they call: the initialisation of the    *)
(* meta class, of every class, and of the global random device             *)
(* (src/src/MetaClass.c, src/src/Random.cpp and the *_init of each class). *)
(*                                                                         *)
(* Several threads use the library.  An atomic counter makes the first     *)
(* caller of see_init create the classes; the others wait in a loop for    *)
(* the plain variable g_is_init.  The last caller of see_deinit destroys   *)
(* the classes.  A step of a thread creates or destroys one class, which   *)
(* other threads interleave with.                                          *)
(*                                                                         *)
(* What the surroundings may do is chosen by the constants: whether calloc *)
(* fails, whether the build reads g_is_init again in the waiting loop, and *)
(* when a client that has finished starts again.                           *)
(***************************************************************************)
EXTENDS Integers, Sequences

CONSTANTS Threads,
          Scenarios   \* the circumstances a run may have, of which it has one

\* allocFails: calloc may return NULL.  rereads: the compiled loop loads
\* g_is_init every time round.  restart: when see_init is called after the last
\* see_deinit of a period of use: "never" (once a period got as far as the random
\* device), "after_deinit" (when that call has returned), or "any_time" (also
\* while it runs).  build: the platform, which has its own serial class and, on
\* Windows, its own class of errors.
ScenarioType ==
  [build : {"posix", "windows"}, allocFails : BOOLEAN, rereads : BOOLEAN,
   restart : {"never", "after_deinit", "any_time"}]

\* The class of serial devices that see_serial_init makes, too.
Device(build) == IF build = "windows" THEN "WindowsSerial" ELSE "PosixSerial"

(* Changed forms of the two lists below, for the mutation runs. *)

\* The list of calls is sorted by name, and a class comes before its parent.
InitOrderByName(build) ==
  <<"Meta", "Clock", "CopyError", "Duration", "DynamicArray", "Error",
    "IncomparableError", "IndexError", "MsgBuffer", "MsgInvalidError",
    "MsgPart", "MsgPartTypeError", "OverflowError", Device(build), "Random",
    "RuntimeError", "Serial", "Stack", "TimeoutError", "TimePoint">>

\* The destructor list misses a class.
DeinitOrderIncomplete(build) ==
  <<"Clock", "CopyError", "Duration", "DynamicArray", "Error",
    "IncomparableError", "IndexError", "MsgBuffer", "MsgInvalidError",
    "MsgPart", "OverflowError", "Random", "RuntimeError",
    Device(build), "Serial", "Stack", "TimeoutError", "TimePoint", "Meta">>

\* The order of the calls in initialize.
InitOrder(build) ==
  <<"Meta", "Clock", "CopyError", "Duration", "DynamicArray", "Error",
    "IncomparableError", "IndexError", "MsgBuffer", "MsgInvalidError",
    "MsgPart", "MsgPartTypeError", "OverflowError", "Random", "RuntimeError",
    "Serial", Device(build), "Stack", "TimeoutError", "TimePoint">>
  \o IF build = "windows" THEN <<"WindowsRuntimeError">> ELSE <<>>

\* The order of the calls in deinit.
DeinitOrder(build) ==
  <<"Clock", "CopyError", "Duration", "DynamicArray", "Error",
    "IncomparableError", "IndexError", "MsgBuffer", "MsgInvalidError",
    "MsgPart", "MsgPartTypeError", "OverflowError", "Random", "RuntimeError",
    Device(build), "Serial", "Stack", "TimeoutError", "TimePoint", "Meta">>

\* The classes of a build.
Classes(build) == {InitOrder(build)[i] : i \in DOMAIN InitOrder(build)}

AllClasses == Classes("posix") \cup Classes("windows")

\* The class that the initialisation of class c hands to
\* see_meta_class_new_class as parent; "Object" is static and always there.
Parent(c) ==
  IF c \in {"CopyError", "IncomparableError", "IndexError", "MsgInvalidError",
            "MsgPartTypeError", "OverflowError", "RuntimeError", "TimeoutError",
            "WindowsRuntimeError"}
  THEN "Error"
  ELSE IF c \in {"PosixSerial", "WindowsSerial"} THEN "Serial" ELSE "Object"

\* The classes whose initialisation returns SEE_SUCCESS when they exist; that
\* of the others returns SEE_INVALID_ARGUMENT.
Guarded == {"Meta", "CopyError", "Error"}

VARIABLES count,   \* g_init_count
          ready,   \* g_is_init
          classes, \* the classes whose global pointer is not NULL
          device,  \* global_random_device: "null", "live" or "freed"
          pc,      \* pc[t]: where thread t is in its use of the library
          step,    \* step[t]: its position in InitOrder or DeinitOrder
          scenario \* the circumstances of this run; never changes

vars == <<count, ready, classes, device, pc, step, scenario>>

\* pc[t] is "using" or "failed" after see_init returned success or an error,
\* and "hung" in a waiting loop that does not load g_is_init any more.
TypeOK ==
  /\ count \in Nat
  /\ ready \in BOOLEAN
  /\ classes \subseteq Classes(scenario.build)
  /\ device \in {"null", "live", "freed"}
  /\ pc \in [Threads -> {"out", "initializing", "waiting", "hung", "using",
                         "failed", "deinitializing"}]
  /\ step \in [Threads -> 0 .. Len(InitOrder(scenario.build)) + 1]
  /\ scenario \in Scenarios

\* The classes that the initialisation of c creates: see_copy_error_init calls
\* see_error_init when its parent is missing.
Creates(c) == IF c = "CopyError" THEN {"Error", "CopyError"} ELSE {c}

\* see_meta_class_new_class finds a meta class and a parent.
Creatable(c) ==
  \/ c = "Meta"
  \/ /\ "Meta" \in classes
     /\ Parent(c) \in classes \cup Creates(c) \cup {"Object"}

Goto(t, label, position) ==
  /\ pc' = [pc EXCEPT ![t] = label]
  /\ step' = [step EXCEPT ![t] = position]

Proceed(t) == Goto(t, "initializing", step[t] + 1)

Fail(t) == Goto(t, "failed", 0)

-----------------------------------------------------------------------------
(* Changed forms of the operations below, for the mutation runs. *)

\* initialize forgets to set g_is_init.
InitDoneSilent(t) ==
  /\ pc[t] = "initializing" /\ step[t] = Len(InitOrder(scenario.build)) + 1
  /\ Goto(t, "using", 0)
  /\ UNCHANGED <<count, ready, classes, device, scenario>>

\* The second caller returns at once, without waiting.
SeeInitNoWait(t) ==
  /\ pc[t] = "out"
  /\ count' = count + 1
  /\ IF count' = 1 THEN Goto(t, "initializing", 1) ELSE Goto(t, "using", 0)
  /\ UNCHANGED <<ready, classes, device, scenario>>

\* The test of the decremented counter is off by one.
SeeDeinitEarly(t) ==
  /\ pc[t] \in {"using", "failed"}
  /\ count' = count - 1
  /\ IF count' <= 1 THEN Goto(t, "deinitializing", 1) ELSE Goto(t, "out", 0)
  /\ UNCHANGED <<ready, classes, device, scenario>>

-----------------------------------------------------------------------------
Init ==
  /\ count = 0
  /\ ready = FALSE
  /\ classes = {}
  /\ device = "null"
  /\ pc = [t \in Threads |-> "out"]
  /\ step = [t \in Threads |-> 0]
  /\ scenario \in Scenarios

\* When a client calls see_init.
MayStart ==
  LET nobodyLeaves == \A t \in Threads : pc[t] # "deinitializing"
  IN  \/ scenario.restart = "any_time"
      \/ scenario.restart = "after_deinit" /\ nobodyLeaves
      \/ /\ scenario.restart = "never"
         /\ count > 0 \/ (device = "null" /\ nobodyLeaves)

\* see_init: the atomic increment, and the test of its result.
SeeInit(t) ==
  /\ pc[t] = "out"
  /\ MayStart
  /\ count' = count + 1
  /\ IF count' = 1 THEN Goto(t, "initializing", 1) ELSE Goto(t, "waiting", 0)
  /\ UNCHANGED <<ready, classes, device, scenario>>

\* The waiting loop of see_init sees g_is_init set.
WaitEnds(t) ==
  /\ pc[t] = "waiting"
  /\ ready
  /\ Goto(t, "using", 0)
  /\ UNCHANGED <<count, ready, classes, device, scenario>>

\* g_is_init is not atomic: a compiler may load it once, before the loop.
WaitHangs(t) ==
  /\ ~ scenario.rereads
  /\ pc[t] = "waiting"
  /\ ~ ready
  /\ Goto(t, "hung", 0)
  /\ UNCHANGED <<count, ready, classes, device, scenario>>

\* Thread t is about to initialise class c, in initialize.
AtClass(t, c) ==
  /\ pc[t] = "initializing"
  /\ step[t] \in DOMAIN InitOrder(scenario.build)
  /\ c = InitOrder(scenario.build)[step[t]]

\* The *_init of c creates its class.
InitClass(t, c) ==
  /\ AtClass(t, c) /\ c # "Random"
  /\ c \notin classes
  /\ Creatable(c)
  /\ classes' = classes \cup Creates(c)
  /\ Proceed(t)
  /\ UNCHANGED <<count, ready, device, scenario>>

\* It fails, for want of memory, of a meta class or of a parent; an on-demand
\* parent may have been created.
InitClassFails(t, c) ==
  /\ AtClass(t, c) /\ c # "Random"
  /\ c \notin classes
  /\ scenario.allocFails \/ ~ Creatable(c)
  /\ \E made \in SUBSET (Creates(c) \ {c}) :
       /\ Creatable(c) \/ made = {}
       /\ classes' = classes \cup made
  /\ Fail(t)
  /\ UNCHANGED <<count, ready, device, scenario>>

\* The class is there already.
InitClassPresent(t, c) ==
  /\ AtClass(t, c) /\ c # "Random"
  /\ c \in classes
  /\ IF c \in Guarded THEN Proceed(t) ELSE Fail(t)
  /\ UNCHANGED <<count, ready, classes, device, scenario>>

\* see_random_init when there is no random device yet: the class, whose result
\* is overwritten by that of the device.
InitRandom(t) ==
  /\ AtClass(t, "Random")
  /\ device = "null"
  /\ "Random" \in classes \/ Creatable("Random")
  /\ classes' = classes \cup {"Random"}
  /\ device' = "live"
  /\ Proceed(t)
  /\ UNCHANGED <<count, ready, scenario>>

\* The class or the device cannot be allocated.
InitRandomFails(t) ==
  /\ AtClass(t, "Random")
  /\ device = "null"
  /\ \/ scenario.allocFails /\ classes' \in {classes, classes \cup {"Random"}}
     \/ "Random" \notin classes /\ ~ Creatable("Random") /\ classes' = classes
  /\ "Random" \notin classes' \/ "Random" \in classes \/ Creatable("Random")
  /\ Fail(t)
  /\ UNCHANGED <<count, ready, device, scenario>>

\* see_random_init when the pointer is left from an earlier use of the library:
\* the device is released, through the class it had, but the pointer stays, and
\* see_random_new refuses a pointer that is not NULL.
InitRandomAgain(t) ==
  /\ AtClass(t, "Random")
  /\ device # "null"
  /\ device' = "freed"
  /\ \/ Creatable("Random") /\ classes' = classes \cup {"Random"}
     \/ (scenario.allocFails \/ ~ Creatable("Random")) /\ classes' = classes
  /\ Fail(t)
  /\ UNCHANGED <<count, ready, scenario>>

\* All classes are there: g_is_init = 1, and see_init returns.
InitDone(t) ==
  /\ pc[t] = "initializing" /\ step[t] = Len(InitOrder(scenario.build)) + 1
  /\ ready' = TRUE
  /\ Goto(t, "using", 0)
  /\ UNCHANGED <<count, classes, device, scenario>>

\* see_deinit: the atomic decrement, and the test of its result.
SeeDeinit(t) ==
  /\ pc[t] \in {"using", "failed"}
  /\ count' = count - 1
  /\ IF count' = 0 THEN Goto(t, "deinitializing", 1) ELSE Goto(t, "out", 0)
  /\ UNCHANGED <<ready, classes, device, scenario>>

\* deinit destroys the next class, if there is one.
DeinitClass(t) ==
  /\ pc[t] = "deinitializing" /\ step[t] \in DOMAIN DeinitOrder(scenario.build)
  /\ classes' = classes \ {DeinitOrder(scenario.build)[step[t]]}
  /\ Goto(t, "deinitializing", step[t] + 1)
  /\ UNCHANGED <<count, ready, device, scenario>>

\* g_is_init = 0, and see_deinit returns.
DeinitDone(t) ==
  /\ pc[t] = "deinitializing" /\ step[t] = Len(DeinitOrder(scenario.build)) + 1
  /\ ready' = FALSE
  /\ Goto(t, "out", 0)
  /\ UNCHANGED <<count, classes, device, scenario>>

\* The steps thread t takes inside see_init and see_deinit.
Library(t) ==
  \/ WaitEnds(t)
  \/ WaitHangs(t)
  \/ \E c \in AllClasses :
       InitClass(t, c) \/ InitClassFails(t, c) \/ InitClassPresent(t, c)
  \/ InitRandom(t) \/ InitRandomFails(t) \/ InitRandomAgain(t)
  \/ InitDone(t)
  \/ DeinitClass(t) \/ DeinitDone(t)

Next == \E t \in Threads : SeeInit(t) \/ SeeDeinit(t) \/ Library(t)

\* Every thread that is inside the library is scheduled; a client is free to
\* stay, or to leave without see_deinit.
Spec == Init /\ [][Next]_vars /\ \A t \in Threads : WF_vars(Library(t))

-----------------------------------------------------------------------------
(* Properties *)

\* A thread to which see_init has returned success finds all classes there,
\* until it calls see_deinit.
UsersSeeAllClasses ==
  \A t \in Threads : pc[t] = "using" => classes = Classes(scenario.build)

\* No two threads are creating or destroying classes at the same time: the
\* class initialisers work on global variables without a lock.
OneBuilder ==
  \A t, u \in Threads :
    {pc[t], pc[u]} \subseteq {"initializing", "deinitializing"} => t = u

\* Once every user has called see_deinit no class is left in memory, also
\* after an initialisation that stopped half way, and nobody is told that the
\* library is ready.  On Windows one class stays: windows_init makes it, and
\* deinit does not call see_windows_runtime_error_deinit.
ClassesFreed ==
  count = 0 /\ (\A t \in Threads : pc[t] # "deinitializing")
    => classes \subseteq {"WindowsRuntimeError"} /\ ~ ready

\* With enough memory the first use of the library does not meet an error: the
\* classes come in an order in which each finds its parent, and none is there
\* before.
FirstUseSucceeds ==
  ~ scenario.allocFails /\ scenario.restart = "never"
    => \A t \in Threads : pc[t] # "failed"

\* Nor does a later use, after the last see_deinit has returned ("This function
\* enables all classes that are supported", see_init.h).
EveryUseSucceeds ==
  ~ scenario.allocFails => \A t \in Threads : pc[t] # "failed"

\* With enough memory nobody waits in vain, in the first use: g_is_init is set,
\* or there is a thread in initialize that will set it, even if users have come
\* and gone meanwhile.
WaitersAreServed ==
  ~ scenario.allocFails /\ scenario.restart = "never"
    => \A t \in Threads :
         pc[t] = "waiting" => ready \/ \E u \in Threads : pc[u] = "initializing"

\* With enough memory, and a loop that reads g_is_init, every call of see_init
\* in the first use of the library returns.
InitReturns ==
  \A t \in Threads :
    /\ pc[t] \in {"initializing", "waiting"}
    /\ ~ scenario.allocFails /\ scenario.rereads /\ scenario.restart = "never"
    ~> pc[t] \in {"using", "failed"}
=============================================================================
