------------------------------- MODULE Startup -------------------------------
(***************************************************************************)
(* The three ways in which classes come into being and are put to use:     *)
(* see_init, which makes all of them (SeeInit); the two error classes that *)
(* any function may make when it needs them (ErrorInit); and what a class, *)
(* once made, does for its instances (ClassTables).                        *)
(*                                                                         *)
(* SeeInit and ErrorInit follow the threads, with a class as a name that   *)
(* is there or not.  ClassTables follows what new_cls does in one of their *)
(* steps.  A behaviour is one of the three parts.                          *)
(***************************************************************************)
EXTENDS ClassTables, FiniteSets

CONSTANTS Threads, Scenarios,      \* those of SeeInit
          Callers, ErrorScenarios  \* and of ErrorInit

VARIABLES part,  \* "library", "errors" or "tables"; never changes
          count, ready, classes, device, pc, step, scenario,
          made, creations, initializing, frames, returned, errorScenario

libraryVars == <<count, ready, classes, device, pc, step, scenario>>
errorVars == <<made, creations, initializing, frames, returned, errorScenario>>
allVars == <<part, vars, libraryVars, errorVars>>

Lib == INSTANCE SeeInit

Errors == INSTANCE ErrorInit WITH
            Threads <- Callers, Scenarios <- ErrorScenarios,
            scenario <- errorScenario

ASSUME ThreadsAssumption == Threads # {} /\ Callers # {}

ASSUME ScenariosAssumption ==
  Scenarios \subseteq Lib!ScenarioType /\ ErrorScenarios \subseteq Errors!ScenarioType

\* The classes are the ones see_init makes, with the same parents.
ASSUME OrdersAssumption ==
  /\ Orders = {Lib!InitOrder("posix"), Lib!InitOrder("windows")}
  /\ \A c \in Lib!AllClasses : Lib!Parent(c) = Declared[c].parent

ASSUME PointersAssumption ==
  ObjPointers \cap ErrPointers = {} /\ NULL \notin Classes

\* What a part chooses at first does not matter to the others.
StartupInit ==
  /\ part \in {"library", "errors", "tables"}
  /\ Init /\ Lib!Init /\ Errors!Init
  /\ part = "library" \/ scenario = CHOOSE s \in Scenarios : TRUE
  /\ part = "errors" \/ errorScenario = CHOOSE s \in ErrorScenarios : TRUE
  /\ part = "tables" \/ order = CHOOSE o \in Orders : TRUE

StartupNext ==
  /\ UNCHANGED part
  /\ \/ part = "library" /\ Lib!Next /\ UNCHANGED <<vars, errorVars>>
     \/ part = "errors" /\ Errors!Next /\ UNCHANGED <<vars, libraryVars>>
     \/ part = "tables" /\ Next /\ UNCHANGED <<libraryVars, errorVars>>

\* The steps of thread t inside see_init and see_deinit, and those of caller t
\* inside see_error_init and see_copy_error_init.
LibraryStep(t) ==
  part = "library" /\ Lib!Library(t) /\ UNCHANGED <<part, vars, errorVars>>
ErrorsStep(t) ==
  part = "errors" /\ Errors!Library(t) /\ UNCHANGED <<part, vars, libraryVars>>

\* A thread inside the library is scheduled.
StartupSpec ==
  /\ StartupInit
  /\ [][StartupNext]_allVars
  /\ \A t \in Threads : WF_allVars(LibraryStep(t))
  /\ \A t \in Callers : WF_allVars(ErrorsStep(t))

-----------------------------------------------------------------------------
(* The properties of SeeInit and ErrorInit, by the names they have there.   *)

\* A thread to which see_init has returned success finds all classes there.
UsersSeeAllClasses == Lib!UsersSeeAllClasses

\* No two threads build, or tear down, at the same time.
OneBuilder == Lib!OneBuilder

\* After the last see_deinit no class is left that deinit destroys.
ClassesFreed == Lib!ClassesFreed

\* With enough memory the first use of the library does not meet an error.
FirstUseSucceeds == Lib!FirstUseSucceeds

\* Nor does a later one.
EveryUseSucceeds == Lib!EveryUseSucceeds

\* With enough memory nobody waits for a g_is_init that no thread will set.
WaitersAreServed == Lib!WaitersAreServed

\* With enough memory every call of see_init in the first use returns.
InitReturns == Lib!InitReturns

\* see_error_init and see_copy_error_init make a class once.
MadeOnce == Errors!MadeOnce

\* Success of the two means that the class is there, as long as calloc works.
SuccessMeansReady == Errors!SuccessMeansReady

\* Their counters are the number of calls under way.
CounterExact == Errors!CounterExact

\* No caller of the two waits while all others do.
NoneBlockedForEver == Errors!NoneBlockedForEver

\* Their calls return.
Returns == Errors!Returns
=============================================================================
