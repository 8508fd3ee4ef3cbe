---------------------------- MODULE StartupProofs ----------------------------
(***************************************************************************)
(* Proofs about Startup, for any number of threads and any scenarios.  Each *)
(* step of it is a step of one part, SeeInit or ErrorInit, that leaves the  *)
(* variables of the other parts alone.                                      *)
(*                                                                          *)
(* Of SeeInit the theorems assume (Orderly) that nobody calls see_init      *)
(* while the last see_deinit is under way; without it the properties are    *)
(* false.  Its inductive invariant LibraryInv says that g_init_count is the *)
(* number of threads inside the library, so that the one that counts 1 or 0 *)
(* is alone; and how far the classes of the thread that builds, or tears    *)
(* down, have come.                                                         *)
(*                                                                          *)
(* In ErrorInit a thread has at most two calls of the initialisers under    *)
(* way, one in the other.  slot looks at them by their places in the        *)
(* threads: almost every step changes the slot of one call.  The inductive  *)
(* invariant ErrorsInv says that the counter of a class is the number of    *)
(* its busy calls, so that the call that counts 1 is the only one that      *)
(* makes the class; and that whoever waits, waits for a call that makes the *)
(* class, or the class is there.                                            *)
(*                                                                          *)
(* Of ClassTables there are first the facts about the declared classes that *)
(* hold one by one: what each sets, takes and releases.  A chain has at     *)
(* most three classes, so that the methods found along it follow from those *)
(* of a class and its parent.  The inductive invariant TablesInv says that  *)
(* the table of a class holds in each slot the method of the nearest class  *)
(* that sets it, and that an object has come as far along its chain as its  *)
(* initialisers have run, and holds only what a class of the chain takes.   *)
(***************************************************************************)
EXTENDS Startup, FiniteSetTheorems, SequenceTheorems, TLAPS

-----------------------------------------------------------------------------
(* see_init and see_deinit *)

\* What the theorems assume of the scenarios.
Orderly == \A s \in Scenarios : s.restart # "any_time"

Builds == {"posix", "windows"}

\* Between the increment of see_init and the decrement of see_deinit.
InsideLabels == {"initializing", "waiting", "hung", "using", "failed"}
Inside == {t \in Threads : pc[t] \in InsideLabels}

NobodyLeaves == \A t \in Threads : pc[t] # "deinitializing"

CountOfInside == IsFiniteSet(Inside) /\ count = Cardinality(Inside)

\* Nobody is inside while the classes are destroyed.
LastLeaves == \A t \in Threads : pc[t] = "deinitializing" => Inside = {}

\* g_is_init is set while the classes are complete.
ReadyMeansBuilt ==
  /\ \A t \in Threads : pc[t] = "using" => ready
  /\ \A t \in Threads : pc[t] = "initializing" => ~ ready
  /\ ready /\ Inside = {} => ~ NobodyLeaves
  /\ ready /\ Inside # {} => classes = Lib!Classes(scenario.build)

\* The classes that initialize, or deinit, has dealt with so far.
BuiltSoFar ==
  \A t \in Threads : pc[t] = "initializing" =>
    /\ step[t] \in 1 .. Len(Lib!InitOrder(scenario.build)) + 1
    /\ \A i \in 1 .. step[t] - 1 : Lib!InitOrder(scenario.build)[i] \in classes

FreedSoFar ==
  \A t \in Threads : pc[t] = "deinitializing" =>
    /\ step[t] \in 1 .. Len(Lib!DeinitOrder(scenario.build)) + 1
    /\ \A i \in 1 .. step[t] - 1 : Lib!DeinitOrder(scenario.build)[i] \notin classes

NothingLeft ==
  Inside = {} /\ NobodyLeaves =>
    \A i \in DOMAIN Lib!DeinitOrder(scenario.build) :
      Lib!DeinitOrder(scenario.build)[i] \notin classes

\* The classes there are before step k of the first use: CopyError, the third,
\* brings Error along.
Before(b, k) ==
  {Lib!InitOrder(b)[i] : i \in 1 .. k - 1} \cup (IF k > 3 THEN {"Error"} ELSE {})

RandomStep == 14

\* With enough memory, and one period of use.
OnlyUse ==
  ~ scenario.allocFails /\ scenario.restart = "never" =>
    /\ \A t \in Threads : pc[t] # "failed"
    /\ \A t \in Threads : pc[t] = "initializing" =>
         /\ classes = Before(scenario.build, step[t])
         /\ device = IF step[t] > RandomStep THEN "live" ELSE "null"
    /\ device = "null" /\ (\A t \in Threads : pc[t] # "initializing")
         => classes = {}

\* With enough memory, in the first use, someone inside means that g_is_init is
\* set, or will be.
SomebodyBuilds ==
  ~ scenario.allocFails /\ scenario.restart = "never" /\ Inside # {}
    => ready \/ \E t \in Threads : pc[t] = "initializing"

LibraryInv ==
  /\ Lib!TypeOK
  /\ CountOfInside
  /\ Lib!OneBuilder
  /\ LastLeaves
  /\ ReadyMeansBuilt
  /\ BuiltSoFar
  /\ FreedSoFar
  /\ NothingLeft
  /\ OnlyUse

-----------------------------------------------------------------------------
(* Lemmas about the orders of the calls *)

\* Where each class is in the order of initialize.
OrderPlaces ==
  {<<"Meta", 1>>, <<"Clock", 2>>, <<"CopyError", 3>>, <<"Duration", 4>>,
   <<"DynamicArray", 5>>, <<"Error", 6>>, <<"IncomparableError", 7>>,
   <<"IndexError", 8>>, <<"MsgBuffer", 9>>, <<"MsgInvalidError", 10>>,
   <<"MsgPart", 11>>, <<"MsgPartTypeError", 12>>, <<"OverflowError", 13>>,
   <<"Random", 14>>, <<"RuntimeError", 15>>, <<"Serial", 16>>,
   <<"PosixSerial", 17>>, <<"WindowsSerial", 17>>, <<"Stack", 18>>,
   <<"TimeoutError", 19>>, <<"TimePoint", 20>>, <<"WindowsRuntimeError", 21>>}

\* Every class has a place in the order of initialisation.
LEMMA PlaceOf ==
  ASSUME NEW b \in Builds, NEW k \in DOMAIN Lib!InitOrder(b)
  PROVE  <<Lib!InitOrder(b)[k], k>> \in OrderPlaces
BY SMTT(30) DEF Builds, Lib!InitOrder, Lib!Device, OrderPlaces

\* It has one place.
LEMMA PlaceIsUnique ==
  ASSUME NEW c, NEW i, NEW j, <<c, i>> \in OrderPlaces, <<c, j>> \in OrderPlaces
  PROVE  i = j
BY DEF OrderPlaces

\* There are 20 or 21 initialisers.
LEMMA InitOrderType ==
  ASSUME NEW b \in Builds
  PROVE  /\ Len(Lib!InitOrder(b)) \in 20 .. 21
         /\ DOMAIN Lib!InitOrder(b) = 1 .. Len(Lib!InitOrder(b))
BY DEF Builds, Lib!InitOrder, Lib!Device

\* A position in the shorter order fits the longer; the end is past RandomStep.
LEMMA StepFits ==
  ASSUME NEW n \in 20 .. 21
  PROVE  n + 1 > RandomStep /\ \A k \in 1 .. 20 : k + 1 \in 0 .. n + 1
BY DEF RandomStep

\* There are 20 classes to give up.
LEMMA DeinitOrderType ==
  ASSUME NEW b \in Builds
  PROVE  /\ Len(Lib!DeinitOrder(b)) = 20
         /\ DOMAIN Lib!DeinitOrder(b) = 1 .. Len(Lib!DeinitOrder(b))
BY DEF Builds, Lib!DeinitOrder, Lib!Device

\* deinit destroys all classes but the one that only Windows has.
LEMMA DeinitCovers ==
  ASSUME NEW b \in Builds, NEW c \in Lib!Classes(b), c # "WindowsRuntimeError"
  PROVE  \E i \in DOMAIN Lib!DeinitOrder(b) : c = Lib!DeinitOrder(b)[i]
BY DEF Builds, Lib!InitOrder, Lib!Device, Lib!Classes, Lib!DeinitOrder

\* An initialiser makes classes of the build only.
LEMMA CreatesType ==
  ASSUME NEW b \in Builds, NEW c \in Lib!Classes(b)
  PROVE  Lib!Creates(c) \subseteq Lib!Classes(b) /\ c \in Lib!Creates(c)
<1>1. Lib!InitOrder(b)[6] = "Error" /\ 6 \in DOMAIN Lib!InitOrder(b)
  BY DEF Builds, Lib!InitOrder, Lib!Device
<1>2. "Error" \in Lib!Classes(b)
  BY <1>1 DEF Lib!Classes
<1>3. QED
  BY <1>2 DEF Lib!Creates

\* In the first use, each class is new, except Error; it finds the meta class and
\* its parent; and the random device has its place.
LEMMA InitOrderWorks ==
  ASSUME NEW b \in Builds, NEW k \in DOMAIN Lib!InitOrder(b)
  PROVE  LET c == Lib!InitOrder(b)[k]
         IN  /\ c \in Before(b, k) => c = "Error"
             /\ c = "Meta" \/ "Meta" \in Before(b, k)
             /\ Lib!Parent(c) \in Before(b, k) \cup Lib!Creates(c) \cup {"Object"}
             /\ (c = "Random") = (k = RandomStep)
             /\ Before(b, k + 1) = Before(b, k) \cup Lib!Creates(c)
<1> DEFINE c == Lib!InitOrder(b)[k]
<1>1. /\ Len(Lib!InitOrder(b)) \in Nat /\ k \in Nat
      /\ DOMAIN Lib!InitOrder(b) = 1 .. Len(Lib!InitOrder(b))
  BY InitOrderType
<1>2. c \in Before(b, k) => c = "Error"
  <2>1. ASSUME NEW i \in 1 .. k - 1, c = Lib!InitOrder(b)[i] PROVE FALSE
    <3>1. i \in DOMAIN Lib!InitOrder(b)
      BY <1>1
    <3>2. <<c, i>> \in OrderPlaces /\ <<c, k>> \in OrderPlaces
      BY <2>1, <3>1, PlaceOf
    <3>3. QED
      BY <1>1, <2>1, <3>2, PlaceIsUnique
  <2>2. QED
    BY <2>1 DEF Before
<1>3. c = "Meta" \/ "Meta" \in Before(b, k)
  <2>1. Lib!InitOrder(b)[1] = "Meta"
    BY DEF Builds, Lib!InitOrder, Lib!Device
  <2>2. k # 1 => 1 \in 1 .. k - 1
    BY <1>1
  <2>3. QED
    BY <2>1, <2>2 DEF Before
<1>4. Lib!Parent(c) \in Before(b, k) \cup Lib!Creates(c) \cup {"Object"}
  <2>1. c = "CopyError" => "Error" \in Lib!Creates(c)
    BY DEF Lib!Creates
  <2>2. Lib!Parent(c) = "Error" /\ c # "CopyError" => k > 3
    BY DEF Builds, Lib!InitOrder, Lib!Device, Lib!Parent
  <2>3. k > 3 => "Error" \in Before(b, k)
    BY DEF Before
  <2>4. c \in {"PosixSerial", "WindowsSerial"} => k = 17
    BY DEF Builds, Lib!InitOrder, Lib!Device
  <2>5. k = 17 => "Serial" \in Before(b, k)
    BY DEF Builds, Lib!InitOrder, Lib!Device, Before
  <2>6. QED
    BY <2>1, <2>2, <2>3, <2>4, <2>5 DEF Lib!Parent
<1>5. (c = "Random") = (k = RandomStep)
  BY DEF Builds, Lib!InitOrder, Lib!Device, RandomStep
<1>6. Before(b, k + 1) = Before(b, k) \cup Lib!Creates(c)
  <2>1. c = "CopyError" <=> k = 3
    BY SMTT(30) DEF Builds, Lib!InitOrder, Lib!Device
  <2>2. 1 .. (k + 1) - 1 = 1 .. (k - 1) \cup {k}
    BY <1>1
  <2>3. {Lib!InitOrder(b)[i] : i \in 1 .. (k + 1) - 1} =
          {Lib!InitOrder(b)[i] : i \in 1 .. k - 1} \cup {c}
    BY <2>2
  <2>4. (k + 1 > 3) <=> (k > 3 \/ k = 3)
    BY <1>1
  <2>5. QED
    BY <2>1, <2>3, <2>4 DEF Before, Lib!Creates
<1>7. QED
  BY <1>2, <1>3, <1>4, <1>5, <1>6

-----------------------------------------------------------------------------
(* Lemmas about threads coming and going *)

\* What a step of one thread does to the set of those inside.
LEMMA InsideStep ==
  ASSUME Lib!TypeOK, CountOfInside, NEW t \in Threads, NEW l, NEW k, Lib!Goto(t, l, k)
  PROVE  /\ Inside' = IF l \in InsideLabels THEN Inside \cup {t} ELSE Inside \ {t}
         /\ IsFiniteSet(Inside')
         /\ Cardinality(Inside') =
              IF l \in InsideLabels
              THEN IF t \in Inside THEN count ELSE count + 1
              ELSE IF t \in Inside THEN count - 1 ELSE count
<1>1. pc' = [pc EXCEPT ![t] = l] /\ pc = [u \in Threads |-> pc[u]]
  BY DEF Lib!Goto, Lib!TypeOK
<1>2. CASE l \in InsideLabels
  <2>1. Inside' = Inside \cup {t}
    BY <1>1, <1>2 DEF Inside
  <2>2. QED
    BY <1>2, <2>1, FS_AddElement DEF CountOfInside
<1>3. CASE l \notin InsideLabels
  <2>1. Inside' = Inside \ {t}
    BY <1>1, <1>3 DEF Inside
  <2>2. QED
    BY <1>3, <2>1, FS_RemoveElement DEF CountOfInside
<1>4. QED
  BY <1>2, <1>3

\* The counter tells whether anybody is inside.
LEMMA CountIsZero ==
  ASSUME CountOfInside
  PROVE  count \in Nat /\ (count = 0 <=> Inside = {})
BY FS_CardinalityType, FS_EmptySet DEF CountOfInside

\* What the scenarios of orderly clients are.
LEMMA BuildType ==
  ASSUME Orderly, Lib!TypeOK
  PROVE  /\ scenario.build \in Builds /\ scenario.restart # "any_time"
         /\ scenario.restart \in {"never", "after_deinit"}
         /\ scenario.allocFails \in BOOLEAN
BY ScenariosAssumption DEF Orderly, Lib!TypeOK, Lib!ScenarioType, Builds

-----------------------------------------------------------------------------
(* The inductive invariant *)

\* The library starts with no class and nobody inside.
LEMMA LibraryInitInv == ASSUME Orderly PROVE Lib!Init => LibraryInv
<1> SUFFICES ASSUME Lib!Init PROVE LibraryInv
  OBVIOUS
<1>1. scenario \in Scenarios /\ scenario.build \in Builds
  BY ScenariosAssumption DEF Lib!Init, Orderly, Lib!ScenarioType, Builds
<1>2. Lib!TypeOK
  <2>1. 0 \in 0 .. Len(Lib!InitOrder(scenario.build)) + 1
    BY <1>1, InitOrderType
  <2>2. QED
    BY <1>1, <2>1 DEF Lib!Init, Lib!TypeOK
<1>3. Inside = {}
  BY DEF Lib!Init, Inside, InsideLabels
<1>4. CountOfInside
  BY <1>3, FS_EmptySet DEF Lib!Init, CountOfInside
<1>5. Lib!OneBuilder /\ LastLeaves
  BY DEF Lib!Init, Lib!OneBuilder, LastLeaves
<1>6. ReadyMeansBuilt /\ BuiltSoFar /\ FreedSoFar
  BY DEF Lib!Init, ReadyMeansBuilt, BuiltSoFar, FreedSoFar
<1>7. NothingLeft /\ OnlyUse
  BY DEF Lib!Init, NothingLeft, OnlyUse
<1>8. QED
  BY <1>2, <1>4, <1>5, <1>6, <1>7 DEF LibraryInv

\* A caller of see_init counts itself in: the first begins with the classes, and
\* is alone.
LEMMA SeeInitInv ==
  ASSUME Orderly, LibraryInv, NEW t \in Threads, Lib!SeeInit(t)
  PROVE  LibraryInv'
<1> USE DEF LibraryInv
<1> DEFINE b == scenario.build
<1>1. /\ pc[t] = "out"
      /\ count' = count + 1
      /\ UNCHANGED <<ready, classes, device, scenario>>
  BY DEF Lib!SeeInit
<1>2. b \in Builds /\ Len(Lib!InitOrder(b)) \in 20 .. 21 /\ Len(Lib!DeinitOrder(b)) = 20
  BY BuildType, InitOrderType, DeinitOrderType
<1>3. count \in Nat /\ (count = 0 <=> Inside = {})
  BY CountIsZero
<1>4. t \notin Inside
  BY <1>1 DEF Inside, InsideLabels
<1>5. CASE count = 0
  <2>1. Lib!Goto(t, "initializing", 1)
    BY <1>1, <1>5 DEF Lib!SeeInit
  <2>2. NobodyLeaves
    BY <1>5, BuildType DEF Lib!SeeInit, Lib!MayStart, NobodyLeaves
  <2>3. pc' = [pc EXCEPT ![t] = "initializing"] /\ step' = [step EXCEPT ![t] = 1]
    BY <2>1 DEF Lib!Goto
  <2>4. Inside = {} /\ ~ ready
    BY <1>3, <1>5, <2>2 DEF ReadyMeansBuilt
  <2>5. \A u \in Threads : pc[u] \notin {"initializing", "deinitializing", "using"}
    BY <2>2, <2>4 DEF Inside, InsideLabels, NobodyLeaves
  <2>6. Lib!TypeOK'
    BY <1>1, <1>2, <1>3, <2>3 DEF Lib!TypeOK
  <2>7. t \in Inside' /\ CountOfInside'
    BY <1>1, <1>4, <2>1, InsideStep DEF CountOfInside, InsideLabels
  <2>8. Lib!OneBuilder' /\ LastLeaves' /\ FreedSoFar'
    BY <2>3, <2>5 DEF Lib!OneBuilder, LastLeaves, FreedSoFar, Lib!TypeOK
  <2>9. ReadyMeansBuilt' /\ NothingLeft'
    BY <1>1, <2>3, <2>4, <2>5, <2>7 DEF ReadyMeansBuilt, NothingLeft, Lib!TypeOK
  <2>10. BuiltSoFar'
    BY <1>1, <1>2, <2>3, <2>5 DEF BuiltSoFar, Lib!TypeOK
  <2>11. OnlyUse'
    <3>1. SUFFICES ASSUME ~ scenario.allocFails, scenario.restart = "never"
                   PROVE  OnlyUse'
      BY <1>1 DEF OnlyUse
    <3>2. device = "null" /\ classes = {}
      BY <1>5, <2>5, <3>1 DEF Lib!SeeInit, Lib!MayStart, OnlyUse
    <3>3. Before(b, 1) = {}
      BY DEF Before
    <3>4. QED
      BY <1>1, <2>3, <2>5, <3>1, <3>2, <3>3 DEF OnlyUse, Lib!TypeOK, RandomStep
  <2>12. QED
    BY <2>6, <2>7, <2>8, <2>9, <2>10, <2>11
<1>6. CASE count # 0
  <2>1. Lib!Goto(t, "waiting", 0)
    BY <1>1, <1>3, <1>6 DEF Lib!SeeInit
  <2>2. pc' = [pc EXCEPT ![t] = "waiting"] /\ step' = [step EXCEPT ![t] = 0]
    BY <2>1 DEF Lib!Goto
  <2>3. Inside # {} /\ NobodyLeaves
    BY <1>3, <1>6 DEF LastLeaves, NobodyLeaves
  <2>4. Lib!TypeOK'
    BY <1>1, <1>2, <1>3, <2>2 DEF Lib!TypeOK
  <2>5. t \in Inside' /\ CountOfInside'
    BY <1>1, <1>4, <2>1, InsideStep DEF CountOfInside, InsideLabels
  <2>6. Lib!OneBuilder' /\ LastLeaves' /\ FreedSoFar' /\ BuiltSoFar'
    BY <1>1, <2>2, <2>3
    DEF Lib!OneBuilder, LastLeaves, FreedSoFar, BuiltSoFar, NobodyLeaves, Lib!TypeOK
  <2>7. ReadyMeansBuilt' /\ NothingLeft'
    BY <1>1, <2>2, <2>3, <2>5 DEF ReadyMeansBuilt, NothingLeft, Lib!TypeOK
  <2>8. OnlyUse'
    BY <1>1, <2>2 DEF OnlyUse, Lib!TypeOK
  <2>9. QED
    BY <2>4, <2>5, <2>6, <2>7, <2>8
<1>7. QED
  BY <1>5, <1>6

\* The waiting loop ends, or goes on without a look at g_is_init.
LEMMA LibraryWaitInv ==
  ASSUME Orderly, LibraryInv, NEW t \in Threads, Lib!WaitEnds(t) \/ Lib!WaitHangs(t)
  PROVE  LibraryInv'
<1> USE DEF LibraryInv
<1>1. PICK l \in {"using", "hung"} :
        /\ Lib!Goto(t, l, 0) /\ pc[t] = "waiting" /\ (l = "using" => ready)
        /\ UNCHANGED <<count, ready, classes, device, scenario>>
  BY DEF Lib!WaitEnds, Lib!WaitHangs
<1>2. pc' = [pc EXCEPT ![t] = l] /\ step' = [step EXCEPT ![t] = 0]
  BY <1>1 DEF Lib!Goto
<1>3. t \in Inside /\ NobodyLeaves
  BY <1>1 DEF Inside, InsideLabels, LastLeaves, NobodyLeaves
<1>4. Inside' = Inside /\ CountOfInside'
  BY <1>1, <1>3, InsideStep DEF CountOfInside, InsideLabels
<1>5. Lib!TypeOK'
  <2>1. 0 \in 0 .. Len(Lib!InitOrder(scenario.build)) + 1
    BY BuildType, InitOrderType
  <2>2. QED
    BY <1>1, <1>2, <2>1 DEF Lib!TypeOK
<1>6. Lib!OneBuilder' /\ LastLeaves' /\ FreedSoFar' /\ BuiltSoFar'
  BY <1>1, <1>2, <1>3
  DEF Lib!OneBuilder, LastLeaves, FreedSoFar, BuiltSoFar, NobodyLeaves, Lib!TypeOK
<1>7. ReadyMeansBuilt' /\ NothingLeft'
  BY <1>1, <1>2, <1>3, <1>4 DEF ReadyMeansBuilt, NothingLeft, Lib!TypeOK
<1>8. OnlyUse'
  BY <1>1, <1>2 DEF OnlyUse, Lib!TypeOK
<1>9. QED
  BY <1>4, <1>5, <1>6, <1>7, <1>8

\* The one that builds goes on to the next class, which adds to the classes, or
\* gives up.
LEMMA BuildStepInv ==
  ASSUME Orderly, LibraryInv, NEW t \in Threads, pc[t] = "initializing",
         step[t] \in DOMAIN Lib!InitOrder(scenario.build),
         classes \subseteq classes', classes' \subseteq Lib!Classes(scenario.build),
         device' \in {"null", "live", "freed"},
         UNCHANGED <<count, ready, scenario>>,
         \/ Lib!Fail(t)
         \/ Lib!Proceed(t) /\ Lib!InitOrder(scenario.build)[step[t]] \in classes',
         OnlyUse'
  PROVE  LibraryInv'
<1> USE DEF LibraryInv
<1> DEFINE b == scenario.build
<1>1. PICK l \in {"initializing", "failed"}, k \in {0, step[t] + 1} :
        /\ Lib!Goto(t, l, k)
        /\ l = "failed" => k = 0
        /\ l = "initializing" => k = step[t] + 1 /\ Lib!InitOrder(b)[step[t]] \in classes'
  BY DEF Lib!Fail, Lib!Proceed
<1>2. pc' = [pc EXCEPT ![t] = l] /\ step' = [step EXCEPT ![t] = k]
  BY <1>1 DEF Lib!Goto
<1>3. t \in Inside /\ NobodyLeaves /\ ~ ready
  BY DEF Inside, InsideLabels, LastLeaves, NobodyLeaves, ReadyMeansBuilt
<1>4. Inside' = Inside /\ CountOfInside'
  BY <1>1, <1>3, InsideStep DEF CountOfInside, InsideLabels
<1>5. /\ DOMAIN Lib!InitOrder(b) = 1 .. Len(Lib!InitOrder(b))
      /\ Len(Lib!InitOrder(b)) \in Nat /\ step[t] \in Nat
  BY BuildType, InitOrderType
<1>6. Lib!TypeOK'
  <2>1. k \in 0 .. Len(Lib!InitOrder(b)) + 1
    BY <1>1, <1>5
  <2>2. QED
    BY <1>1, <1>2, <2>1 DEF Lib!TypeOK
<1>7. Lib!OneBuilder' /\ LastLeaves' /\ FreedSoFar'
  BY <1>1, <1>2, <1>3
  DEF Lib!OneBuilder, LastLeaves, FreedSoFar, NobodyLeaves, Lib!TypeOK
<1>8. BuiltSoFar'
  <2>1. SUFFICES ASSUME NEW u \in Threads, pc'[u] = "initializing"
                 PROVE  /\ step'[u] \in 1 .. Len(Lib!InitOrder(b)) + 1
                        /\ \A i \in 1 .. step'[u] - 1 : Lib!InitOrder(b)[i] \in classes'
    BY DEF BuiltSoFar
  <2>2. u = t
    BY <1>2, <2>1 DEF Lib!OneBuilder, Lib!TypeOK
  <2>3. l = "initializing" /\ step'[u] = step[t] + 1
    BY <1>1, <1>2, <2>1, <2>2 DEF Lib!TypeOK
  <2>4. \A i \in 1 .. step[t] - 1 : Lib!InitOrder(b)[i] \in classes'
    BY DEF BuiltSoFar
  <2>5. QED
    BY <1>1, <1>5, <2>3, <2>4
<1>9. ReadyMeansBuilt' /\ NothingLeft'
  BY <1>1, <1>2, <1>3, <1>4 DEF ReadyMeansBuilt, NothingLeft, Lib!TypeOK
<1>10. QED
  BY <1>4, <1>6, <1>7, <1>8, <1>9

\* In the only use of the library, every class but Error is new, and its parent
\* is there.
LEMMA OnlyUseWorks ==
  ASSUME Orderly, LibraryInv, NEW t \in Threads, NEW c, Lib!AtClass(t, c),
         ~ scenario.allocFails, scenario.restart = "never"
  PROVE  /\ c \in classes => c = "Error"
         /\ Lib!Creatable(c)
         /\ (c = "Random") = (step[t] = RandomStep)
         /\ device = "null" \/ step[t] > RandomStep
         /\ Before(scenario.build, step[t] + 1) = classes \cup Lib!Creates(c)
<1> DEFINE b == scenario.build
           k == step[t]
<1>1. /\ c = Lib!InitOrder(b)[k] /\ k \in DOMAIN Lib!InitOrder(b) /\ b \in Builds
      /\ classes = Before(b, k)
      /\ device = IF k > RandomStep THEN "live" ELSE "null"
  BY BuildType DEF Lib!AtClass, LibraryInv, OnlyUse
<1>2. /\ c \in Before(b, k) => c = "Error"
      /\ c = "Meta" \/ "Meta" \in Before(b, k)
      /\ Lib!Parent(c) \in Before(b, k) \cup Lib!Creates(c) \cup {"Object"}
      /\ (c = "Random") = (k = RandomStep)
      /\ Before(b, k + 1) = Before(b, k) \cup Lib!Creates(c)
  BY <1>1, InitOrderWorks
<1>3. QED
  BY <1>1, <1>2 DEF Lib!Creatable

\* The initialisation of a class other than that of random generators.
LEMMA InitClassInv ==
  ASSUME Orderly, LibraryInv, NEW t \in Threads, NEW c,
         Lib!InitClass(t, c) \/ Lib!InitClassFails(t, c) \/ Lib!InitClassPresent(t, c)
  PROVE  LibraryInv'
<1> DEFINE b == scenario.build
<1>1. /\ Lib!AtClass(t, c) /\ c # "Random"
      /\ pc[t] = "initializing" /\ step[t] \in DOMAIN Lib!InitOrder(b)
      /\ c = Lib!InitOrder(b)[step[t]] /\ b \in Builds
      /\ UNCHANGED <<count, ready, device, scenario>>
  BY BuildType
  DEF LibraryInv, Lib!InitClass, Lib!InitClassFails, Lib!InitClassPresent, Lib!AtClass
<1>2. c \in Lib!Classes(b) /\ Lib!Creates(c) \subseteq Lib!Classes(b) /\ c \in Lib!Creates(c)
  BY <1>1, CreatesType DEF Lib!Classes
<1>3. classes \subseteq classes' /\ classes' \subseteq Lib!Classes(b)
  BY <1>2 DEF LibraryInv, Lib!TypeOK, Lib!InitClass, Lib!InitClassFails, Lib!InitClassPresent
<1>4. \/ Lib!Fail(t)
      \/ Lib!Proceed(t) /\ c \in classes'
  BY <1>2 DEF Lib!InitClass, Lib!InitClassFails, Lib!InitClassPresent
<1>5. OnlyUse'
  <2>1. SUFFICES ASSUME ~ scenario.allocFails, scenario.restart = "never"
                 PROVE  OnlyUse'
    BY <1>1 DEF OnlyUse
  <2>2. /\ c \in classes => c = "Error"
        /\ Lib!Creatable(c) /\ step[t] # RandomStep
        /\ Before(b, step[t] + 1) = classes \cup Lib!Creates(c)
    BY <1>1, <2>1, OnlyUseWorks
  <2>3. Lib!Proceed(t) /\ classes' = classes \cup Lib!Creates(c)
    <3>1. CASE Lib!InitClass(t, c)
      BY <3>1 DEF Lib!InitClass
    <3>2. CASE Lib!InitClassPresent(t, c)
      BY <2>2, <3>2 DEF Lib!InitClassPresent, Lib!Guarded, Lib!Creates
    <3>3. CASE Lib!InitClassFails(t, c)
      BY <2>1, <2>2, <3>3 DEF Lib!InitClassFails
    <3>4. QED
      BY <3>1, <3>2, <3>3
  <2>4. /\ pc' = [pc EXCEPT ![t] = "initializing"]
        /\ step' = [step EXCEPT ![t] = step[t] + 1]
    BY <2>3 DEF Lib!Proceed, Lib!Goto
  <2>5. pc' = pc
    BY <1>1, <2>4 DEF LibraryInv, Lib!TypeOK
  <2>6. /\ \A u \in Threads : pc'[u] = "initializing" => u = t
        /\ step[t] \in Nat
        /\ device = IF step[t] > RandomStep THEN "live" ELSE "null"
        /\ \A u \in Threads : pc[u] # "failed"
    BY <1>1, <2>1, <2>5, InitOrderType DEF LibraryInv, Lib!OneBuilder, OnlyUse
  <2>7. device' = IF step[t] + 1 > RandomStep THEN "live" ELSE "null"
    BY <1>1, <2>2, <2>6 DEF RandomStep
  <2>8. QED
    BY <1>1, <2>2, <2>3, <2>4, <2>5, <2>6, <2>7 DEF OnlyUse, LibraryInv, Lib!TypeOK
<1>6. device' \in {"null", "live", "freed"}
  BY <1>1 DEF LibraryInv, Lib!TypeOK
<1>7. QED
  BY <1>1, <1>3, <1>4, <1>5, <1>6, BuildStepInv

\* see_random_init.
LEMMA InitRandomInv ==
  ASSUME Orderly, LibraryInv, NEW t \in Threads,
         Lib!InitRandom(t) \/ Lib!InitRandomFails(t) \/ Lib!InitRandomAgain(t)
  PROVE  LibraryInv'
<1> DEFINE b == scenario.build
           c == "Random"
<1>1. /\ Lib!AtClass(t, c)
      /\ pc[t] = "initializing" /\ step[t] \in DOMAIN Lib!InitOrder(b)
      /\ c = Lib!InitOrder(b)[step[t]] /\ b \in Builds
      /\ UNCHANGED <<count, ready, scenario>>
  BY BuildType
  DEF LibraryInv, Lib!InitRandom, Lib!InitRandomFails, Lib!InitRandomAgain, Lib!AtClass
<1>2. c \in Lib!Classes(b)
  BY <1>1 DEF Lib!Classes
<1>3. classes' \in {classes, classes \cup {c}}
  BY DEF Lib!InitRandom, Lib!InitRandomFails, Lib!InitRandomAgain
<1>4. classes \subseteq classes' /\ classes' \subseteq Lib!Classes(b)
  BY <1>2, <1>3 DEF LibraryInv, Lib!TypeOK
<1>5. \/ Lib!Fail(t)
      \/ Lib!Proceed(t) /\ c \in classes'
  BY DEF Lib!InitRandom, Lib!InitRandomFails, Lib!InitRandomAgain
<1>6. device' \in {"null", "live", "freed"}
  BY DEF LibraryInv, Lib!TypeOK, Lib!InitRandom, Lib!InitRandomFails, Lib!InitRandomAgain
<1>7. OnlyUse'
  <2>1. SUFFICES ASSUME ~ scenario.allocFails, scenario.restart = "never"
                 PROVE  OnlyUse'
    BY <1>1 DEF OnlyUse
  <2>2. /\ Lib!Creatable(c) /\ step[t] = RandomStep /\ device = "null"
        /\ Before(b, step[t] + 1) = classes \cup {c}
    BY <1>1, <2>1, OnlyUseWorks DEF Lib!Creates, RandomStep
  <2>3. Lib!InitRandom(t)
    BY <2>1, <2>2 DEF Lib!InitRandomFails, Lib!InitRandomAgain
  <2>4. /\ pc' = [pc EXCEPT ![t] = "initializing"]
        /\ step' = [step EXCEPT ![t] = step[t] + 1]
        /\ classes' = classes \cup {c} /\ device' = "live"
    BY <2>3 DEF Lib!InitRandom, Lib!Proceed, Lib!Goto
  <2>5. pc' = pc
    BY <1>1, <2>4 DEF LibraryInv, Lib!TypeOK
  <2>6. /\ \A u \in Threads : pc'[u] = "initializing" => u = t
        /\ \A u \in Threads : pc[u] # "failed"
    BY <1>1, <2>1, <2>5 DEF LibraryInv, Lib!OneBuilder, OnlyUse
  <2>7. step[t] + 1 > RandomStep
    BY <2>2 DEF RandomStep
  <2>8. QED
    BY <1>1, <2>2, <2>4, <2>5, <2>6, <2>7 DEF OnlyUse, LibraryInv, Lib!TypeOK
<1>8. QED
  BY <1>1, <1>4, <1>5, <1>6, <1>7, BuildStepInv

\* initialize has come through: all classes are there.
LEMMA InitDoneInv ==
  ASSUME Orderly, LibraryInv, NEW t \in Threads, Lib!InitDone(t)
  PROVE  LibraryInv'
<1> USE DEF LibraryInv
<1> DEFINE b == scenario.build
<1>1. /\ pc[t] = "initializing" /\ step[t] = Len(Lib!InitOrder(b)) + 1
      /\ ready' = TRUE
      /\ UNCHANGED <<count, classes, device, scenario>>
      /\ pc' = [pc EXCEPT ![t] = "using"] /\ step' = [step EXCEPT ![t] = 0]
  BY DEF Lib!InitDone, Lib!Goto
<1>2. t \in Inside /\ NobodyLeaves
  BY <1>1 DEF Inside, InsideLabels, LastLeaves, NobodyLeaves
<1>3. Inside' = Inside /\ CountOfInside'
  <2>1. Lib!Goto(t, "using", 0)
    BY DEF Lib!InitDone
  <2>2. QED
    BY <1>1, <1>2, <2>1, InsideStep DEF CountOfInside, InsideLabels
<1>4. /\ DOMAIN Lib!InitOrder(b) = 1 .. Len(Lib!InitOrder(b)) /\ Len(Lib!InitOrder(b)) \in Nat
  BY BuildType, InitOrderType
<1>5. Lib!TypeOK'
  <2>1. 0 \in 0 .. Len(Lib!InitOrder(b)) + 1
    BY <1>4
  <2>2. QED
    BY <1>1, <2>1 DEF Lib!TypeOK
<1>6. classes = Lib!Classes(b)
  <2>1. \A i \in 1 .. (Len(Lib!InitOrder(b)) + 1) - 1 : Lib!InitOrder(b)[i] \in classes
    BY <1>1 DEF BuiltSoFar
  <2>2. \A i \in DOMAIN Lib!InitOrder(b) : Lib!InitOrder(b)[i] \in classes
    BY <1>4, <2>1
  <2>3. QED
    BY <2>2 DEF Lib!Classes, Lib!TypeOK
<1>7. Lib!OneBuilder' /\ LastLeaves' /\ FreedSoFar' /\ BuiltSoFar'
  BY <1>1, <1>2, <1>3
  DEF Lib!OneBuilder, LastLeaves, FreedSoFar, BuiltSoFar, NobodyLeaves, Lib!TypeOK
<1>8. ReadyMeansBuilt'
  <2>1. \A u \in Threads : pc'[u] # "initializing"
    BY <1>1 DEF Lib!OneBuilder, Lib!TypeOK
  <2>2. QED
    BY <1>1, <1>2, <1>3, <1>6, <2>1 DEF ReadyMeansBuilt
<1>9. NothingLeft'
  BY <1>2, <1>3 DEF NothingLeft
<1>10. OnlyUse'
  <2>1. SUFFICES ASSUME ~ scenario.allocFails, scenario.restart = "never"
                 PROVE  OnlyUse'
    BY <1>1 DEF OnlyUse
  <2>2. step[t] > RandomStep
    <3>1. Len(Lib!InitOrder(b)) \in 20 .. 21
      BY BuildType, InitOrderType
    <3>2. step[t] = Len(Lib!InitOrder(b)) + 1
      BY <1>1
    <3>3. QED
      BY <3>1, <3>2, StepFits
  <2>3. device # "null"
    BY <1>1, <2>1, <2>2 DEF OnlyUse
  <2>4. QED
    BY <1>1, <2>1, <2>3 DEF OnlyUse, Lib!OneBuilder, Lib!TypeOK
<1>11. QED
  BY <1>3, <1>5, <1>7, <1>8, <1>9, <1>10

\* A caller of see_deinit counts itself out: the last one is alone.
LEMMA SeeDeinitInv ==
  ASSUME Orderly, LibraryInv, NEW t \in Threads, Lib!SeeDeinit(t)
  PROVE  LibraryInv'
<1> USE DEF LibraryInv
<1> DEFINE b == scenario.build
<1>1. /\ pc[t] \in {"using", "failed"} /\ count' = count - 1
      /\ UNCHANGED <<ready, classes, device, scenario>>
  BY DEF Lib!SeeDeinit
<1>2. t \in Inside /\ NobodyLeaves
  BY <1>1 DEF Inside, InsideLabels, LastLeaves, NobodyLeaves
<1>3. count \in Nat /\ count # 0
  BY <1>2, CountIsZero
<1>4. PICK l \in {"deinitializing", "out"}, k \in {0, 1} :
        /\ Lib!Goto(t, l, k)
        /\ IF count' = 0 THEN l = "deinitializing" /\ k = 1 ELSE l = "out" /\ k = 0
  BY DEF Lib!SeeDeinit
<1>5. pc' = [pc EXCEPT ![t] = l] /\ step' = [step EXCEPT ![t] = k]
  BY <1>4 DEF Lib!Goto
<1>6. /\ Inside' = Inside \ {t} /\ CountOfInside'
      /\ count' = 0 <=> Inside' = {}
  <2>1. /\ Inside' = Inside \ {t} /\ IsFiniteSet(Inside')
        /\ Cardinality(Inside') = count - 1
    BY <1>2, <1>4, InsideStep DEF InsideLabels
  <2>2. Cardinality(Inside') = 0 <=> Inside' = {}
    BY <2>1, FS_EmptySet
  <2>3. QED
    BY <1>1, <2>1, <2>2 DEF CountOfInside
<1>7. Lib!TypeOK'
  <2>1. k \in 0 .. Len(Lib!InitOrder(b)) + 1
    BY BuildType, InitOrderType
  <2>2. QED
    BY <1>1, <1>3, <1>5, <2>1 DEF Lib!TypeOK
<1>8. \A u \in Threads : u # t =>
        /\ pc'[u] = pc[u] /\ step'[u] = step[u]
        /\ pc[u] # "deinitializing"
        /\ count' = 0 => pc[u] # "initializing"
  BY <1>2, <1>5, <1>6 DEF NobodyLeaves, Inside, InsideLabels, Lib!TypeOK
<1>9. pc'[t] = l /\ step'[t] = k
  BY <1>5 DEF Lib!TypeOK
<1>10. Lib!OneBuilder'
  BY <1>4, <1>8, <1>9 DEF Lib!OneBuilder
<1>11. LastLeaves'
  BY <1>4, <1>6, <1>8, <1>9 DEF LastLeaves
<1>12. ReadyMeansBuilt'
  BY <1>1, <1>2, <1>4, <1>6, <1>8, <1>9 DEF ReadyMeansBuilt, NobodyLeaves
<1>13. BuiltSoFar'
  BY <1>1, <1>8, <1>9 DEF BuiltSoFar
<1>14. FreedSoFar'
  <2>1. 1 \in 1 .. Len(Lib!DeinitOrder(b)) + 1 /\ 1 .. 1 - 1 = {}
    BY BuildType, DeinitOrderType
  <2>2. QED
    BY <1>1, <1>4, <1>8, <1>9, <2>1 DEF FreedSoFar
<1>15. NothingLeft'
  BY <1>4, <1>6, <1>9 DEF NothingLeft, NobodyLeaves
<1>16. OnlyUse'
  BY <1>1, <1>5 DEF OnlyUse, Lib!TypeOK
<1>17. QED
  BY <1>6, <1>7, <1>10, <1>11, <1>12, <1>13, <1>14, <1>15, <1>16

\* deinit destroys the next class.
LEMMA DeinitClassInv ==
  ASSUME Orderly, LibraryInv, NEW t \in Threads, Lib!DeinitClass(t)
  PROVE  LibraryInv'
<1> USE DEF LibraryInv
<1> DEFINE b == scenario.build
           c == Lib!DeinitOrder(b)[step[t]]
<1>1. /\ pc[t] = "deinitializing" /\ step[t] \in DOMAIN Lib!DeinitOrder(b)
      /\ classes' = classes \ {c}
      /\ UNCHANGED <<count, ready, device, scenario>>
      /\ pc' = [pc EXCEPT ![t] = "deinitializing"]
      /\ step' = [step EXCEPT ![t] = step[t] + 1]
  BY DEF Lib!DeinitClass, Lib!Goto
<1>2. /\ Len(Lib!DeinitOrder(b)) = 20 /\ Len(Lib!InitOrder(b)) \in 20 .. 21
      /\ DOMAIN Lib!DeinitOrder(b) = 1 .. Len(Lib!DeinitOrder(b))
  BY BuildType, DeinitOrderType, InitOrderType
<1>3. pc' = pc /\ Inside = {} /\ Inside' = {}
  BY <1>1 DEF LastLeaves, Inside, Lib!TypeOK
<1>4. \A u \in Threads :
         u # t => pc[u] \notin {"initializing", "deinitializing"} /\ pc[u] # "using"
  BY <1>1, <1>3 DEF Lib!OneBuilder, Inside, InsideLabels
<1>5. Lib!TypeOK'
  <2>1. step[t] \in 1 .. 20
    BY <1>1, <1>2
  <2>2. step[t] + 1 \in 0 .. Len(Lib!InitOrder(b)) + 1
    BY <1>2, <2>1, StepFits
  <2>3. QED
    BY <1>1, <2>2 DEF Lib!TypeOK
<1>6. CountOfInside' /\ Lib!OneBuilder' /\ LastLeaves'
  BY <1>1, <1>3 DEF CountOfInside, Lib!OneBuilder, LastLeaves
<1>7. ReadyMeansBuilt' /\ NothingLeft' /\ BuiltSoFar'
  BY <1>1, <1>3, <1>4 DEF ReadyMeansBuilt, NothingLeft, BuiltSoFar, NobodyLeaves
<1>8. FreedSoFar'
  <2>1. SUFFICES ASSUME NEW u \in Threads, pc'[u] = "deinitializing"
                 PROVE  /\ step'[u] \in 1 .. Len(Lib!DeinitOrder(b)) + 1
                        /\ \A i \in 1 .. step'[u] - 1 : Lib!DeinitOrder(b)[i] \notin classes'
    BY <1>1 DEF FreedSoFar
  <2>2. u = t /\ step'[u] = step[t] + 1
    BY <1>1, <1>3, <1>4, <2>1 DEF Lib!TypeOK
  <2>3. \A i \in 1 .. step[t] - 1 : Lib!DeinitOrder(b)[i] \notin classes
    BY <1>1 DEF FreedSoFar
  <2>4. QED
    BY <1>1, <1>2, <2>2, <2>3
<1>9. OnlyUse'
  BY <1>1, <1>3, <1>4 DEF OnlyUse
<1>10. QED
  BY <1>5, <1>6, <1>7, <1>8, <1>9

\* deinit is done: g_is_init goes back to 0.
LEMMA DeinitDoneInv ==
  ASSUME Orderly, LibraryInv, NEW t \in Threads, Lib!DeinitDone(t)
  PROVE  LibraryInv'
<1> USE DEF LibraryInv
<1> DEFINE b == scenario.build
<1>1. /\ pc[t] = "deinitializing" /\ step[t] = Len(Lib!DeinitOrder(b)) + 1
      /\ ready' = FALSE
      /\ UNCHANGED <<count, classes, device, scenario>>
      /\ pc' = [pc EXCEPT ![t] = "out"] /\ step' = [step EXCEPT ![t] = 0]
  BY DEF Lib!DeinitDone, Lib!Goto
<1>2. /\ Len(Lib!DeinitOrder(b)) = 20 /\ Len(Lib!InitOrder(b)) \in 20 .. 21
      /\ DOMAIN Lib!DeinitOrder(b) = 1 .. Len(Lib!DeinitOrder(b))
  BY BuildType, DeinitOrderType, InitOrderType
<1>3. Inside = {} /\ Inside' = {}
  BY <1>1 DEF LastLeaves, Inside, InsideLabels, Lib!TypeOK
<1>4. \A u \in Threads : pc'[u] \notin {"initializing", "deinitializing", "using"}
  BY <1>1, <1>3 DEF Lib!OneBuilder, Inside, InsideLabels, Lib!TypeOK
<1>5. Lib!TypeOK'
  <2>1. 0 \in 0 .. Len(Lib!InitOrder(b)) + 1
    BY <1>2
  <2>2. QED
    BY <1>1, <2>1 DEF Lib!TypeOK
<1>6. CountOfInside' /\ Lib!OneBuilder' /\ LastLeaves' /\ BuiltSoFar' /\ FreedSoFar'
  BY <1>1, <1>3, <1>4
  DEF CountOfInside, Lib!OneBuilder, LastLeaves, BuiltSoFar, FreedSoFar
<1>7. ReadyMeansBuilt'
  BY <1>1, <1>3, <1>4 DEF ReadyMeansBuilt
<1>8. NothingLeft'
  <2>1. \A i \in 1 .. (Len(Lib!DeinitOrder(b)) + 1) - 1 : Lib!DeinitOrder(b)[i] \notin classes
    BY <1>1 DEF FreedSoFar
  <2>2. QED
    BY <1>1, <1>2, <2>1 DEF NothingLeft
<1>9. OnlyUse'
  BY <1>1, <1>3, <1>4 DEF OnlyUse, Inside, InsideLabels, Lib!TypeOK
<1>10. QED
  BY <1>5, <1>6, <1>7, <1>8, <1>9

\* Every step keeps the invariant.
LEMMA LibraryNextInv ==
  ASSUME Orderly, LibraryInv, [Lib!Next]_(Lib!vars) PROVE LibraryInv'
<1>1. CASE UNCHANGED Lib!vars
  BY <1>1
  DEF Lib!vars, LibraryInv, Lib!TypeOK, CountOfInside, Lib!OneBuilder, LastLeaves,
      ReadyMeansBuilt, BuiltSoFar, FreedSoFar, NothingLeft, OnlyUse, Inside, NobodyLeaves
<1>2. CASE Lib!Next
  <2>1. PICK t \in Threads : Lib!SeeInit(t) \/ Lib!SeeDeinit(t) \/ Lib!Library(t)
    BY <1>2 DEF Lib!Next
  <2>2. CASE Lib!Library(t)
    BY <2>2, LibraryWaitInv, InitClassInv, InitRandomInv, InitDoneInv, DeinitClassInv,
       DeinitDoneInv DEF Lib!Library
  <2>3. QED
    BY <2>1, <2>2, SeeInitInv, SeeDeinitInv
<1>3. QED
  BY <1>1, <1>2

\* Only InitDone takes a thread out of initialize, as long as nothing fails, and
\* nobody is inside when g_is_init goes back to 0.
LEMMA SomebodyBuildsStep ==
  ASSUME Orderly, LibraryInv, LibraryInv', SomebodyBuilds, [Lib!Next]_(Lib!vars)
  PROVE  SomebodyBuilds'
<1> USE DEF InsideLabels
<1>1. CASE UNCHANGED Lib!vars
  BY <1>1 DEF Lib!vars, SomebodyBuilds, Inside
<1>2. ASSUME NEW t \in Threads, Lib!SeeInit(t) \/ Lib!SeeDeinit(t) \/ Lib!Library(t)
      PROVE  SomebodyBuilds'
  <2>1. /\ pc \in [Threads -> {"out", "initializing", "waiting", "hung", "using",
                                "failed", "deinitializing"}]
        /\ scenario' = scenario
    BY <1>2
    DEF LibraryInv, Lib!TypeOK, Lib!SeeInit, Lib!SeeDeinit, Lib!Library, Lib!WaitEnds,
        Lib!WaitHangs, Lib!InitClass, Lib!InitClassFails, Lib!InitClassPresent,
        Lib!InitRandom, Lib!InitRandomFails, Lib!InitRandomAgain, Lib!InitDone,
        Lib!DeinitClass, Lib!DeinitDone
  <2>2. SUFFICES ASSUME ~ scenario.allocFails, scenario.restart = "never", Inside' # {}
                 PROVE  ready' \/ \E u \in Threads : pc'[u] = "initializing"
    BY <2>1 DEF SomebodyBuilds
  <2>3. ASSUME NEW l, pc' = [pc EXCEPT ![t] = l], ready' = ready, Inside # {},
               pc[t] # "initializing"
        PROVE  ready' \/ \E u \in Threads : pc'[u] = "initializing"
    BY <2>1, <2>2, <2>3 DEF SomebodyBuilds
  <2>4. CASE Lib!SeeInit(t)
    <3>1. pc[t] = "out" /\ ready' = ready /\ count' = count + 1
      BY <2>4 DEF Lib!SeeInit
    <3>2. CASE count' = 1
      <4>1. pc'[t] = "initializing"
        BY <2>1, <2>4, <3>2 DEF Lib!SeeInit, Lib!Goto
      <4>2. QED
        BY <4>1
    <3>3. CASE count' # 1
      <4>1. pc' = [pc EXCEPT ![t] = "waiting"]
        BY <2>4, <3>3 DEF Lib!SeeInit, Lib!Goto
      <4>2. count # 0
        BY <3>1, <3>3
      <4>3. Inside # {}
        BY <4>2, FS_EmptySet DEF LibraryInv, CountOfInside
      <4>4. QED
        BY <2>3, <3>1, <4>1, <4>3
    <3>4. QED
      BY <3>2, <3>3
  <2>5. CASE Lib!SeeDeinit(t)
    <3>1. /\ pc[t] \in {"using", "failed"} /\ ready' = ready
          /\ \/ pc' = [pc EXCEPT ![t] = "deinitializing"]
             \/ pc' = [pc EXCEPT ![t] = "out"]
      BY <2>5 DEF Lib!SeeDeinit, Lib!Goto
    <3>2. t \in Inside
      BY <3>1 DEF Inside
    <3>3. QED
      BY <2>3, <3>1, <3>2
  <2>6. CASE Lib!WaitEnds(t) \/ Lib!WaitHangs(t)
    <3>1. /\ pc[t] = "waiting" /\ ready' = ready
          /\ pc' = [pc EXCEPT ![t] = "using"] \/ pc' = [pc EXCEPT ![t] = "hung"]
      BY <2>6 DEF Lib!WaitEnds, Lib!WaitHangs, Lib!Goto
    <3>2. t \in Inside
      BY <3>1 DEF Inside
    <3>3. QED
      BY <2>3, <3>1, <3>2
  <2>7. ASSUME Lib!Proceed(t) \/ Lib!Fail(t)
        PROVE  ready' \/ \E u \in Threads : pc'[u] = "initializing"
    <3>1. pc'[t] \in {"initializing", "failed"}
      BY <2>1, <2>7 DEF Lib!Proceed, Lib!Fail, Lib!Goto
    <3>2. pc'[t] # "failed"
      BY <2>1, <2>2 DEF LibraryInv, OnlyUse
    <3>3. QED
      BY <3>1, <3>2
  <2>8. CASE \E c : Lib!InitClass(t, c) \/ Lib!InitClassFails(t, c) \/ Lib!InitClassPresent(t, c)
    BY <2>7, <2>8 DEF Lib!InitClass, Lib!InitClassFails, Lib!InitClassPresent
  <2>9. CASE Lib!InitRandom(t) \/ Lib!InitRandomFails(t) \/ Lib!InitRandomAgain(t)
    BY <2>7, <2>9 DEF Lib!InitRandom, Lib!InitRandomFails, Lib!InitRandomAgain
  <2>10. CASE Lib!InitDone(t)
    BY <2>10 DEF Lib!InitDone
  <2>11. CASE Lib!DeinitClass(t) \/ Lib!DeinitDone(t)
    <3>1. /\ pc[t] = "deinitializing"
          /\ \/ pc' = [pc EXCEPT ![t] = "deinitializing"]
             \/ pc' = [pc EXCEPT ![t] = "out"]
      BY <2>11 DEF Lib!DeinitClass, Lib!DeinitDone, Lib!Goto
    <3>2. Inside = {}
      BY <3>1 DEF LibraryInv, LastLeaves
    <3>3. Inside' = {}
      BY <2>1, <3>1, <3>2 DEF Inside
    <3>4. QED
      BY <2>2, <3>3
  <2>12. QED
    BY <1>2, <2>4, <2>5, <2>6, <2>8, <2>9, <2>10, <2>11 DEF Lib!Library
<1>3. QED
  BY <1>1, <1>2 DEF Lib!Next

\* The properties follow from the invariant.
LEMMA LibraryInvImplies ==
  ASSUME Orderly, LibraryInv
  PROVE  /\ Lib!UsersSeeAllClasses /\ Lib!OneBuilder
         /\ Lib!ClassesFreed /\ Lib!FirstUseSucceeds
<1>1. Lib!UsersSeeAllClasses
  BY DEF LibraryInv, ReadyMeansBuilt, Lib!UsersSeeAllClasses, Inside, InsideLabels
<1>2. Lib!ClassesFreed
  <2>1. SUFFICES ASSUME count = 0, NobodyLeaves
                 PROVE  classes \subseteq {"WindowsRuntimeError"} /\ ~ ready
    BY DEF Lib!ClassesFreed, NobodyLeaves
  <2>2. Inside = {}
    BY <2>1, CountIsZero DEF LibraryInv
  <2>3. \A c \in classes : c = "WindowsRuntimeError"
    BY <2>1, <2>2, BuildType, DeinitCovers DEF LibraryInv, Lib!TypeOK, NothingLeft
  <2>4. QED
    BY <2>1, <2>2, <2>3 DEF LibraryInv, ReadyMeansBuilt
<1>3. Lib!FirstUseSucceeds
  BY DEF LibraryInv, OnlyUse, Lib!FirstUseSucceeds
<1>4. QED
  BY <1>1, <1>2, <1>3 DEF LibraryInv

-----------------------------------------------------------------------------
(* The two initialisers of error classes *)

Making == {"parent", "test", "store"}
Busy == Making \cup {"leave"}

Calls == Callers \X (1 .. 2)
NoFrame == [cls |-> "none", at |-> "none", ret |-> "none"]

\* The frame of a call, if it is under way.
slot ==
  [x \in Calls |-> IF x[2] \in DOMAIN frames[x[1]] THEN frames[x[1]][x[2]] ELSE NoFrame]

\* How many calls thread t has under way.
Depth(t) == Len(frames[t])

\* The only nested call is the one that see_copy_error_init makes.
Nesting ==
  \A t \in Callers :
    /\ Depth(t) <= 2
    /\ Depth(t) = 2 => /\ frames[t][1].cls = "CopyError"
                       /\ frames[t][1].at = "test"
                       /\ frames[t][2].cls = "Error"

InCount(c) == {x \in Calls : slot[x].cls = c /\ slot[x].at \in Busy}

CountedIn ==
  \A c \in Errors!Classes :
    IsFiniteSet(InCount(c)) /\ initializing[c] = Cardinality(InCount(c))

MakersAlone ==
  \A x, y \in Calls :
    /\ slot[x].cls = slot[y].cls
    /\ slot[x].at \in Making /\ slot[y].at \in Making
    => x = y

\* new_cls finds no class in the place of the one it makes.
MadeFresh ==
  /\ \A c \in Errors!Classes : creations[c] = IF c \in made THEN 1 ELSE 0
  /\ \A x \in Calls : slot[x].at = "store" => slot[x].cls \notin made

\* Class c is there, or a call is making it.
MadeOrBusy(c) ==
  c \in made \/ \E x \in Calls : slot[x].cls = c /\ slot[x].at \in Making

\* With enough memory nobody waits in vain, and see_copy_error_init finds the
\* parent that it has asked for.
NoneInVain ==
  \A x \in Calls, c \in Errors!Classes :
    slot[x].cls = c /\ slot[x].at \in {"leave", "wait", "hung"} => MadeOrBusy(c)

ParentThere ==
  \A t \in Callers :
    /\ slot[<<t, 1>>].cls = "CopyError" /\ slot[<<t, 1>>].at = "test"
    /\ slot[<<t, 2>>] = NoFrame
    => "Error" \in made

\* The loop of see_error_init always reads the counter.
ErrorNeverHangs == \A x \in Calls : slot[x].cls = "Error" => slot[x].at # "hung"

ErrorsInv ==
  /\ Errors!TypeOK
  /\ Nesting
  /\ CountedIn
  /\ MakersAlone
  /\ MadeFresh
  /\ ~ errorScenario.allocFails => NoneInVain /\ ParentThere
  /\ Errors!SuccessMeansReady

-----------------------------------------------------------------------------
(* Lemmas about the calls of a thread *)

\* The innermost call.
Top(t) == <<t, Depth(t)>>

\* A call is at depth 1 or 2.
LEMMA OneOrTwo == \A n \in Nat \ {0} : n <= 2 => n \in 1 .. 2
OBVIOUS

\* The calls have frames, or none.
LEMMA SlotType ==
  ASSUME Errors!TypeOK
  PROVE  slot \in [Calls -> Errors!Frame \cup {NoFrame}]
BY DEF Errors!TypeOK, slot, Calls

\* A call that is at some place is the innermost of its thread.
LEMMA TopOf ==
  ASSUME Errors!TypeOK, Nesting, NEW t \in Callers, NEW p, NEW c, Errors!At(t, p, c)
  PROVE  /\ Depth(t) \in 1 .. 2 /\ DOMAIN frames[t] = 1 .. Depth(t)
         /\ Top(t) \in Calls /\ Depth(t) \in DOMAIN frames[t]
         /\ slot[Top(t)] = frames[t][Depth(t)]
         /\ slot[Top(t)] \in Errors!Frame
         /\ slot[Top(t)].at = p /\ slot[Top(t)].cls = c
         /\ Depth(t) = 1 => slot[<<t, 2>>] = NoFrame
         /\ Depth(t) = 2 =>
              /\ c = "Error"
              /\ slot[<<t, 1>>].cls = "CopyError" /\ slot[<<t, 1>>].at = "test"
<1>1. frames[t] \in Seq(Errors!Frame) /\ frames[t] # <<>>
  BY DEF Errors!TypeOK, Errors!At
<1>2. Depth(t) \in 1 .. 2 /\ DOMAIN frames[t] = 1 .. Depth(t)
  <2>1. Depth(t) \in Nat \ {0} /\ DOMAIN frames[t] = 1 .. Depth(t)
    BY <1>1, EmptySeq, LenProperties DEF Depth
  <2>2. Depth(t) <= 2
    BY DEF Nesting
  <2>3. QED
    BY <2>1, <2>2, OneOrTwo
<1>3. Top(t) \in Calls /\ slot[Top(t)] = frames[t][Depth(t)]
  <2>1. Top(t) \in Calls /\ Top(t)[1] = t /\ Top(t)[2] = Depth(t)
    BY ONLY <1>2, t \in Callers DEF Top, Calls
  <2>2. Depth(t) \in DOMAIN frames[t]
    BY <1>2
  <2>3. QED
    BY <2>1, <2>2 DEF slot
<1>4. slot[Top(t)] \in Errors!Frame
  BY <1>1, <1>2, <1>3
<1>5. Depth(t) = 1 => slot[<<t, 2>>] = NoFrame
  BY <1>2 DEF Calls, slot
<1>6. ASSUME Depth(t) = 2
      PROVE  /\ c = "Error"
             /\ slot[<<t, 1>>].cls = "CopyError" /\ slot[<<t, 1>>].at = "test"
  <2>1. slot[<<t, 1>>] = frames[t][1]
    BY <1>2, <1>6 DEF Calls, slot
  <2>2. QED
    BY <1>6, <2>1 DEF Nesting, Errors!At, Depth
<1>7. QED
  BY <1>2, <1>3, <1>4, <1>5, <1>6 DEF Errors!At, Depth

\* The innermost call goes on with frame f.
LEMMA ChangeTop ==
  ASSUME Errors!TypeOK, Nesting, NEW t \in Callers, NEW p, NEW c, Errors!At(t, p, c),
         NEW f \in Errors!Frame, f.cls = c,
         frames' = [frames EXCEPT ![t] = [@ EXCEPT ![Depth(t)] = f]]
  PROVE  /\ frames' \in [Callers -> Seq(Errors!Frame)]
         /\ Nesting'
         /\ slot' = [slot EXCEPT ![Top(t)] = f]
<1>0. /\ Depth(t) \in 1 .. 2 /\ DOMAIN frames[t] = 1 .. Depth(t) /\ Top(t) \in Calls
      /\ Depth(t) = 2 => c = "Error"
  <2>1. /\ Depth(t) \in 1 .. 2 /\ DOMAIN frames[t] = 1 .. Depth(t)
        /\ Top(t) \in Calls
    BY TopOf, Zenon
  <2>2. Depth(t) = 2 => c = "Error"
    BY DEF Nesting, Errors!At, Depth
  <2>3. QED
    BY <2>1, <2>2
<1> DEFINE n == Depth(t)
           s == [frames[t] EXCEPT ![n] = f]
<1>1. /\ n \in 1 .. 2 /\ DOMAIN frames[t] = 1 .. n /\ Top(t) \in Calls
      /\ n = 2 => c = "Error"
  BY <1>0
<1>2. frames \in [Callers -> Seq(Errors!Frame)] /\ frames[t] \in Seq(Errors!Frame)
  BY DEF Errors!TypeOK
<1>3. s \in Seq(Errors!Frame) /\ Len(s) = n /\ DOMAIN s = 1 .. n
  BY <1>1, <1>2, ExceptSeq, LenProperties DEF Depth
<1>4. /\ frames' = [frames EXCEPT ![t] = s]
      /\ \A u \in Callers : frames'[u] = IF u = t THEN s ELSE frames[u]
  BY <1>2
<1>5. frames' \in [Callers -> Seq(Errors!Frame)]
  BY <1>2, <1>3, <1>4
<1>6. Nesting'
  <2>1. n = 2 => s[1] = frames[t][1] /\ s[2] = f
    BY <1>1, <1>3
  <2>2. \A u \in Callers : Depth(u)' = Depth(u)
    BY <1>3, <1>4 DEF Depth
  <2>3. QED
    BY <1>1, <1>4, <2>1, <2>2 DEF Nesting
<1>7. slot' = [slot EXCEPT ![Top(t)] = f]
  <2>1. SUFFICES ASSUME NEW x \in Calls
                 PROVE  slot'[x] = IF x = Top(t) THEN f ELSE slot[x]
    BY DEF slot
  <2>2. PICK u \in Callers, i \in 1 .. 2 : x = <<u, i>>
    BY DEF Calls
  <2>3. CASE u = t
    BY <1>1, <1>3, <1>4, <2>2, <2>3 DEF slot, Top
  <2>4. CASE u # t
    BY <1>4, <2>2, <2>4 DEF slot, Top
  <2>5. QED
    BY <2>3, <2>4
<1>8. QED
  BY <1>5, <1>6, <1>7

\* A thread that goes on changes the place of its innermost call only.
LEMMA GotoStep ==
  ASSUME Errors!TypeOK, Nesting, NEW t \in Callers, NEW p, NEW c, Errors!At(t, p, c),
         NEW q \in Errors!Places, Errors!Goto(t, q)
  PROVE  /\ frames' \in [Callers -> Seq(Errors!Frame)]
         /\ Nesting'
         /\ slot' = [slot EXCEPT ![Top(t)] = [slot[Top(t)] EXCEPT !.at = q]]
<1> DEFINE f == [slot[Top(t)] EXCEPT !.at = q]
<1>1. /\ slot[Top(t)] = frames[t][Depth(t)] /\ slot[Top(t)] \in Errors!Frame
      /\ slot[Top(t)].cls = c /\ Depth(t) \in DOMAIN frames[t]
  BY TopOf, Zenon
<1>2. f \in Errors!Frame /\ f.cls = c
  BY <1>1 DEF Errors!Frame
<1>3. frames' = [frames EXCEPT ![t] = [@ EXCEPT ![Depth(t)] = f]]
  BY <1>1 DEF Errors!Goto, Depth
<1>4. QED
  BY <1>2, <1>3, ChangeTop

\* One that fails leaves its innermost call.
LEMMA GotoErrorStep ==
  ASSUME Errors!TypeOK, Nesting, NEW t \in Callers, NEW p, NEW c,
         Errors!At(t, p, c), Errors!GotoError(t)
  PROVE  /\ frames' \in [Callers -> Seq(Errors!Frame)]
         /\ Nesting'
         /\ slot' = [slot EXCEPT ![Top(t)] =
                       [cls |-> c, at |-> "leave", ret |-> "error"]]
<1> DEFINE f == [cls |-> c, at |-> "leave", ret |-> "error"]
<1>1. /\ slot[Top(t)] = frames[t][Depth(t)] /\ slot[Top(t)] \in Errors!Frame
      /\ slot[Top(t)].cls = c /\ Depth(t) \in DOMAIN frames[t]
  BY TopOf, Zenon
<1>2. f \in Errors!Frame /\ f.cls = c
  BY <1>1 DEF Errors!Frame, Errors!Places
<1>3. frames' = [frames EXCEPT ![t] = [@ EXCEPT ![Depth(t)] = f]]
  BY <1>1 DEF Errors!GotoError, Depth
<1>4. QED
  BY <1>2, <1>3, ChangeTop

Results == {"success", "error"}

\* The innermost call is over.
LEMMA ReturnStep ==
  ASSUME Errors!TypeOK, Nesting, NEW t \in Callers, NEW p,
         NEW c \in Errors!Classes, Errors!At(t, p, c),
         NEW r \in Results, Errors!Return(t, c, r)
  PROVE  /\ frames' \in [Callers -> Seq(Errors!Frame)]
         /\ Nesting'
         /\ slot' = [slot EXCEPT ![Top(t)] = NoFrame]
         /\ returned' \in [Callers -> [cls : Errors!Classes, ret : {"none", "success", "error"}]]
         /\ \A u \in Callers :
              \/ returned'[u] = returned[u]
              \/ u = t /\ returned'[u] = [cls |-> c, ret |-> r]
<1> DEFINE n == Depth(t)
           s == SubSeq(frames[t], 1, n - 1)
<1>1. n \in 1 .. 2 /\ DOMAIN frames[t] = 1 .. n /\ Top(t) \in Calls
  BY TopOf
<1>2. frames \in [Callers -> Seq(Errors!Frame)] /\ frames[t] \in Seq(Errors!Frame)
  BY DEF Errors!TypeOK
<1>3. /\ s \in Seq(Errors!Frame) /\ Len(s) = n - 1 /\ DOMAIN s = 1 .. n - 1
      /\ \A i \in 1 .. n - 1 : s[i] = frames[t][i]
  BY <1>1, <1>2, SubSeqProperties, LenProperties, ElementOfSeq DEF Depth
<1>4. /\ frames' = [frames EXCEPT ![t] = s]
      /\ \A u \in Callers : frames'[u] = IF u = t THEN s ELSE frames[u]
  BY <1>2 DEF Errors!Return, Depth
<1> HIDE DEF s
<1>5. frames' \in [Callers -> Seq(Errors!Frame)]
  BY <1>2, <1>3, <1>4
<1>6. Nesting'
  <2>1. Depth(t)' = Len(s) /\ \A u \in Callers : u # t => Depth(u)' = Depth(u)
    BY <1>4 DEF Depth
  <2>2. QED
    BY <1>1, <1>3, <1>4, <2>1 DEF Nesting
<1>7. slot' = [slot EXCEPT ![Top(t)] = NoFrame]
  <2>1. SUFFICES ASSUME NEW x \in Calls
                 PROVE  slot'[x] = IF x = Top(t) THEN NoFrame ELSE slot[x]
    BY DEF slot
  <2>2. PICK u \in Callers, i \in 1 .. 2 : x = <<u, i>>
    BY DEF Calls
  <2>3. CASE u = t
    BY <1>1, <1>3, <1>4, <2>2, <2>3 DEF slot, Top
  <2>4. CASE u # t
    BY <1>4, <2>2, <2>4 DEF slot, Top
  <2>5. QED
    BY <2>3, <2>4
<1>8. /\ returned' \in [Callers -> [cls : Errors!Classes, ret : {"none", "success", "error"}]]
      /\ \A u \in Callers :
           \/ returned'[u] = returned[u]
           \/ u = t /\ returned'[u] = [cls |-> c, ret |-> r]
  BY DEF Errors!Return, Errors!TypeOK, Results
<1>9. QED
  BY <1>5, <1>6, <1>7, <1>8

\* A client calls one of the initialisers.
LEMMA CallStep ==
  ASSUME Errors!TypeOK, Nesting, NEW t \in Callers, NEW c \in Errors!Classes,
         frames[t] = <<>>, frames' = [frames EXCEPT ![t] = <<Errors!NewFrame(c)>>]
  PROVE  /\ frames' \in [Callers -> Seq(Errors!Frame)]
         /\ Nesting'
         /\ slot[<<t, 1>>] = NoFrame /\ slot[<<t, 2>>] = NoFrame
         /\ slot' = [slot EXCEPT ![<<t, 1>>] = Errors!NewFrame(c)]
<1> DEFINE s == <<Errors!NewFrame(c)>>
<1>1. frames \in [Callers -> Seq(Errors!Frame)]
  BY DEF Errors!TypeOK
<1>2. Errors!NewFrame(c) \in Errors!Frame
  BY DEF Errors!NewFrame, Errors!Frame, Errors!Places
<1>3. s \in Seq(Errors!Frame) /\ Len(s) = 1 /\ DOMAIN s = {1} /\ s[1] = Errors!NewFrame(c)
  BY <1>2
<1>4. \A u \in Callers : frames'[u] = IF u = t THEN s ELSE frames[u]
  BY <1>1
<1>5. DOMAIN frames[t] = {}
  OBVIOUS
<1> HIDE DEF s
<1>6. frames' \in [Callers -> Seq(Errors!Frame)]
  BY <1>1, <1>3, <1>4
<1>7. Nesting'
  <2>1. Depth(t)' = Len(s) /\ \A u \in Callers : u # t => Depth(u)' = Depth(u)
    BY <1>4 DEF Depth
  <2>2. QED
    BY <1>3, <1>4, <2>1 DEF Nesting
<1>8. slot[<<t, 1>>] = NoFrame /\ slot[<<t, 2>>] = NoFrame
  BY <1>5 DEF slot, Calls
<1>9. slot' = [slot EXCEPT ![<<t, 1>>] = Errors!NewFrame(c)]
  <2>1. SUFFICES ASSUME NEW x \in Calls
                 PROVE  slot'[x] = IF x = <<t, 1>> THEN Errors!NewFrame(c) ELSE slot[x]
    BY DEF slot
  <2>2. PICK u \in Callers, i \in 1 .. 2 : x = <<u, i>>
    BY DEF Calls
  <2>3. CASE u = t
    BY <1>3, <1>4, <1>5, <2>2, <2>3 DEF slot
  <2>4. CASE u # t
    BY <1>4, <2>2, <2>4 DEF slot
  <2>5. QED
    BY <2>3, <2>4
<1>10. QED
  BY <1>6, <1>7, <1>8, <1>9

\* What is appended to a sequence leaves the rest alone.
LEMMA AppendKeeps ==
  ASSUME NEW S, NEW q \in Seq(S), NEW e \in S
  PROVE  \A i \in 1 .. Len(q) : Append(q, e)[i] = q[i]
OBVIOUS

\* A frame of a thread is replaced, or one is put on top of it.
LEMMA OneFrame ==
  ASSUME NEW q \in Seq(Errors!Frame), Len(q) = 1, NEW f \in Errors!Frame
  PROVE  /\ LET r == [q EXCEPT ![1] = f]
            IN  r \in Seq(Errors!Frame) /\ Len(r) = 1 /\ r[1] = f
         /\ LET r == Append(q, f)
            IN  r \in Seq(Errors!Frame) /\ Len(r) = 2 /\ r[1] = q[1] /\ r[2] = f
<1>1. 1 \in 1 .. Len(q) /\ Len(q) + 1 = 2
  OBVIOUS
<1>2. [q EXCEPT ![1] = f] \in Seq(Errors!Frame) /\ Len([q EXCEPT ![1] = f]) = Len(q)
  BY <1>1, ExceptSeq
<1>3. [q EXCEPT ![1] = f][1] = f
  BY <1>1, LenProperties
<1>4. /\ Append(q, f) \in Seq(Errors!Frame) /\ Len(Append(q, f)) = Len(q) + 1
      /\ Append(q, f)[Len(q) + 1] = f
  BY AppendProperties, ZenonT(30)
<1>5. \A i \in 1 .. Len(q) : Append(q, f)[i] = q[i]
  BY AppendKeeps
<1>6. QED
  BY <1>1, <1>2, <1>3, <1>4, <1>5

\* see_copy_error_init goes on at its test, with or without a call of
\* see_error_init.
LEMMA FindParentStep ==
  ASSUME Errors!TypeOK, Nesting, NEW t \in Callers, Errors!FindParent(t)
  PROVE  LET f == [slot[<<t, 1>>] EXCEPT !.at = "test"]
         IN  /\ frames' \in [Callers -> Seq(Errors!Frame)]
             /\ Nesting'
             /\ slot[<<t, 1>>] \in Errors!Frame /\ slot[<<t, 1>>].at = "parent"
             /\ slot[<<t, 1>>].cls = "CopyError" /\ slot[<<t, 2>>] = NoFrame
             /\ \A x \in Calls :
                  slot'[x] = IF x = <<t, 1>> THEN f
                             ELSE IF x = <<t, 2>> /\ "Error" \notin made
                                  THEN Errors!NewFrame("Error") ELSE slot[x]
<1> DEFINE f == [slot[<<t, 1>>] EXCEPT !.at = "test"]
           e == [frames[t] EXCEPT ![1] = f]
           s == IF "Error" \in made THEN e ELSE Append(e, Errors!NewFrame("Error"))
<1>1. Errors!At(t, "parent", "CopyError")
  BY DEF Errors!FindParent
<1>2. /\ Depth(t) \in 1 .. 2 /\ DOMAIN frames[t] = 1 .. Depth(t)
      /\ Depth(t) \in DOMAIN frames[t]
      /\ slot[Top(t)] = frames[t][Depth(t)] /\ slot[Top(t)] \in Errors!Frame
      /\ slot[Top(t)].at = "parent" /\ slot[Top(t)].cls = "CopyError"
      /\ Depth(t) = 1 => slot[<<t, 2>>] = NoFrame
      /\ Depth(t) = 2 => "CopyError" = "Error"
  BY <1>1, TopOf, Zenon
<1>3. Depth(t) = 1 /\ Top(t) = <<t, 1>>
  BY <1>2 DEF Top
<1>4. f \in Errors!Frame /\ f.cls = "CopyError" /\ f.at = "test"
  BY <1>2, <1>3 DEF Errors!Frame, Errors!Places
<1> HIDE DEF f
<1>5. Errors!NewFrame("Error") \in Errors!Frame /\ Errors!NewFrame("Error").cls = "Error"
  BY DEF Errors!NewFrame, Errors!Frame, Errors!Places, Errors!Classes
<1>6. frames \in [Callers -> Seq(Errors!Frame)] /\ frames[t] \in Seq(Errors!Frame)
  BY DEF Errors!TypeOK
<1>7. e \in Seq(Errors!Frame) /\ Len(e) = 1 /\ e[1] = f
  <2>1. Len(frames[t]) = 1
    BY <1>3 DEF Depth
  <2>2. QED
    BY <1>4, <1>6, <2>1, OneFrame
<1> HIDE DEF e
<1>8. /\ s \in Seq(Errors!Frame) /\ DOMAIN s = 1 .. Len(s) /\ s[1] = f
      /\ "Error" \in made => Len(s) = 1
      /\ "Error" \notin made => Len(s) = 2 /\ s[2] = Errors!NewFrame("Error")
  <2>1. LET a == Append(e, Errors!NewFrame("Error"))
        IN  a \in Seq(Errors!Frame) /\ Len(a) = 2 /\ a[1] = f /\ a[2] = Errors!NewFrame("Error")
    BY <1>5, <1>7, OneFrame
  <2>2. s \in Seq(Errors!Frame)
    BY <1>7, <2>1
  <2>3. DOMAIN s = 1 .. Len(s)
    BY <2>2, LenProperties
  <2>4. QED
    BY <1>7, <2>1, <2>2, <2>3
<1>9. frames' = [frames EXCEPT ![t] = s]
  <2>1. slot[<<t, 1>>] = frames[t][1]
    BY <1>2, <1>3
  <2>2. [frames EXCEPT ![t][1].at = "test"] = [frames EXCEPT ![t] = e]
    BY <2>1 DEF e, f
  <2>3. QED
    BY <1>3, <1>6, <2>2 DEF Errors!FindParent, Depth
<1> HIDE DEF s
<1>10. \A u \in Callers : frames'[u] = IF u = t THEN s ELSE frames[u]
  BY <1>6, <1>9
<1>11. frames' \in [Callers -> Seq(Errors!Frame)]
  BY <1>6, <1>8, <1>9
<1>12. Nesting'
  <2>1. Depth(t)' = Len(s) /\ \A u \in Callers : u # t => Depth(u)' = Depth(u)
    BY <1>10 DEF Depth
  <2>2. QED
    BY <1>4, <1>5, <1>8, <1>10, <2>1 DEF Nesting
<1>13. ASSUME NEW x \in Calls
       PROVE  slot'[x] = IF x = <<t, 1>> THEN f
                         ELSE IF x = <<t, 2>> /\ "Error" \notin made
                              THEN Errors!NewFrame("Error") ELSE slot[x]
  <2>1. PICK u \in Callers, i \in 1 .. 2 : x = <<u, i>>
    BY DEF Calls
  <2>2. CASE u = t
    BY <1>2, <1>3, <1>8, <1>10, <2>1, <2>2, SMTT(30) DEF slot
  <2>3. CASE u # t
    BY <1>10, <2>1, <2>3 DEF slot
  <2>4. QED
    BY <2>2, <2>3
<1>14. QED
  BY <1>2, <1>3, <1>11, <1>12, <1>13 DEF f

-----------------------------------------------------------------------------
(* Lemmas about the counters *)

\* What a change of one slot does to the busy calls of a class.
LEMMA CountStep ==
  ASSUME NEW c \in Errors!Classes, NEW x \in Calls, NEW f,
         slot' = [slot EXCEPT ![x] = f], IsFiniteSet(InCount(c))
  PROVE  LET before == slot[x].cls = c /\ slot[x].at \in Busy
             after  == f.cls = c /\ f.at \in Busy
             n      == Cardinality(InCount(c))
         IN  /\ IsFiniteSet(InCount(c)')
             /\ n \in Nat
             /\ before => n > 0
             /\ Cardinality(InCount(c)') =
                  IF after THEN (IF before THEN n ELSE n + 1)
                           ELSE (IF before THEN n - 1 ELSE n)
<1> DEFINE after == f.cls = c /\ f.at \in Busy
<1>1. /\ DOMAIN slot = Calls
      /\ \A y \in Calls : slot'[y] = IF y = x THEN f ELSE slot[y]
  BY DEF slot
<1>2. x \in InCount(c) <=> slot[x].cls = c /\ slot[x].at \in Busy
  BY DEF InCount
<1>3. InCount(c)' = IF after THEN InCount(c) \cup {x} ELSE InCount(c) \ {x}
  <2>1. InCount(c)' = {y \in Calls : slot'[y].cls = c /\ slot'[y].at \in Busy}
    BY DEF InCount, Calls
  <2>2. QED
    BY <1>1, <2>1 DEF InCount
<1>4. /\ Cardinality(InCount(c)) \in Nat
      /\ x \in InCount(c) => Cardinality(InCount(c)) > 0
  <2>1. Cardinality(InCount(c)) \in Nat
    BY FS_CardinalityType
  <2>2. Cardinality(InCount(c)) = 0 => InCount(c) = {}
    BY FS_EmptySet
  <2>3. QED
    BY <2>1, <2>2
<1>5. CASE after
  <2>1. InCount(c)' = InCount(c) \cup {x}
    BY <1>3, <1>5
  <2>2. QED
    BY <1>2, <1>4, <1>5, <2>1, FS_AddElement
<1>6. CASE ~ after
  <2>1. InCount(c)' = InCount(c) \ {x}
    BY <1>3, <1>6
  <2>2. QED
    BY <1>2, <1>4, <1>6, <2>1, FS_RemoveElement
<1>7. QED
  BY <1>5, <1>6

\* A counter at 0 means that nobody is making the class, one above that somebody
\* has not left.
LEMMA CounterTells ==
  ASSUME CountedIn, NEW c \in Errors!Classes
  PROVE  /\ initializing[c] \in Nat
         /\ initializing[c] = 0 <=>
              \A x \in Calls : ~ (slot[x].cls = c /\ slot[x].at \in Busy)
<1>1. IsFiniteSet(InCount(c)) /\ initializing[c] = Cardinality(InCount(c))
  BY DEF CountedIn
<1>2. initializing[c] \in Nat /\ (initializing[c] = 0 <=> InCount(c) = {})
  BY <1>1, FS_CardinalityType, FS_EmptySet
<1>3. QED
  BY <1>2 DEF InCount

\* The counters follow a change of one slot.
LEMMA CountedInStep ==
  ASSUME CountedIn, NEW x \in Calls, NEW f, slot' = [slot EXCEPT ![x] = f],
         initializing' \in [Errors!Classes -> Int],
         \A d \in Errors!Classes :
           LET before == slot[x].cls = d /\ slot[x].at \in Busy
               after  == f.cls = d /\ f.at \in Busy
           IN  initializing'[d] =
                 IF after THEN (IF before THEN initializing[d] ELSE initializing[d] + 1)
                          ELSE (IF before THEN initializing[d] - 1 ELSE initializing[d])
  PROVE  CountedIn' /\ initializing' \in [Errors!Classes -> Nat]
<1>1. ASSUME NEW d \in Errors!Classes
      PROVE  /\ IsFiniteSet(InCount(d)') /\ initializing'[d] = Cardinality(InCount(d)')
             /\ initializing'[d] \in Nat
  <2> DEFINE n == initializing[d]
             before == slot[x].cls = d /\ slot[x].at \in Busy
             after  == f.cls = d /\ f.at \in Busy
  <2>1. IsFiniteSet(InCount(d)) /\ n = Cardinality(InCount(d))
    BY DEF CountedIn
  <2>2. /\ IsFiniteSet(InCount(d)')
        /\ n \in Nat /\ (before => n > 0)
        /\ Cardinality(InCount(d)') =
             IF after THEN (IF before THEN n ELSE n + 1)
                      ELSE (IF before THEN n - 1 ELSE n)
    BY <2>1, CountStep
  <2>3. initializing'[d] = IF after THEN (IF before THEN n ELSE n + 1)
                                    ELSE (IF before THEN n - 1 ELSE n)
    OBVIOUS
  <2> HIDE DEF n, before, after
  <2>4. QED
    BY <2>2, <2>3
<1>2. \A d \in Errors!Classes : IsFiniteSet(InCount(d)') /\ initializing'[d] = Cardinality(InCount(d)')
  BY <1>1
<1>3. initializing' \in [Errors!Classes -> Nat]
  BY <1>1
<1>4. QED
  BY <1>2, <1>3 DEF CountedIn, Errors!Classes

\* A call that stays inside, or outside, changes no counter.
LEMMA CountedInSame ==
  ASSUME CountedIn, NEW x \in Calls, NEW f, slot' = [slot EXCEPT ![x] = f],
         initializing \in [Errors!Classes -> Nat], initializing' = initializing,
         slot[x].at \in Busy <=> f.at \in Busy,
         slot[x].at \in Busy => f.cls = slot[x].cls
  PROVE  CountedIn' /\ initializing' \in [Errors!Classes -> Nat]
<1>1. \A y \in Calls : slot'[y] = IF y = x THEN f ELSE slot[y]
  BY DEF slot
<1>2. \A d : InCount(d)' = InCount(d)
  BY <1>1 DEF InCount, Calls
<1>3. QED
  BY <1>2 DEF CountedIn, Errors!Classes

\* A step that changes the slot of one call, and makes no class.
LEMMA OneSlot ==
  ASSUME ErrorsInv, NEW x \in Calls, NEW f,
         slot' = [slot EXCEPT ![x] = f],
         frames' \in [Callers -> Seq(Errors!Frame)], Nesting',
         CountedIn', initializing' \in [Errors!Classes -> Nat],
         returned' \in [Callers -> [cls : Errors!Classes, ret : {"none", "success", "error"}]],
         UNCHANGED <<made, creations, errorScenario>>,
         f.at \in Making =>
           \/ slot[x].at \in Making /\ f.cls = slot[x].cls
           \/ \A y \in Calls : ~ (slot[y].cls = f.cls /\ slot[y].at \in Making),
         f.at = "store" => f.cls \notin made,
         ~ errorScenario.allocFails => NoneInVain' /\ ParentThere',
         Errors!SuccessMeansReady'
  PROVE  ErrorsInv'
<1> USE DEF ErrorsInv
<1>1. Errors!TypeOK'
  BY DEF Errors!TypeOK
<1>2. \A y \in Calls : slot'[y] = IF y = x THEN f ELSE slot[y]
  BY DEF slot
<1>3. MakersAlone'
  BY <1>2 DEF MakersAlone, Calls
<1>4. MadeFresh'
  BY <1>2 DEF MadeFresh, Calls
<1>5. QED
  BY <1>1, <1>3, <1>4

\* Who waited for class c still does, or finds it there.
LEMMA VainStep ==
  ASSUME NoneInVain, NEW x \in Calls, NEW f, slot' = [slot EXCEPT ![x] = f],
         made \subseteq made',
         slot[x].at \in Making =>
           \/ f.at \in Making /\ f.cls = slot[x].cls
           \/ slot[x].cls \in made',
         f.at \in {"leave", "wait", "hung"} =>
           \/ f.cls \in made'
           \/ MadeOrBusy(f.cls) /\ slot[x].at \notin Making
  PROVE  NoneInVain'
<1>1. \A y \in Calls : slot'[y] = IF y = x THEN f ELSE slot[y]
  BY DEF slot
<1>2. ASSUME NEW c, MadeOrBusy(c) PROVE MadeOrBusy(c)'
  <2>1. CASE c \in made
    BY <2>1 DEF MadeOrBusy
  <2>2. CASE \E y \in Calls : slot[y].cls = c /\ slot[y].at \in Making
    BY <1>1, <2>2 DEF MadeOrBusy, Calls
  <2>3. QED
    BY <1>2, <2>1, <2>2 DEF MadeOrBusy
<1>3. ASSUME NEW y \in Calls, NEW c \in Errors!Classes, slot'[y].cls = c,
             slot'[y].at \in {"leave", "wait", "hung"}
      PROVE  MadeOrBusy(c)'
  <2>1. CASE y # x
    BY <1>1, <1>2, <1>3, <2>1 DEF NoneInVain
  <2>2. CASE y = x
    BY <1>1, <1>2, <1>3, <2>2 DEF MadeOrBusy
  <2>3. QED
    BY <2>1, <2>2
<1>4. QED
  BY <1>3 DEF NoneInVain, Calls, Errors!Classes

\* Who asked for the class of errors finds it there, or still asks.
LEMMA ParentStep ==
  ASSUME ParentThere, NEW x \in Calls, NEW f, slot' = [slot EXCEPT ![x] = f],
         made \subseteq made',
         f.cls = "CopyError" /\ f.at = "test" => "Error" \in made',
         f = NoFrame /\ x[2] = 2 => "Error" \in made'
  PROVE  ParentThere'
<1>1. \A y \in Calls : slot'[y] = IF y = x THEN f ELSE slot[y]
  BY DEF slot
<1>2. SUFFICES ASSUME NEW u \in Callers,
                      slot'[<<u, 1>>].cls = "CopyError", slot'[<<u, 1>>].at = "test",
                      slot'[<<u, 2>>] = NoFrame
               PROVE  "Error" \in made'
  BY DEF ParentThere
<1>3. <<u, 1>> \in Calls /\ <<u, 2>> \in Calls
  BY DEF Calls
<1>4. CASE x = <<u, 1>>
  BY <1>1, <1>2, <1>4
<1>5. CASE x = <<u, 2>>
  BY <1>1, <1>2, <1>3, <1>5
<1>6. CASE x # <<u, 1>> /\ x # <<u, 2>>
  BY <1>1, <1>2, <1>3, <1>6 DEF ParentThere
<1>7. QED
  BY <1>4, <1>5, <1>6

-----------------------------------------------------------------------------
(* The inductive invariant *)

\* Nobody has called anything yet.
LEMMA ErrorsInitInv == Errors!Init => ErrorsInv
<1> SUFFICES ASSUME Errors!Init PROVE ErrorsInv
  OBVIOUS
<1>1. Errors!TypeOK
  <2>1. <<>> \in Seq(Errors!Frame)
    OBVIOUS
  <2>2. QED
    BY <2>1 DEF Errors!Init, Errors!TypeOK, Errors!Classes
<1>2. Nesting
  BY DEF Errors!Init, Nesting, Depth
<1>3. \A x \in Calls : slot[x] = NoFrame
  BY DEF Errors!Init, slot, Calls
<1>4. CountedIn
  <2>1. \A c \in Errors!Classes : InCount(c) = {}
    BY <1>3 DEF InCount, NoFrame, Errors!Classes
  <2>2. QED
    BY <2>1, FS_EmptySet DEF CountedIn, Errors!Init
<1>5. MakersAlone /\ NoneInVain
  BY <1>3 DEF MakersAlone, NoneInVain, NoFrame, Making
<1>6. MadeFresh
  BY <1>3 DEF MadeFresh, NoFrame, Errors!Init
<1>7. ParentThere
  BY <1>3 DEF ParentThere, NoFrame, Calls
<1>8. Errors!SuccessMeansReady
  BY DEF Errors!SuccessMeansReady, Errors!Init
<1>9. QED
  BY <1>1, <1>2, <1>4, <1>5, <1>6, <1>7, <1>8 DEF ErrorsInv

\* A new call has not looked at anything.
LEMMA CallInv ==
  ASSUME ErrorsInv, NEW t \in Callers, NEW c \in Errors!Classes, Errors!Call(t, c)
  PROVE  ErrorsInv'
<1> USE DEF ErrorsInv
<1> DEFINE x == <<t, 1>>
           f == Errors!NewFrame(c)
<1>1. /\ frames' \in [Callers -> Seq(Errors!Frame)] /\ Nesting'
      /\ slot[x] = NoFrame /\ slot[<<t, 2>>] = NoFrame
      /\ slot' = [slot EXCEPT ![x] = f]
  BY CallStep DEF Errors!Call
<1>2. x \in Calls /\ f.at = "check" /\ slot[x].at = "none"
  BY <1>1 DEF Calls, Errors!NewFrame, NoFrame
<1>3. UNCHANGED <<made, creations, initializing, errorScenario>>
  BY DEF Errors!Call
<1>4. CountedIn' /\ initializing' \in [Errors!Classes -> Nat]
  <2>1. initializing' \in [Errors!Classes -> Int]
    BY <1>3 DEF Errors!TypeOK
  <2>2. QED
    BY <1>1, <1>2, <1>3, <2>1, CountedInStep DEF Busy, Making
<1>5. /\ returned' \in [Callers -> [cls : Errors!Classes, ret : {"none", "success", "error"}]]
      /\ Errors!SuccessMeansReady'
  BY <1>3 DEF Errors!Call, Errors!TypeOK, Errors!SuccessMeansReady
<1>6. ASSUME ~ errorScenario.allocFails PROVE NoneInVain' /\ ParentThere'
  <2>1. NoneInVain'
    BY <1>1, <1>2, <1>3, <1>6, VainStep DEF Making
  <2>2. ParentThere'
    BY <1>1, <1>2, <1>3, <1>6, ParentStep
  <2>3. QED
    BY <2>1, <2>2
<1> HIDE DEF f, x
<1>7. QED
  BY <1>1, <1>2, <1>3, <1>4, <1>5, <1>6, OneSlot DEF Making

\* A call that finds its class returns; another goes on.
LEMMA CheckInv ==
  ASSUME ErrorsInv, NEW t \in Callers, NEW c \in Errors!Classes, Errors!Check(t, c)
  PROVE  ErrorsInv'
<1> USE DEF ErrorsInv
<1> DEFINE x == Top(t)
<1>1. /\ Errors!At(t, "check", c)
      /\ UNCHANGED <<made, creations, initializing, errorScenario>>
  BY DEF Errors!Check
<1>2. /\ x \in Calls /\ slot[x] \in Errors!Frame
      /\ slot[x].at = "check" /\ slot[x].cls = c
      /\ Depth(t) \in 1 .. 2 /\ (Depth(t) = 2 => c = "Error")
  BY <1>1, TopOf, Zenon
<1>3. x[2] = 2 => c = "Error"
  BY <1>2 DEF Top
<1> HIDE DEF x
<1>4. CASE c \in made
  <2>1. Errors!Return(t, c, "success")
    BY <1>4 DEF Errors!Check
  <2>2. /\ frames' \in [Callers -> Seq(Errors!Frame)] /\ Nesting'
        /\ slot' = [slot EXCEPT ![x] = NoFrame]
        /\ returned' \in [Callers -> [cls : Errors!Classes, ret : {"none", "success", "error"}]]
        /\ \A u \in Callers :
             returned'[u] = returned[u] \/ returned'[u] = [cls |-> c, ret |-> "success"]
    BY <1>1, <2>1, ReturnStep, ZenonT(30) DEF x, Results
  <2>3. NoFrame.at = "none" /\ NoFrame.cls = "none"
    BY DEF NoFrame
  <2>4. CountedIn' /\ initializing' \in [Errors!Classes -> Nat]
    <3>1. initializing' \in [Errors!Classes -> Int]
      BY <1>1 DEF Errors!TypeOK
    <3>2. QED
      BY <1>1, <1>2, <2>2, <2>3, <3>1, CountedInStep DEF Busy, Making
  <2>5. Errors!SuccessMeansReady'
    <3>1. \A u \in Callers : returned'[u] = returned[u] \/ returned'[u].cls = c
      BY <2>2
    <3>2. QED
      BY <1>1, <1>4, <3>1 DEF Errors!SuccessMeansReady
  <2>6. ASSUME ~ errorScenario.allocFails PROVE NoneInVain' /\ ParentThere'
    <3>1. NoneInVain'
      BY <1>1, <1>2, <2>2, <2>3, <2>6, VainStep DEF Making
    <3>2. ParentThere'
      BY <1>1, <1>2, <1>3, <1>4, <2>2, <2>3, <2>6, ParentStep
    <3>3. QED
      BY <3>1, <3>2
  <2>7. QED
    BY <1>1, <1>2, <2>2, <2>3, <2>4, <2>5, <2>6, OneSlot DEF Making
<1>5. CASE c \notin made
  <2> DEFINE f == [slot[x] EXCEPT !.at = "enter"]
  <2>1. Errors!Goto(t, "enter") /\ returned' = returned /\ "enter" \in Errors!Places
    BY <1>5 DEF Errors!Check, Errors!Places
  <2>2. /\ frames' \in [Callers -> Seq(Errors!Frame)] /\ Nesting'
        /\ slot' = [slot EXCEPT ![x] = f]
    BY <1>1, <2>1, GotoStep DEF x
  <2>3. f.at = "enter" /\ f.cls = c /\ f # NoFrame
    BY <1>2 DEF Errors!Frame, NoFrame
  <2> HIDE DEF f
  <2>4. CountedIn' /\ initializing' \in [Errors!Classes -> Nat]
    <3>1. initializing' \in [Errors!Classes -> Int]
      BY <1>1 DEF Errors!TypeOK
    <3>2. QED
      BY <1>1, <1>2, <2>2, <2>3, <3>1, CountedInStep DEF Busy, Making
  <2>5. /\ Errors!SuccessMeansReady'
        /\ returned' \in [Callers -> [cls : Errors!Classes, ret : {"none", "success", "error"}]]
    BY <1>1, <2>1 DEF Errors!SuccessMeansReady, Errors!TypeOK
  <2>6. ASSUME ~ errorScenario.allocFails PROVE NoneInVain' /\ ParentThere'
    <3>1. NoneInVain'
      BY <1>1, <1>2, <2>2, <2>3, <2>6, VainStep DEF Making
    <3>2. ParentThere'
      BY <1>1, <1>2, <2>2, <2>3, <2>6, ParentStep
    <3>3. QED
      BY <3>1, <3>2
  <2>7. QED
    BY <1>1, <1>2, <2>2, <2>3, <2>4, <2>5, <2>6, OneSlot DEF Making
<1>6. QED
  BY <1>4, <1>5

\* Entering, a call finds that it is alone, or somebody to wait for.
LEMMA EnterInv ==
  ASSUME ErrorsInv, NEW t \in Callers, NEW c \in Errors!Classes, Errors!Enter(t, c)
  PROVE  ErrorsInv'
<1> USE DEF ErrorsInv
<1> DEFINE q == IF initializing[c] > 0 THEN "leave"
                ELSE IF c = "CopyError" THEN "parent" ELSE "test"
           f == [slot[Top(t)] EXCEPT !.at = q]
<1>1. /\ Errors!At(t, "enter", c) /\ Errors!Goto(t, q)
      /\ initializing' = [initializing EXCEPT ![c] = @ + 1]
      /\ UNCHANGED <<made, creations, returned, errorScenario>>
  BY DEF Errors!Enter
<1>2. q \in Errors!Places
  BY DEF Errors!Places
<1>3. /\ frames' \in [Callers -> Seq(Errors!Frame)] /\ Nesting'
      /\ slot' = [slot EXCEPT ![Top(t)] = f]
  BY <1>1, <1>2, GotoStep
<1>4. slot[Top(t)] \in Errors!Frame /\ slot[Top(t)].cls = c /\ slot[Top(t)].at = "enter"
  BY <1>1, TopOf, Zenon
<1>5. f.at = q /\ f.cls = c /\ f # NoFrame
  BY <1>4 DEF Errors!Frame, NoFrame, Errors!Classes
<1>6. /\ initializing[c] \in Nat
      /\ initializing[c] = 0 <=>
           \A y \in Calls : ~ (slot[y].cls = c /\ slot[y].at \in Busy)
  BY CounterTells
<1>7. ASSUME ~ errorScenario.allocFails, q = "leave" PROVE MadeOrBusy(c)
  <2>1. PICK y \in Calls : slot[y].cls = c /\ slot[y].at \in Busy
    BY <1>6, <1>7
  <2>2. CASE slot[y].at \in Making
    BY <2>1, <2>2 DEF MadeOrBusy
  <2>3. CASE slot[y].at = "leave"
    BY <1>7, <2>1, <2>3 DEF NoneInVain
  <2>4. QED
    BY <2>1, <2>2, <2>3 DEF Busy
<1>8. q \in Making =>
        \A y \in Calls : ~ (slot[y].cls = c /\ slot[y].at \in Making)
  BY <1>6 DEF Making, Busy
<1>9. /\ q \in Busy /\ "enter" \notin Busy /\ q \notin {"store", "wait", "hung"}
      /\ c = "CopyError" => q # "test"
  BY DEF Busy, Making
<1> HIDE DEF q, f
<1>10. CountedIn' /\ initializing' \in [Errors!Classes -> Nat]
  <2>1. initializing \in [Errors!Classes -> Nat]
    BY DEF Errors!TypeOK
  <2>2. /\ initializing' \in [Errors!Classes -> Int]
        /\ \A d \in Errors!Classes :
             initializing'[d] = IF d = c THEN initializing[d] + 1 ELSE initializing[d]
    BY <1>1, <2>1
  <2>3. Top(t) \in Calls
    BY <1>1, TopOf, Zenon
  <2>4. QED
    BY <1>3, <1>4, <1>5, <1>9, <2>1, <2>2, <2>3, CountedInStep
<1>11. Top(t) \in Calls
  BY <1>1, TopOf, Zenon
<1>12. ASSUME ~ errorScenario.allocFails PROVE NoneInVain' /\ ParentThere'
  <2>1. NoneInVain'
    BY <1>1, <1>3, <1>4, <1>5, <1>7, <1>9, <1>11, <1>12, VainStep DEF Making
  <2>2. ParentThere'
    BY <1>1, <1>3, <1>5, <1>9, <1>11, <1>12, ParentStep
  <2>3. QED
    BY <2>1, <2>2
<1>13. /\ Errors!SuccessMeansReady'
       /\ returned' \in [Callers -> [cls : Errors!Classes, ret : {"none", "success", "error"}]]
  BY <1>1 DEF Errors!SuccessMeansReady, Errors!TypeOK
<1>14. QED
  BY <1>1, <1>3, <1>5, <1>8, <1>9, <1>10, <1>11, <1>12, <1>13, OneSlot

\* Asking for the parent.
LEMMA FindParentInv ==
  ASSUME ErrorsInv, NEW t \in Callers, Errors!FindParent(t)
  PROVE  ErrorsInv'
<1> USE DEF ErrorsInv
<1> DEFINE f == [slot[<<t, 1>>] EXCEPT !.at = "test"]
           e == Errors!NewFrame("Error")
<1>1. UNCHANGED <<made, creations, initializing, returned, errorScenario>>
  BY DEF Errors!FindParent
<1>2. /\ frames' \in [Callers -> Seq(Errors!Frame)] /\ Nesting'
      /\ slot[<<t, 1>>] \in Errors!Frame /\ slot[<<t, 1>>].at = "parent"
      /\ slot[<<t, 1>>].cls = "CopyError" /\ slot[<<t, 2>>] = NoFrame
      /\ \A y \in Calls :
           slot'[y] = IF y = <<t, 1>> THEN f
                      ELSE IF y = <<t, 2>> /\ "Error" \notin made THEN e ELSE slot[y]
  BY FindParentStep
<1>3. f.at = "test" /\ f.cls = "CopyError" /\ e.at = "check" /\ e # NoFrame
  BY <1>2 DEF Errors!Frame, Errors!NewFrame, NoFrame
<1> HIDE DEF f, e
<1>4. \A y \in Calls :
         /\ slot'[y].at \in Busy <=> slot[y].at \in Busy
         /\ slot'[y].at \in Making <=> slot[y].at \in Making
         /\ slot[y].at \in Busy => slot'[y].cls = slot[y].cls
         /\ slot[y].at \in Making => slot[y].at \in Busy
  <2>1. SUFFICES ASSUME NEW y \in Calls
                 PROVE  \/ slot'[y] = slot[y]
                        \/ /\ slot'[y].at = "test" /\ slot[y].at = "parent"
                           /\ slot'[y].cls = slot[y].cls
                        \/ slot'[y].at = "check" /\ slot[y].at = "none"
    BY DEF Busy, Making
  <2>2. CASE y = <<t, 1>>
    BY <1>2, <1>3, <2>2
  <2>3. CASE y = <<t, 2>> /\ "Error" \notin made
    BY <1>2, <1>3, <2>3 DEF NoFrame
  <2>4. QED
    BY <1>2, <2>2, <2>3
<1>5. CountedIn'
  <2>1. \A d : InCount(d)' = InCount(d)
    BY <1>4 DEF InCount, Calls
  <2>2. QED
    BY <1>1, <2>1 DEF CountedIn, Errors!Classes
<1>6. MakersAlone'
  BY <1>4 DEF MakersAlone, Calls
<1>7. MadeFresh'
  BY <1>1, <1>2, <1>3 DEF MadeFresh, Calls
<1>8. Errors!TypeOK' /\ Errors!SuccessMeansReady'
  BY <1>1, <1>2 DEF Errors!TypeOK, Errors!SuccessMeansReady
<1>9. ASSUME ~ errorScenario.allocFails PROVE NoneInVain' /\ ParentThere'
  <2>1. \A d : MadeOrBusy(d) => MadeOrBusy(d)'
    BY <1>1, <1>4 DEF MadeOrBusy, Calls
  <2>2. NoneInVain'
    BY <1>2, <1>3, <1>9, <2>1 DEF NoneInVain, Calls, Errors!Classes
  <2>3. ParentThere'
    <3>1. ASSUME NEW u \in Callers,
                 slot'[<<u, 1>>].cls = "CopyError", slot'[<<u, 1>>].at = "test",
                 slot'[<<u, 2>>] = NoFrame
          PROVE  "Error" \in made'
      <4>1. <<u, 1>> \in Calls /\ <<u, 2>> \in Calls
        BY DEF Calls
      <4>2. CASE u = t
        BY <1>1, <1>2, <1>3, <3>1, <4>1, <4>2
      <4>3. CASE u # t
        BY <1>1, <1>2, <1>9, <3>1, <4>1, <4>3 DEF ParentThere
      <4>4. QED
        BY <4>2, <4>3
    <3>2. QED
      BY <3>1 DEF ParentThere
  <2>4. QED
    BY <2>2, <2>3
<1>10. QED
  BY <1>1, <1>2, <1>5, <1>6, <1>7, <1>8, <1>9

\* The tests that see_meta_class_new_class makes.
LEMMA TestInv ==
  ASSUME ErrorsInv, NEW t \in Callers, NEW c \in Errors!Classes, Errors!Test(t, c)
  PROVE  ErrorsInv'
<1> USE DEF ErrorsInv
<1> DEFINE x == Top(t)
           refused == c \in made \/ (c = "CopyError" /\ "Error" \notin made)
           e == [cls |-> c, at |-> "leave", ret |-> "error"]
           g == [slot[x] EXCEPT !.at = "store"]
           f == IF refused THEN e ELSE g
<1>1. /\ Errors!At(t, "test", c)
      /\ UNCHANGED <<made, creations, initializing, returned, errorScenario>>
  BY DEF Errors!Test
<1>2. /\ x \in Calls /\ slot[x] \in Errors!Frame /\ slot[x].cls = c /\ slot[x].at = "test"
      /\ Depth(t) \in 1 .. 2 /\ (Depth(t) = 2 => c = "Error")
      /\ Depth(t) = 1 => slot[<<t, 2>>] = NoFrame
  BY <1>1, TopOf, ZenonT(30)
<1>3. /\ frames' \in [Callers -> Seq(Errors!Frame)] /\ Nesting'
      /\ slot' = [slot EXCEPT ![x] = f]
  <2>1. CASE refused
    <3>1. Errors!GotoError(t)
      BY <2>1 DEF Errors!Test
    <3>2. QED
      BY <1>1, <2>1, <3>1, GotoErrorStep
  <2>2. CASE ~ refused
    <3>1. Errors!Goto(t, "store") /\ "store" \in Errors!Places
      BY <2>2 DEF Errors!Test, Errors!Places
    <3>2. QED
      BY <1>1, <2>2, <3>1, GotoStep
  <2>3. QED
    BY <2>1, <2>2
<1>4. /\ f.cls = c /\ f # NoFrame
      /\ f.at = IF refused THEN "leave" ELSE "store"
  BY <1>2 DEF Errors!Frame, NoFrame, Errors!Classes
<1>5. c = "CopyError" /\ ~ errorScenario.allocFails => "Error" \in made
  <2>1. ASSUME c = "CopyError" PROVE Top(t) = <<t, 1>> /\ slot[<<t, 2>>] = NoFrame
    BY <1>2, <2>1 DEF Top
  <2>2. QED
    BY <1>2, <2>1 DEF ParentThere
<1> HIDE DEF x, f
<1>6. CountedIn' /\ initializing' \in [Errors!Classes -> Nat]
  BY <1>1, <1>2, <1>3, <1>4, CountedInSame DEF Busy, Making, Errors!TypeOK
<1>7. ASSUME ~ errorScenario.allocFails PROVE NoneInVain' /\ ParentThere'
  <2>1. NoneInVain'
    BY <1>1, <1>2, <1>3, <1>4, <1>5, <1>7, VainStep DEF Making
  <2>2. ParentThere'
    BY <1>1, <1>2, <1>3, <1>4, <1>7, ParentStep
  <2>3. QED
    BY <2>1, <2>2
<1>8. /\ Errors!SuccessMeansReady'
      /\ returned' \in [Callers -> [cls : Errors!Classes, ret : {"none", "success", "error"}]]
  BY <1>1 DEF Errors!SuccessMeansReady, Errors!TypeOK
<1>9. /\ f.at \in Making => slot[x].at \in Making /\ f.cls = slot[x].cls
      /\ f.at = "store" => f.cls \notin made
  BY <1>2, <1>4 DEF Making
<1>10. QED
  BY <1>1, <1>2, <1>3, <1>6, <1>7, <1>8, <1>9, OneSlot

\* new_cls makes the class, and nobody else was about to.
LEMMA StoreInv ==
  ASSUME ErrorsInv, NEW t \in Callers, NEW c \in Errors!Classes, Errors!Store(t, c)
  PROVE  ErrorsInv'
<1> USE DEF ErrorsInv
<1> DEFINE x == Top(t)
           f == [slot[x] EXCEPT !.at = "leave"]
<1>1. /\ Errors!At(t, "store", c) /\ Errors!Goto(t, "leave")
      /\ made' = made \cup {c} /\ creations' = [creations EXCEPT ![c] = @ + 1]
      /\ UNCHANGED <<initializing, returned, errorScenario>>
  BY DEF Errors!Store
<1>2. x \in Calls /\ slot[x] \in Errors!Frame /\ slot[x].cls = c /\ slot[x].at = "store"
  BY <1>1, TopOf, Zenon
<1>3. /\ frames' \in [Callers -> Seq(Errors!Frame)] /\ Nesting'
      /\ slot' = [slot EXCEPT ![x] = f]
  BY <1>1, GotoStep DEF Errors!Places
<1>4. f.cls = c /\ f.at = "leave" /\ f # NoFrame
  BY <1>2 DEF Errors!Frame, NoFrame, Errors!Classes
<1> HIDE DEF x, f
<1>5. \A y \in Calls : slot'[y] = IF y = x THEN f ELSE slot[y]
  BY <1>3 DEF slot
<1>6. CountedIn' /\ initializing' \in [Errors!Classes -> Nat]
  BY <1>1, <1>2, <1>3, <1>4, CountedInSame DEF Busy, Making, Errors!TypeOK
<1>7. c \notin made /\ creations[c] = 0
  BY <1>2 DEF MadeFresh
<1>8. Errors!TypeOK'
  BY <1>1, <1>3, <1>6 DEF Errors!TypeOK
<1>9. MakersAlone'
  BY <1>2, <1>4, <1>5 DEF MakersAlone, Calls, Making
<1>10. MadeFresh'
  <2>1. \A d \in Errors!Classes : creations'[d] = IF d \in made' THEN 1 ELSE 0
    BY <1>1, <1>7 DEF MadeFresh, Errors!TypeOK
  <2>2. ASSUME NEW y \in Calls, slot'[y].at = "store" PROVE slot'[y].cls \notin made'
    <3>1. y # x /\ slot'[y] = slot[y]
      BY <1>4, <1>5, <2>2
    <3>2. slot[y].cls # c
      BY <1>2, <2>2, <3>1 DEF MakersAlone, Making
    <3>3. QED
      BY <1>1, <2>2, <3>1, <3>2 DEF MadeFresh
  <2>3. QED
    BY <2>1, <2>2 DEF MadeFresh, Errors!Classes, Calls
<1>11. ASSUME ~ errorScenario.allocFails PROVE NoneInVain' /\ ParentThere'
  <2>1. NoneInVain'
    BY <1>1, <1>2, <1>3, <1>4, <1>11, VainStep DEF Making
  <2>2. ParentThere'
    BY <1>1, <1>2, <1>3, <1>4, <1>11, ParentStep
  <2>3. QED
    BY <2>1, <2>2
<1>12. Errors!SuccessMeansReady'
  BY <1>1 DEF Errors!SuccessMeansReady
<1>13. QED
  BY <1>1, <1>3, <1>6, <1>8, <1>9, <1>10, <1>11, <1>12

\* calloc fails: this happens only where it may.
LEMMA StoreFailsInv ==
  ASSUME ErrorsInv, NEW t \in Callers, NEW c \in Errors!Classes, Errors!StoreFails(t, c)
  PROVE  ErrorsInv'
<1> USE DEF ErrorsInv
<1> DEFINE x == Top(t)
           f == [cls |-> c, at |-> "leave", ret |-> "error"]
<1>1. /\ Errors!At(t, "store", c) /\ Errors!GotoError(t) /\ errorScenario.allocFails
      /\ UNCHANGED <<made, creations, initializing, returned, errorScenario>>
  BY DEF Errors!StoreFails
<1>2. x \in Calls /\ slot[x] \in Errors!Frame /\ slot[x].cls = c /\ slot[x].at = "store"
  BY <1>1, TopOf, Zenon
<1>3. /\ frames' \in [Callers -> Seq(Errors!Frame)] /\ Nesting'
      /\ slot' = [slot EXCEPT ![x] = f]
  BY <1>1, GotoErrorStep
<1>4. f.cls = c /\ f.at = "leave"
  OBVIOUS
<1> HIDE DEF x, f
<1>5. CountedIn' /\ initializing' \in [Errors!Classes -> Nat]
  BY <1>1, <1>2, <1>3, <1>4, CountedInSame DEF Busy, Making, Errors!TypeOK
<1>6. /\ Errors!SuccessMeansReady'
      /\ returned' \in [Callers -> [cls : Errors!Classes, ret : {"none", "success", "error"}]]
  BY <1>1 DEF Errors!SuccessMeansReady, Errors!TypeOK
<1>7. QED
  BY <1>1, <1>2, <1>3, <1>4, <1>5, <1>6, OneSlot DEF Making

\* Leaving, a call counts itself out.
LEMMA LeaveInv ==
  ASSUME ErrorsInv, NEW t \in Callers, NEW c \in Errors!Classes, Errors!Leave(t, c)
  PROVE  ErrorsInv'
<1> USE DEF ErrorsInv
<1> DEFINE x == Top(t)
           f == [slot[x] EXCEPT !.at = "wait"]
<1>1. /\ Errors!At(t, "leave", c) /\ Errors!Goto(t, "wait")
      /\ initializing' = [initializing EXCEPT ![c] = @ - 1]
      /\ UNCHANGED <<made, creations, returned, errorScenario>>
  BY DEF Errors!Leave
<1>2. x \in Calls /\ slot[x] \in Errors!Frame /\ slot[x].cls = c /\ slot[x].at = "leave"
  BY <1>1, TopOf, Zenon
<1>3. /\ frames' \in [Callers -> Seq(Errors!Frame)] /\ Nesting'
      /\ slot' = [slot EXCEPT ![x] = f]
  BY <1>1, GotoStep DEF Errors!Places
<1>4. f.cls = c /\ f.at = "wait" /\ f # NoFrame
  BY <1>2 DEF Errors!Frame, NoFrame, Errors!Classes
<1> HIDE DEF x, f
<1>5. CountedIn' /\ initializing' \in [Errors!Classes -> Nat]
  <2>1. initializing \in [Errors!Classes -> Nat]
    BY DEF Errors!TypeOK
  <2>2. /\ initializing' \in [Errors!Classes -> Int]
        /\ \A d \in Errors!Classes :
             initializing'[d] = IF d = c THEN initializing[d] - 1 ELSE initializing[d]
    BY <1>1, <2>1
  <2>3. "leave" \in Busy /\ "wait" \notin Busy
    BY DEF Busy, Making
  <2>4. QED
    BY <1>2, <1>3, <1>4, <2>1, <2>2, <2>3, CountedInStep
<1>6. ASSUME ~ errorScenario.allocFails PROVE NoneInVain' /\ ParentThere'
  <2>1. MadeOrBusy(c) /\ slot[x].at \notin Making
    BY <1>2, <1>6 DEF NoneInVain, Making
  <2>2. NoneInVain'
    BY <1>1, <1>2, <1>3, <1>4, <1>6, <2>1, VainStep
  <2>3. ParentThere'
    BY <1>1, <1>2, <1>3, <1>4, <1>6, ParentStep
  <2>4. QED
    BY <2>2, <2>3
<1>7. /\ Errors!SuccessMeansReady'
      /\ returned' \in [Callers -> [cls : Errors!Classes, ret : {"none", "success", "error"}]]
  BY <1>1 DEF Errors!SuccessMeansReady, Errors!TypeOK
<1>8. QED
  BY <1>1, <1>2, <1>3, <1>4, <1>5, <1>6, <1>7, OneSlot DEF Making

\* Nobody is counted in any more: the class is there, unless memory was short.
LEMMA ErrorsWaitInv ==
  ASSUME ErrorsInv, NEW t \in Callers, NEW c \in Errors!Classes, Errors!Wait(t, c)
  PROVE  ErrorsInv'
<1> USE DEF ErrorsInv
<1> DEFINE x == Top(t)
<1>1. /\ Errors!At(t, "wait", c) /\ initializing[c] = 0
      /\ Errors!Return(t, c, frames[t][Len(frames[t])].ret)
      /\ UNCHANGED <<made, creations, initializing, errorScenario>>
  BY DEF Errors!Wait
<1>2. /\ x \in Calls /\ slot[x] \in Errors!Frame /\ slot[x].cls = c /\ slot[x].at = "wait"
      /\ slot[x] = frames[t][Depth(t)]
      /\ Depth(t) \in 1 .. 2 /\ (Depth(t) = 2 => c = "Error")
  BY <1>1, TopOf, ZenonT(30)
<1>3. PICK r \in Results : Errors!Return(t, c, r)
  BY <1>1, <1>2 DEF Depth, Errors!Frame, Results
<1>4. /\ frames' \in [Callers -> Seq(Errors!Frame)] /\ Nesting'
      /\ slot' = [slot EXCEPT ![x] = NoFrame]
      /\ returned' \in [Callers -> [cls : Errors!Classes, ret : {"none", "success", "error"}]]
      /\ \A u \in Callers :
           \/ returned'[u] = returned[u]
           \/ u = t /\ returned'[u] = [cls |-> c, ret |-> r]
  BY <1>1, <1>3, ReturnStep
<1> HIDE DEF x
<1>5. NoFrame.at = "none" /\ NoFrame.cls = "none"
  BY DEF NoFrame
<1>6. CountedIn' /\ initializing' \in [Errors!Classes -> Nat]
  BY <1>1, <1>2, <1>4, <1>5, CountedInSame DEF Busy, Making, Errors!TypeOK
<1>7. ~ errorScenario.allocFails => c \in made
  <2>1. ~ errorScenario.allocFails => MadeOrBusy(c)
    BY <1>2 DEF NoneInVain
  <2>2. \A y \in Calls : ~ (slot[y].cls = c /\ slot[y].at \in Busy)
    BY <1>1, CounterTells
  <2>3. QED
    BY <2>1, <2>2 DEF MadeOrBusy, Busy
<1>8. Errors!SuccessMeansReady'
  <2>1. \A u \in Callers : returned'[u] = returned[u] \/ returned'[u].cls = c
    BY <1>4
  <2>2. QED
    BY <1>1, <1>7, <2>1 DEF Errors!SuccessMeansReady
<1>9. ASSUME ~ errorScenario.allocFails PROVE NoneInVain' /\ ParentThere'
  <2>1. NoneInVain'
    BY <1>1, <1>2, <1>4, <1>5, <1>9, VainStep DEF Making
  <2>2. ParentThere'
    <3>1. x[2] = 2 => c = "Error"
      BY <1>2 DEF x, Top
    <3>2. QED
      BY <1>1, <1>2, <1>4, <1>5, <1>7, <1>9, <3>1, ParentStep
  <2>3. QED
    BY <2>1, <2>2
<1>10. QED
  BY <1>1, <1>2, <1>4, <1>5, <1>6, <1>8, <1>9, OneSlot DEF Making

\* A loop that has loaded the counter once is stuck.
LEMMA ErrorsHangInv ==
  ASSUME ErrorsInv, NEW t \in Callers, Errors!WaitHangs(t)
  PROVE  ErrorsInv'
<1> USE DEF ErrorsInv
<1> DEFINE x == Top(t)
           f == [slot[x] EXCEPT !.at = "hung"]
           c == "CopyError"
<1>1. /\ Errors!At(t, "wait", c) /\ Errors!Goto(t, "hung")
      /\ UNCHANGED <<made, creations, initializing, returned, errorScenario>>
  BY DEF Errors!WaitHangs
<1>2. x \in Calls /\ slot[x] \in Errors!Frame /\ slot[x].cls = c /\ slot[x].at = "wait"
  BY <1>1, TopOf, Zenon
<1>3. /\ frames' \in [Callers -> Seq(Errors!Frame)] /\ Nesting'
      /\ slot' = [slot EXCEPT ![x] = f]
  BY <1>1, GotoStep DEF Errors!Places
<1>4. f.cls = c /\ f.at = "hung" /\ f # NoFrame /\ c \in Errors!Classes
  BY <1>2 DEF Errors!Frame, NoFrame, Errors!Classes
<1> HIDE DEF x, f
<1>5. CountedIn' /\ initializing' \in [Errors!Classes -> Nat]
  BY <1>1, <1>2, <1>3, <1>4, CountedInSame DEF Busy, Making, Errors!TypeOK
<1>6. ASSUME ~ errorScenario.allocFails PROVE NoneInVain' /\ ParentThere'
  <2>1. MadeOrBusy(c) /\ slot[x].at \notin Making
    BY <1>2, <1>4, <1>6 DEF NoneInVain, Making
  <2>2. NoneInVain'
    BY <1>1, <1>2, <1>3, <1>4, <1>6, <2>1, VainStep
  <2>3. ParentThere'
    BY <1>1, <1>2, <1>3, <1>4, <1>6, ParentStep
  <2>4. QED
    BY <2>2, <2>3
<1>7. /\ Errors!SuccessMeansReady'
      /\ returned' \in [Callers -> [cls : Errors!Classes, ret : {"none", "success", "error"}]]
  BY <1>1 DEF Errors!SuccessMeansReady, Errors!TypeOK
<1>8. QED
  BY <1>1, <1>2, <1>3, <1>4, <1>5, <1>6, <1>7, OneSlot DEF Making

\* Every step keeps the invariant.
LEMMA ErrorsNextInv == ErrorsInv /\ [Errors!Next]_(Errors!vars) => ErrorsInv'
<1> SUFFICES ASSUME ErrorsInv, [Errors!Next]_(Errors!vars) PROVE ErrorsInv'
  OBVIOUS
<1>1. CASE UNCHANGED Errors!vars
  <2>1. UNCHANGED <<made, creations, initializing, frames, returned, errorScenario>>
    BY <1>1 DEF Errors!vars
  <2>2. slot' = slot
    BY <2>1 DEF slot, Calls
  <2>3. Errors!TypeOK' /\ Nesting' /\ Errors!SuccessMeansReady'
    BY <2>1 DEF ErrorsInv, Errors!TypeOK, Nesting, Depth, Errors!SuccessMeansReady
  <2>4. CountedIn' /\ MakersAlone' /\ MadeFresh'
    BY <2>1, <2>2 DEF ErrorsInv, CountedIn, InCount, MakersAlone, MadeFresh, Calls, Errors!Classes
  <2>5. ~ errorScenario.allocFails => NoneInVain' /\ ParentThere'
    BY <2>1, <2>2 DEF ErrorsInv, NoneInVain, MadeOrBusy, ParentThere, Calls, Errors!Classes
  <2>6. QED
    BY <2>1, <2>3, <2>4, <2>5 DEF ErrorsInv
<1>2. CASE Errors!Next
  <2>1. PICK t \in Callers : Errors!Library(t) \/ \E c \in Errors!Classes : Errors!Call(t, c)
    BY <1>2 DEF Errors!Next
  <2>2. ASSUME NEW c \in Errors!Classes, Errors!Call(t, c) PROVE ErrorsInv'
    BY <2>2, CallInv
  <2>3. ASSUME NEW c \in Errors!Classes, Errors!Check(t, c) PROVE ErrorsInv'
    BY <2>3, CheckInv
  <2>4. ASSUME NEW c \in Errors!Classes, Errors!Enter(t, c) PROVE ErrorsInv'
    BY <2>4, EnterInv
  <2>5. ASSUME NEW c \in Errors!Classes, Errors!Test(t, c) PROVE ErrorsInv'
    BY <2>5, TestInv
  <2>6. ASSUME NEW c \in Errors!Classes, Errors!Store(t, c) PROVE ErrorsInv'
    BY <2>6, StoreInv
  <2>7. ASSUME NEW c \in Errors!Classes, Errors!StoreFails(t, c) PROVE ErrorsInv'
    BY <2>7, StoreFailsInv
  <2>8. ASSUME NEW c \in Errors!Classes, Errors!Leave(t, c) PROVE ErrorsInv'
    BY <2>8, LeaveInv
  <2>9. ASSUME NEW c \in Errors!Classes, Errors!Wait(t, c) PROVE ErrorsInv'
    BY <2>9, ErrorsWaitInv
  <2>10. CASE Errors!FindParent(t)
    BY <2>10, FindParentInv
  <2>11. CASE Errors!WaitHangs(t)
    BY <2>11, ErrorsHangInv
  <2>12. QED
    BY <2>1, <2>2, <2>3, <2>4, <2>5, <2>6, <2>7, <2>8, <2>9, <2>10, <2>11
    DEF Errors!Library
<1>3. QED
  BY <1>1, <1>2

\* What the invariant says of the counters and the makers in the words of ErrorInit.
LEMMA ErrorsInvImplies ==
  ASSUME ErrorsInv
  PROVE  /\ Errors!TypeOK /\ Errors!OneMaker /\ Errors!MadeOnce
         /\ Errors!CounterExact /\ Errors!SuccessMeansReady
<1> USE DEF ErrorsInv
<1>1. frames \in [Callers -> Seq(Errors!Frame)]
  BY DEF Errors!TypeOK
<1>2. ASSUME NEW t \in Callers, NEW i \in DOMAIN frames[t]
      PROVE  <<t, i>> \in Calls /\ slot[<<t, i>>] = frames[t][i]
  <2>1. frames[t] \in Seq(Errors!Frame) /\ Depth(t) <= 2
    BY <1>1 DEF Nesting
  <2>2. i \in Nat \ {0} /\ i <= 2
    BY <1>2, <2>1, LenProperties DEF Depth
  <2>3. <<t, i>> \in Calls
    BY <2>2, OneOrTwo DEF Calls
  <2>4. QED
    BY <1>2, <2>3 DEF slot
<1>3. Errors!OneMaker
  <2>1. SUFFICES ASSUME NEW t \in Callers, NEW u \in Callers,
                        NEW i \in DOMAIN frames[t], NEW j \in DOMAIN frames[u],
                        frames[t][i].cls = frames[u][j].cls,
                        frames[t][i].at \in Making, frames[u][j].at \in Making
                 PROVE  t = u /\ i = j
    BY DEF Errors!OneMaker, Making
  <2>2. /\ <<t, i>> \in Calls /\ slot[<<t, i>>] = frames[t][i]
        /\ <<u, j>> \in Calls /\ slot[<<u, j>>] = frames[u][j]
    BY <1>2
  <2>3. <<t, i>> = <<u, j>>
    BY <2>1, <2>2 DEF MakersAlone
  <2>4. QED
    BY <2>3
<1>4. Errors!MadeOnce
  BY DEF Errors!MadeOnce, MadeFresh
<1>5. Errors!CounterExact
  <2>1. ASSUME NEW c \in Errors!Classes PROVE Errors!Counted(c) = InCount(c)
    <3>1. ASSUME NEW x \in Calls PROVE x \in Errors!Counted(c) <=> x \in InCount(c)
      <4>1. x \in Errors!Counted(c) <=>
              /\ x[2] \in DOMAIN frames[x[1]]
              /\ frames[x[1]][x[2]].cls = c
              /\ frames[x[1]][x[2]].at \in {"parent", "test", "store", "leave"}
        BY DEF Errors!Counted, Calls
      <4>2. slot[x] = IF x[2] \in DOMAIN frames[x[1]] THEN frames[x[1]][x[2]] ELSE NoFrame
        BY DEF slot
      <4>3. NoFrame.at \notin Busy
        BY DEF NoFrame, Busy, Making
      <4>4. QED
        BY <4>1, <4>2, <4>3 DEF InCount, Busy, Making
    <3>2. Errors!Counted(c) \subseteq Calls /\ InCount(c) \subseteq Calls
      BY DEF Errors!Counted, InCount, Calls
    <3>3. QED
      BY <3>1, <3>2
  <2>2. ASSUME NEW S PROVE Errors!Cardinality(S) = Cardinality(S)
    BY DEF Errors!Cardinality, Cardinality
  <2>3. QED
    BY <2>1, <2>2 DEF CountedIn, Errors!CounterExact
<1>6. QED
  BY <1>3, <1>4, <1>5

\* A step leaves the frames of all calls but one, or two, alone.
LEMMA HangsNot ==
  ASSUME ErrorNeverHangs,
         \A x \in Calls : \/ slot'[x] = slot[x]
                         \/ slot'[x].cls # "Error"
                         \/ slot'[x].at # "hung"
  PROVE  ErrorNeverHangs'
BY DEF ErrorNeverHangs, Calls

\* Only see_copy_error_init hangs.
LEMMA ErrorNeverHangsStep ==
  ASSUME ErrorsInv, ErrorNeverHangs, [Errors!Next]_(Errors!vars)
  PROVE  ErrorNeverHangs'
<1>1. CASE UNCHANGED Errors!vars
  <2>1. slot' = slot
    BY <1>1 DEF Errors!vars, slot, Calls
  <2>2. QED
    BY <2>1 DEF ErrorNeverHangs, Calls
<1>2. ASSUME NEW t \in Callers, NEW c \in Errors!Classes,
             \/ Errors!Check(t, c) \/ Errors!Enter(t, c) \/ Errors!Test(t, c)
             \/ Errors!Store(t, c) \/ Errors!StoreFails(t, c) \/ Errors!Leave(t, c)
             \/ Errors!Wait(t, c)
      PROVE  ErrorNeverHangs'
  <2>1. PICK p \in Errors!Places : Errors!At(t, p, c)
    BY <1>2
    DEF Errors!Check, Errors!Enter, Errors!Test, Errors!Store, Errors!StoreFails,
        Errors!Leave, Errors!Wait, Errors!Places
  <2>2. Errors!TypeOK /\ Nesting
    BY DEF ErrorsInv
  <2>3. /\ Top(t) \in Calls /\ slot[Top(t)] = frames[t][Depth(t)]
        /\ slot[Top(t)] \in Errors!Frame /\ slot \in [Calls -> Errors!Frame \cup {NoFrame}]
    BY <2>1, <2>2, TopOf, SlotType, Zenon
  <2>4. ASSUME NEW q \in Errors!Places \ {"hung"}, Errors!Goto(t, q)
        PROVE  ErrorNeverHangs'
    <3>1. slot' = [slot EXCEPT ![Top(t)] = [slot[Top(t)] EXCEPT !.at = q]]
      BY <2>1, <2>2, <2>4, GotoStep
    <3>2. [slot[Top(t)] EXCEPT !.at = q].at # "hung"
      BY <2>3 DEF Errors!Frame
    <3>3. QED
      BY <2>3, <3>1, <3>2, HangsNot
  <2>5. ASSUME Errors!GotoError(t) PROVE ErrorNeverHangs'
    <3>1. slot' = [slot EXCEPT ![Top(t)] = [cls |-> c, at |-> "leave", ret |-> "error"]]
      BY <2>1, <2>2, <2>5, GotoErrorStep
    <3>2. QED
      BY <2>3, <3>1, HangsNot
  <2>6. ASSUME NEW r \in Results, Errors!Return(t, c, r) PROVE ErrorNeverHangs'
    <3>1. slot' = [slot EXCEPT ![Top(t)] = NoFrame]
      BY <2>1, <2>2, <2>6, ReturnStep
    <3>2. QED
      BY <2>3, <3>1, HangsNot DEF NoFrame
  <2>7. \/ \E q \in Errors!Places \ {"hung"} : Errors!Goto(t, q)
        \/ Errors!GotoError(t)
        \/ \E r \in Results : Errors!Return(t, c, r)
    <3>1. CASE Errors!Wait(t, c)
      <4>1. frames[t][Len(frames[t])].ret \in Results
        BY <2>3 DEF Errors!Frame, Results, Depth
      <4>2. QED
        BY <3>1, <4>1 DEF Errors!Wait
    <3>2. CASE Errors!Check(t, c)
      BY <3>2 DEF Errors!Check, Errors!Places, Results
    <3>3. CASE Errors!Enter(t, c)
      BY <3>3 DEF Errors!Enter, Errors!Places
    <3>4. CASE \/ Errors!Test(t, c) \/ Errors!Store(t, c) \/ Errors!StoreFails(t, c)
               \/ Errors!Leave(t, c)
      BY <3>4 DEF Errors!Test, Errors!Store, Errors!StoreFails, Errors!Leave, Errors!Places
    <3>5. QED
      BY <1>2, <3>1, <3>2, <3>3, <3>4
  <2>8. QED
    BY <2>4, <2>5, <2>6, <2>7
<1>3. ASSUME NEW t \in Callers, Errors!WaitHangs(t) PROVE ErrorNeverHangs'
  <2>1. Errors!At(t, "wait", "CopyError") /\ Errors!Goto(t, "hung")
    BY <1>3 DEF Errors!WaitHangs
  <2>2. /\ Top(t) \in Calls /\ slot[Top(t)] \in Errors!Frame
        /\ slot[Top(t)].cls = "CopyError"
        /\ slot \in [Calls -> Errors!Frame \cup {NoFrame}]
    BY <2>1, TopOf, SlotType, Zenon DEF ErrorsInv
  <2>3. slot' = [slot EXCEPT ![Top(t)] = [slot[Top(t)] EXCEPT !.at = "hung"]]
    BY <2>1, GotoStep DEF ErrorsInv, Errors!Places
  <2>4. [slot[Top(t)] EXCEPT !.at = "hung"].cls = "CopyError"
    BY <2>2 DEF Errors!Frame
  <2>5. QED
    BY <2>2, <2>3, <2>4, HangsNot
<1>4. ASSUME NEW t \in Callers, Errors!FindParent(t) PROVE ErrorNeverHangs'
  <2> DEFINE f == [slot[<<t, 1>>] EXCEPT !.at = "test"]
  <2>1. /\ slot[<<t, 1>>] \in Errors!Frame
        /\ \A x \in Calls :
             slot'[x] = IF x = <<t, 1>> THEN f
                        ELSE IF x = <<t, 2>> /\ "Error" \notin made
                             THEN Errors!NewFrame("Error") ELSE slot[x]
    BY <1>4, FindParentStep DEF ErrorsInv
  <2>2. f.at = "test" /\ Errors!NewFrame("Error").at = "check"
    BY <2>1 DEF Errors!Frame, Errors!NewFrame
  <2> HIDE DEF f
  <2>3. QED
    BY <2>1, <2>2, HangsNot
<1>5. ASSUME NEW t \in Callers, NEW c \in Errors!Classes, Errors!Call(t, c)
      PROVE  ErrorNeverHangs'
  <2>1. slot' = [slot EXCEPT ![<<t, 1>>] = Errors!NewFrame(c)]
    BY <1>5, CallStep DEF ErrorsInv, Errors!Call
  <2>2. Errors!NewFrame(c).at # "hung" /\ slot \in [Calls -> Errors!Frame \cup {NoFrame}]
    BY SlotType DEF Errors!NewFrame, ErrorsInv
  <2>3. QED
    BY <2>1, <2>2, HangsNot
<1>6. QED
  BY <1>1, <1>2, <1>3, <1>4, <1>5 DEF Errors!Next, Errors!Library

\* A counter that is not 0 has a call that is past the increment and not yet past
\* the decrement.
LEMMA SomebodyCounted ==
  ASSUME ErrorsInv, NEW c \in Errors!Classes, initializing[c] # 0
  PROVE  \E x \in Calls : slot[x].cls = c /\ slot[x].at \in Busy
<1>1. InCount(c) # {}
  BY FS_EmptySet DEF ErrorsInv, CountedIn
<1>2. QED
  BY <1>1 DEF InCount

\* A call that is under way has its frame in the stack of its thread.
LEMMA FrameOf ==
  ASSUME ErrorsInv, NEW x \in Calls, slot[x].at \in Busy
  PROVE  /\ x[1] \in Callers /\ frames[x[1]] # <<>>
         /\ Depth(x[1]) \in 1 .. 2 /\ x[2] \in 1 .. Depth(x[1])
         /\ frames[x[1]][x[2]] = slot[x]
<1>1. x[1] \in Callers /\ x[2] \in 1 .. 2 /\ frames[x[1]] \in Seq(Errors!Frame)
  BY DEF Calls, ErrorsInv, Errors!TypeOK
<1>2. x[2] \in DOMAIN frames[x[1]] /\ frames[x[1]][x[2]] = slot[x]
  BY DEF slot, NoFrame, Busy, Making
<1>3. /\ Depth(x[1]) \in Nat /\ DOMAIN frames[x[1]] = 1 .. Depth(x[1])
      /\ Depth(x[1]) <= 2
  BY <1>1, LenProperties DEF Depth, ErrorsInv, Nesting
<1>4. Depth(x[1]) \in 1 .. 2
  BY <1>2, <1>3, <1>1
<1>5. QED
  BY <1>1, <1>2, <1>3, <1>4

\* Such a call of see_error_init is its thread's innermost, and goes on.
LEMMA ErrorGoesOn ==
  ASSUME ErrorsInv, initializing["Error"] # 0
  PROVE  \E u \in Callers : frames[u] # <<>> /\ ~ Errors!Blocked(u)
<1>1. PICK x \in Calls : slot[x].cls = "Error" /\ slot[x].at \in Busy
  BY SomebodyCounted DEF Errors!Classes
<1>2. /\ x[1] \in Callers /\ frames[x[1]] # <<>>
      /\ Depth(x[1]) \in 1 .. 2 /\ x[2] \in 1 .. Depth(x[1])
      /\ frames[x[1]][x[2]] = slot[x]
  BY <1>1, FrameOf
<1>3. x[2] = Depth(x[1])
  BY <1>1, <1>2 DEF ErrorsInv, Nesting
<1>4. ~ Errors!Blocked(x[1])
  BY <1>1, <1>2, <1>3 DEF Errors!Blocked, Errors!At, Depth, Busy, Making
<1>5. QED
  BY <1>2, <1>4

\* One of see_copy_error_init is the innermost, too, or waits inside for a call
\* of see_error_init.
LEMMA SomebodyGoesOn == ErrorsInv /\ ErrorNeverHangs => Errors!NoneBlockedForEver
<1> SUFFICES ASSUME ErrorsInv, ErrorNeverHangs, NEW c \in Errors!Classes,
                    initializing[c] # 0
             PROVE  \E u \in Callers : frames[u] # <<>> /\ ~ Errors!Blocked(u)
  BY DEF Errors!NoneBlockedForEver
<1>1. CASE initializing["Error"] # 0
  BY <1>1, ErrorGoesOn
<1>2. CASE initializing["Error"] = 0
  <2>1. PICK x \in Calls : slot[x].cls = c /\ slot[x].at \in Busy
    BY SomebodyCounted
  <2>2. /\ x[1] \in Callers /\ frames[x[1]] # <<>>
        /\ Depth(x[1]) \in 1 .. 2 /\ x[2] \in 1 .. Depth(x[1])
        /\ frames[x[1]][x[2]] = slot[x]
    BY <2>1, FrameOf
  <2>3. CASE x[2] = Depth(x[1])
    BY <2>1, <2>2, <2>3 DEF Errors!Blocked, Errors!At, Depth, Busy, Making
  <2>4. CASE x[2] # Depth(x[1])
    <3>1. frames[x[1]][Depth(x[1])].cls = "Error"
      BY <2>2, <2>4 DEF ErrorsInv, Nesting
    <3>2. frames[x[1]][Depth(x[1])].at # "hung"
      <4>1. /\ <<x[1], Depth(x[1])>> \in Calls
            /\ Depth(x[1]) \in DOMAIN frames[x[1]]
        BY <2>2, LenProperties DEF Calls, Depth, ErrorsInv, Errors!TypeOK
      <4>2. slot[<<x[1], Depth(x[1])>>] = frames[x[1]][Depth(x[1])]
        BY <4>1 DEF slot
      <4>3. QED
        BY <3>1, <4>1, <4>2 DEF ErrorNeverHangs
    <3>3. ~ Errors!Blocked(x[1])
      BY <1>2, <3>1, <3>2 DEF Errors!Blocked, Errors!At, Depth
    <3>4. QED
      BY <2>2, <3>3
  <2>5. QED
    BY <2>3, <2>4
<1>3. QED
  BY <1>1, <1>2 DEF ErrorsInv, Errors!TypeOK, Errors!Classes

-----------------------------------------------------------------------------
(* Classes as tables: what their declarations have in common *)

ErrorNames ==
  {"Error", "CopyError", "IncomparableError", "IndexError", "MsgInvalidError",
   "MsgPartTypeError", "OverflowError", "RuntimeError", "TimeoutError",
   "WindowsRuntimeError"}
Names ==
  {"Meta"} \cup ErrorNames \cup {"DynamicArray", "Stack"} \cup {"MsgPart", "MsgBuffer"}
    \cup {"Serial", "PosixSerial", "WindowsSerial"}
    \cup {"Clock", "Duration", "TimePoint", "Random"}

\* The classes that some object is made of, or derived from one of them.
Roots == DOMAIN Make

\* The classes of the library.
LEMMA ClassesAre ==
  /\ DOMAIN Declared = Names /\ Classes = Names \cup {"Object"} /\ "Object" \notin Names
  /\ Roots = (Names \cup {"Object"}) \ {"Meta"}
BY DEF Declared, Names, ErrorNames, Classes, Make, Roots

\* A class is a copy of its parent, which is one of three, and no deeper than the
\* third; and it sets its init method.
LEMMA ParentIs ==
  ASSUME NEW c \in Names
  PROVE  LET d == Declared[c]
         IN  /\ d.copies = d.parent /\ d.parent \in {"Object", "Error", "Serial"}
             /\ d.parent # "Object" => Declared[d.parent].parent = "Object"
             /\ "init" \in d.sets
BY DEF Names, ErrorNames, Declared, Class, MetaClass, ErrorClass, CopyErrorClass,
       IncomparableErrorClass, IndexErrorClass, MsgInvalidErrorClass,
       MsgPartTypeErrorClass, OverflowErrorClass, RuntimeErrorClass,
       TimeoutErrorClass, WindowsRuntimeErrorClass, ErrorSubclass,
       DynamicArrayClass, StackClass, MsgPartClass, MsgBufferClass, SerialClass,
       PosixSerialClass, WindowsSerialClass, ClockClass, DurationClass,
       TimePointClass, RandomClass

\* A class sets what its struct has.
LEMMA SetsOwn ==
  ASSUME NEW c \in Names
  PROVE  LET d == Declared[c]
         IN  d.sets \subseteq ObjectSlots \cup d.own \cup
               IF d.parent = "Object" THEN {} ELSE Declared[d.parent].own
<1>1. CASE c \in {"Meta"}
  BY <1>1 DEF ObjectSlots, ObjectLifeSlots, Comparisons, Declared, Class, MetaClass,
              MetaSlots
<1>2. CASE c \in ErrorNames
  BY <1>2 DEF ObjectSlots, ObjectLifeSlots, Comparisons, Declared, Class,
              ErrorNames, ErrorClass, CopyErrorClass, IncomparableErrorClass,
              IndexErrorClass, MsgInvalidErrorClass, MsgPartTypeErrorClass,
              OverflowErrorClass, RuntimeErrorClass, TimeoutErrorClass,
              WindowsRuntimeErrorClass, ErrorSubclass, ErrorSlots, CopyErrorSlots,
              IncomparableErrorSlots, IndexErrorSlots, MsgInvalidErrorSlots,
              MsgPartTypeErrorSlots, OverflowErrorSlots, RuntimeErrorSlots,
              TimeoutErrorSlots, WindowsRuntimeErrorSlots
<1>3. CASE c \in {"DynamicArray", "Stack"}
  BY <1>3 DEF ObjectSlots, ObjectLifeSlots, Comparisons, Declared, Class,
              DynamicArrayClass, StackClass, ArrayElementSlots, ArrayStorageSlots,
              StackSlots
<1>4. CASE c \in {"MsgPart", "MsgBuffer"}
  BY <1>4 DEF ObjectSlots, ObjectLifeSlots, Comparisons, Declared, Class,
              MsgPartClass, MsgBufferClass, PartIntegerSlots, PartOtherSlots,
              PartWireSlots, MsgPartSlots, MsgBufferPartSlots, MsgBufferWireSlots
<1>5. CASE c \in {"Serial", "PosixSerial", "WindowsSerial"}
  BY <1>5 DEF ObjectSlots, ObjectLifeSlots, Comparisons, Declared, Class,
              SerialClass, PosixSerialClass, WindowsSerialClass, DeviceMethods,
              SerialSlots, SerialDeviceSlots, SerialSettingSlots, SerialMessageSlots
<1>6. CASE c \in {"Clock", "Duration", "TimePoint", "Random"}
  BY <1>6 DEF ObjectSlots, ObjectLifeSlots, Comparisons, Declared, Class,
              ClockClass, DurationClass, TimePointClass, RandomClass, ClockSlots,
              DurationSlots, TimePointSlots, RandomSlots
<1>7. QED
  BY <1>1, <1>2, <1>3, <1>4, <1>5, <1>6 DEF Names, ErrorNames

\* What it does not set of the slots it adds is set by those derived from it: no
\* object is made of SeeSerial itself.
LEMMA OwnIsSet ==
  ASSUME NEW c \in Names \ {"Serial"}
  PROVE  LET d == Declared[c]
         IN  /\ d.own \subseteq d.sets \cup {"to_string"}
             /\ d.parent # "Object" =>
                  Declared[d.parent].own \subseteq Declared[d.parent].sets \cup d.sets
<1>1. CASE c \in {"Meta"}
  BY <1>1 DEF Declared, Class, MetaClass, MetaSlots
<1>2. CASE c \in ErrorNames
  BY <1>2 DEF Declared, Class, ErrorNames, ErrorClass, CopyErrorClass,
              IncomparableErrorClass, IndexErrorClass, MsgInvalidErrorClass,
              MsgPartTypeErrorClass, OverflowErrorClass, RuntimeErrorClass,
              TimeoutErrorClass, WindowsRuntimeErrorClass, ErrorSubclass,
              ErrorSlots, CopyErrorSlots, IncomparableErrorSlots, IndexErrorSlots,
              MsgInvalidErrorSlots, MsgPartTypeErrorSlots, OverflowErrorSlots,
              RuntimeErrorSlots, TimeoutErrorSlots, WindowsRuntimeErrorSlots
<1>3. CASE c \in {"DynamicArray", "Stack"}
  BY <1>3 DEF Declared, Class, DynamicArrayClass, StackClass, ArrayElementSlots,
              ArrayStorageSlots, StackSlots
<1>4. CASE c \in {"MsgPart", "MsgBuffer"}
  BY <1>4 DEF Declared, Class, MsgPartClass, MsgBufferClass, PartIntegerSlots,
              PartOtherSlots, PartWireSlots, MsgPartSlots, MsgBufferPartSlots,
              MsgBufferWireSlots
<1>5. CASE c \in {"Serial", "PosixSerial", "WindowsSerial"}
  BY <1>5 DEF Declared, Class, SerialClass, PosixSerialClass, WindowsSerialClass,
              DeviceMethods, SerialSlots, SerialDeviceSlots, SerialSettingSlots,
              SerialMessageSlots
<1>6. CASE c \in {"Clock", "Duration", "TimePoint", "Random"}
  BY <1>6 DEF Declared, Class, ClockClass, DurationClass, TimePointClass,
              RandomClass, ClockSlots, DurationSlots, TimePointSlots, RandomSlots
<1>7. QED
  BY <1>1, <1>2, <1>3, <1>4, <1>5, <1>6 DEF Names, ErrorNames

\* The initialiser slots.
SlotNames ==
  [Object |-> "object_init", Error |-> "error_init", CopyError |-> "copy_error_init",
   IncomparableError |-> "incomparable_error_init", IndexError |-> "index_error_init",
   MsgInvalidError |-> "msg_invalid_error_init",
   MsgPartTypeError |-> "msg_part_type_error_init",
   OverflowError |-> "overflow_error_init", RuntimeError |-> "runtime_error_init",
   TimeoutError |-> "timeout_error_init",
   WindowsRuntimeError |-> "windows_runtime_error_init",
   DynamicArray |-> "array_init", Stack |-> "stack_init",
   MsgPart |-> "msg_part_init", MsgBuffer |-> "msg_buffer_init",
   Serial |-> "serial_init", PosixSerial |-> "posix_serial_init",
   WindowsSerial |-> "windows_serial_init", Clock |-> "clock_init",
   Duration |-> "duration_init", TimePoint |-> "time_point_init",
   Random |-> "random_init"]
InitSlots ==
  {"object_init", "error_init", "copy_error_init", "incomparable_error_init",
   "index_error_init", "msg_invalid_error_init", "msg_part_type_error_init",
   "overflow_error_init", "runtime_error_init", "timeout_error_init",
   "windows_runtime_error_init", "array_init", "stack_init", "msg_part_init",
   "msg_buffer_init", "serial_init", "posix_serial_init", "windows_serial_init",
   "clock_init", "duration_init", "time_point_init", "random_init"}

\* The slot that the init method of a class calls.
LEMMA SlotIs ==
  ASSUME NEW c \in Roots
  PROVE  /\ Make[c].slot = SlotNames[c] /\ Make[c].slot \in InitSlots
         /\ c # "Object" => Make[c].calls = Make[Declared[c].parent].slot
<1>1. Make[c].slot = SlotNames[c] /\ SlotNames[c] \in InitSlots
  BY DEF SlotNames, InitSlots, Roots, Make, MakeError, MakeCopyError,
         MakeIncomparableError, MakeIndexError, MakeMsgInvalidError,
         MakeMsgPartTypeError, MakeOverflowError, MakeRuntimeError,
         MakeTimeoutError, MakeWindowsRuntimeError, MakeObject, MakeDynamicArray,
         MakeStack, MakeMsgPart, MakeMsgBuffer, MakeSerial, MakePosixSerial,
         MakeWindowsSerial, MakeClock, MakeDuration, MakeTimePoint, MakeRandom,
         Constructor, ErrorConstructor
<1>2. c # "Object" => Make[c].calls = Make[Declared[c].parent].slot
  BY DEF Roots, Make, MakeError, MakeCopyError, MakeIncomparableError,
         MakeIndexError, MakeMsgInvalidError, MakeMsgPartTypeError,
         MakeOverflowError, MakeRuntimeError, MakeTimeoutError,
         MakeWindowsRuntimeError, MakeObject, MakeDynamicArray, MakeStack,
         MakeMsgPart, MakeMsgBuffer, MakeSerial, MakePosixSerial, MakeWindowsSerial,
         MakeClock, MakeDuration, MakeTimePoint, MakeRandom, Constructor,
         ErrorConstructor, Declared, Class, MetaClass, ErrorClass, CopyErrorClass,
         IncomparableErrorClass, IndexErrorClass, MsgInvalidErrorClass,
         MsgPartTypeErrorClass, OverflowErrorClass, RuntimeErrorClass,
         TimeoutErrorClass, WindowsRuntimeErrorClass, ErrorSubclass,
         DynamicArrayClass, StackClass, MsgPartClass, MsgBufferClass, SerialClass,
         PosixSerialClass, WindowsSerialClass, ClockClass, DurationClass,
         TimePointClass, RandomClass
<1>3. QED
  BY <1>1, <1>2

\* Two classes have two slots.
LEMMA SlotIsUnique ==
  ASSUME NEW c \in Roots, NEW d \in Roots, Make[c].slot = Make[d].slot
  PROVE  c = d
<1>1. SlotNames[c] = SlotNames[d]
  BY SlotIs
<1>2. QED
  BY <1>1 DEF SlotNames, Roots, Make

\* Of the initialiser slots a class sets its own, and no other.
LEMMA SetsOneSlot ==
  ASSUME NEW c \in Names
  PROVE  Declared[c].sets \cap InitSlots = IF c = "Meta" THEN {} ELSE {SlotNames[c]}
<1>1. CASE c \in {"Meta"}
  BY <1>1 DEF SlotNames, InitSlots, Declared, Class, MetaClass, MetaSlots
<1>2. CASE c \in ErrorNames
  BY <1>2 DEF SlotNames, InitSlots, Declared, Class, ErrorNames, ErrorClass,
              CopyErrorClass, IncomparableErrorClass, IndexErrorClass,
              MsgInvalidErrorClass, MsgPartTypeErrorClass, OverflowErrorClass,
              RuntimeErrorClass, TimeoutErrorClass, WindowsRuntimeErrorClass,
              ErrorSubclass, ErrorSlots, CopyErrorSlots, IncomparableErrorSlots,
              IndexErrorSlots, MsgInvalidErrorSlots, MsgPartTypeErrorSlots,
              OverflowErrorSlots, RuntimeErrorSlots, TimeoutErrorSlots,
              WindowsRuntimeErrorSlots
<1>3. CASE c \in {"DynamicArray", "Stack"}
  BY <1>3 DEF SlotNames, InitSlots, Declared, Class, DynamicArrayClass, StackClass,
              ArrayElementSlots, ArrayStorageSlots, StackSlots
<1>4. CASE c \in {"MsgPart", "MsgBuffer"}
  BY <1>4 DEF SlotNames, InitSlots, Declared, Class, MsgPartClass, MsgBufferClass,
              PartIntegerSlots, PartOtherSlots, PartWireSlots, MsgPartSlots,
              MsgBufferPartSlots, MsgBufferWireSlots
<1>5. CASE c \in {"Serial", "PosixSerial", "WindowsSerial"}
  BY <1>5 DEF SlotNames, InitSlots, Declared, Class, SerialClass, PosixSerialClass,
              WindowsSerialClass, DeviceMethods, SerialSlots, SerialDeviceSlots,
              SerialSettingSlots, SerialMessageSlots
<1>6. CASE c \in {"Clock", "Duration", "TimePoint", "Random"}
  BY <1>6 DEF SlotNames, InitSlots, Declared, Class, ClockClass, DurationClass,
              TimePointClass, RandomClass, ClockSlots, DurationSlots,
              TimePointSlots, RandomSlots
<1>7. QED
  BY <1>1, <1>2, <1>3, <1>4, <1>5, <1>6 DEF Names, ErrorNames

\* The members that the code of class c takes.
TakenBy(c) == Range(Make[c].takes) \cup AcquiresLater(c)

\* The classes whose initialisers take members.
Takers ==
  {"Error", "Stack", "MsgBuffer", "Serial", "Clock", "Duration", "TimePoint", "Random"}

\* The members they take.
LEMMA TakesAre ==
  /\ Make["Error"].takes = <<"msg">> /\ Make["Stack"].takes = <<"array">>
  /\ Make["MsgBuffer"].takes = <<"parts">> /\ Make["Serial"].takes = <<"fd">>
  /\ Make["Clock"].takes = <<"base_time", "priv_clk">>
  /\ Make["Duration"].takes = <<"priv_dur">>
  /\ Make["TimePoint"].takes = <<"priv_time">> /\ Make["Random"].takes = <<"priv">>
  /\ \A c \in Roots \ Takers : Make[c].takes = <<>>
<1>1. /\ Make["Error"].takes = <<"msg">> /\ Make["Stack"].takes = <<"array">>
      /\ Make["MsgBuffer"].takes = <<"parts">> /\ Make["Serial"].takes = <<"fd">>
      /\ Make["Clock"].takes = <<"base_time", "priv_clk">>
      /\ Make["Duration"].takes = <<"priv_dur">>
      /\ Make["TimePoint"].takes = <<"priv_time">> /\ Make["Random"].takes = <<"priv">>
  BY DEF Make, Constructor, MakeError, MakeStack, MakeMsgBuffer, MakeSerial,
         MakeClock, MakeDuration, MakeTimePoint, MakeRandom
<1>2. ASSUME NEW c \in Roots \ Takers PROVE Make[c].takes = <<>>
  BY DEF Takers, Roots, Make, MakeCopyError, MakeIncomparableError, MakeIndexError,
         MakeMsgInvalidError, MakeMsgPartTypeError, MakeOverflowError,
         MakeRuntimeError, MakeTimeoutError, MakeWindowsRuntimeError, MakeObject,
         MakeDynamicArray, MakeMsgPart, MakePosixSerial, MakeWindowsSerial,
         Constructor, ErrorConstructor
<1>3. QED
  BY <1>1, <1>2

\* The elements of short sequences.
LEMMA FewElements ==
  \A a, b : Range(<<>>) = {} /\ Range(<<a>>) = {a} /\ Range(<<a, b>>) = {a, b}
BY DEF Range

\* The destroy method of a class releases what the code of that class takes.
LEMMA TakenIsReleased == ASSUME NEW c \in Roots PROVE TakenBy(c) \subseteq Releases(c)
<1>1. Range(Make[c].takes) \subseteq Releases(c)
  <2>1. /\ Releases("Error") = {"msg"} /\ Releases("Stack") = {"array"}
        /\ Releases("MsgBuffer") = {"parts"} /\ Releases("Serial") = {"fd"}
        /\ Releases("Clock") = {"base_time", "priv_clk"}
        /\ Releases("Duration") = {"priv_dur"} /\ Releases("TimePoint") = {"priv_time"}
        /\ Releases("Random") = {"priv"}
    BY DEF Releases
  <2>2. /\ Range(Make["Error"].takes) = {"msg"} /\ Range(Make["Stack"].takes) = {"array"}
        /\ Range(Make["MsgBuffer"].takes) = {"parts"}
        /\ Range(Make["Serial"].takes) = {"fd"}
        /\ Range(Make["Clock"].takes) = {"base_time", "priv_clk"}
        /\ Range(Make["Duration"].takes) = {"priv_dur"}
        /\ Range(Make["TimePoint"].takes) = {"priv_time"}
        /\ Range(Make["Random"].takes) = {"priv"}
    BY TakesAre, FewElements
  <2>3. CASE c \in Takers
    BY <2>1, <2>2, <2>3 DEF Takers
  <2>4. CASE c \notin Takers
    BY <2>4, TakesAre, FewElements
  <2>5. QED
    BY <2>3, <2>4
<1>2. AcquiresLater(c) \subseteq Releases(c)
  BY DEF AcquiresLater, Releases
<1>3. QED
  BY <1>1, <1>2 DEF TakenBy

\* A class without one takes nothing, and its parent has one.
LEMMA DestroyersAre ==
  ASSUME NEW c \in Names \ {"Meta"}
  PROVE  LET p == Declared[c].parent
         IN  /\ "destroy" \in Declared[c].sets => p = "Object"
             /\ "destroy" \notin Declared[c].sets =>
                  p # "Object" /\ "destroy" \in Declared[p].sets /\ TakenBy(c) = {}
<1> DEFINE Without == (ErrorNames \ {"Error"}) \cup {"PosixSerial", "WindowsSerial"}
<1>1. ASSUME c \in Without
      PROVE  /\ "destroy" \notin Declared[c].sets
             /\ Declared[c].parent = IF c \in ErrorNames THEN "Error" ELSE "Serial"
  <2>1. CASE c \in ErrorNames
    BY <1>1, <2>1 DEF ErrorNames, Declared, Class, ErrorClass, CopyErrorClass,
                      IncomparableErrorClass, IndexErrorClass, MsgInvalidErrorClass,
                      MsgPartTypeErrorClass, OverflowErrorClass, RuntimeErrorClass,
                      TimeoutErrorClass, WindowsRuntimeErrorClass, ErrorSubclass,
                      ErrorSlots, CopyErrorSlots, IncomparableErrorSlots,
                      IndexErrorSlots, MsgInvalidErrorSlots, MsgPartTypeErrorSlots,
                      OverflowErrorSlots, RuntimeErrorSlots, TimeoutErrorSlots,
                      WindowsRuntimeErrorSlots
  <2>2. CASE c \in {"Serial", "PosixSerial", "WindowsSerial"}
    BY <1>1, <2>2 DEF ErrorNames, Declared, Class, SerialClass, PosixSerialClass,
                      WindowsSerialClass, DeviceMethods, SerialSlots,
                      SerialDeviceSlots, SerialSettingSlots, SerialMessageSlots
  <2>3. QED
    BY <1>1, <2>1, <2>2
<1>2. /\ "destroy" \in Declared["Error"].sets /\ Declared["Error"].parent = "Object"
      /\ "destroy" \in Declared["Serial"].sets /\ Declared["Serial"].parent = "Object"
  BY DEF Declared, Class, ErrorClass, SerialClass
<1>3. ASSUME c \notin Without
      PROVE  "destroy" \in Declared[c].sets /\ Declared[c].parent = "Object"
  <2>1. c \in {"DynamicArray", "Stack", "MsgPart", "MsgBuffer", "Clock", "Duration",
               "TimePoint", "Random"} =>
          "destroy" \in Declared[c].sets /\ Declared[c].parent = "Object"
    BY DEF Declared, Class, DynamicArrayClass, StackClass, MsgPartClass,
           MsgBufferClass, ClockClass, DurationClass, TimePointClass, RandomClass
  <2>2. QED
    BY <1>2, <1>3, <2>1 DEF Names, ErrorNames
<1>4. ASSUME c \in Without PROVE TakenBy(c) = {}
  <2>1. Make[c].takes = <<>>
    BY <1>4, TakesAre, ClassesAre DEF ErrorNames, Takers
  <2>2. AcquiresLater(c) = {}
    BY <1>4 DEF AcquiresLater, ErrorNames
  <2>3. QED
    BY <2>1, <2>2, FewElements DEF TakenBy
<1>5. QED
  BY <1>1, <1>2, <1>3, <1>4

-----------------------------------------------------------------------------
(* Classes as tables: chains, and the methods that are found along them *)

Parent(c) == Declared[c].parent

\* Chain is what its definition says.
LEMMA ChainExists ==
  Chain = [c \in Classes |->
             IF c = "Object" THEN <<c>> ELSE <<c>> \o Chain[Parent(c)]]
<1> DEFINE W == [c \in Classes |->
                   IF c = "Object" THEN <<c>>
                   ELSE IF Parent(c) = "Object" THEN <<c>> \o <<"Object">>
                   ELSE <<c>> \o (<<Parent(c)>> \o <<"Object">>)]
<1>1. ASSUME NEW c \in Classes, c # "Object" PROVE W[c] = <<c>> \o W[Parent(c)]
  <2>1. c \in Names /\ Parent(c) \in {"Object", "Error", "Serial"}
    BY <1>1, ClassesAre, ParentIs DEF Parent
  <2>2. Parent(c) \in Classes /\ Parent(c) # "Object" => Parent(Parent(c)) = "Object"
    BY <2>1, ClassesAre, ParentIs DEF Parent, Names, ErrorNames
  <2>3. "Object" \in Classes /\ "Error" \in Classes /\ "Serial" \in Classes
    BY ClassesAre DEF Names, ErrorNames
  <2>4. QED
    BY <1>1, <2>1, <2>2, <2>3
<1>2. W = [c \in Classes |-> IF c = "Object" THEN <<c>> ELSE <<c>> \o W[Parent(c)]]
  BY <1>1
<1> HIDE DEF W
<1>3. QED
  BY <1>2, Zenon DEF Chain, Parent

\* Putting one element before one or two.
LEMMA PutBefore ==
  ASSUME NEW a, NEW b, NEW d
  PROVE  <<a>> \o <<b>> = <<a, b>> /\ <<a>> \o <<b, d>> = <<a, b, d>>
<1> DEFINE M == {a, b, d}
<1>1. /\ <<a>> \in Seq(M) /\ <<b>> \in Seq(M) /\ <<b, d>> \in Seq(M)
      /\ <<a, b>> \in Seq(M) /\ <<a, b, d>> \in Seq(M)
  OBVIOUS
<1>2. <<a>> \o <<b>> = <<a, b>>
  <2> DEFINE s == <<a>> \o <<b>>
             u == <<a, b>>
  <2>1. /\ s \in Seq(M) /\ u \in Seq(M) /\ Len(s) = 2 /\ Len(u) = 2
        /\ s[1] = a /\ s[2] = b /\ u[1] = a /\ u[2] = b
    BY <1>1
  <2> HIDE DEF s, u, M
  <2>2. Len(s) = Len(u) /\ \A i \in 1 .. Len(s) : s[i] = u[i]
    BY <2>1
  <2>3. s = u
    BY <2>1, <2>2, SeqEqual
  <2>4. QED
    BY <2>3 DEF s, u
<1>3. <<a>> \o <<b, d>> = <<a, b, d>>
  <2> DEFINE s == <<a>> \o <<b, d>>
             u == <<a, b, d>>
  <2>1. /\ s \in Seq(M) /\ u \in Seq(M) /\ Len(s) = 3 /\ Len(u) = 3
        /\ s[1] = a /\ s[2] = b /\ s[3] = d /\ u[1] = a /\ u[2] = b /\ u[3] = d
    BY <1>1
  <2> HIDE DEF s, u, M
  <2>2. Len(s) = Len(u) /\ \A i \in 1 .. Len(s) : s[i] = u[i]
    BY <2>1
  <2>3. s = u
    BY <2>1, <2>2, SeqEqual
  <2>4. QED
    BY <2>3 DEF s, u
<1>4. QED
  BY <1>2, <1>3

\* A chain is that of the parent and the class before it; it has at most three.
LEMMA ChainIs ==
  ASSUME NEW c \in Names
  PROVE  /\ Parent(c) \in {"Object", "Error", "Serial"} /\ Parent(c) \in Classes
         /\ Parent(c) = "Object" => Chain[c] = <<c, "Object">>
         /\ Parent(c) # "Object" =>
              Parent(Parent(c)) = "Object" /\ Chain[c] = <<c, Parent(c), "Object">>
<1>1. /\ Parent(c) \in {"Object", "Error", "Serial"} /\ Parent(c) \in Classes
      /\ Parent(c) # "Object" =>
           Parent(c) \in Names /\ Parent(Parent(c)) = "Object"
  BY ClassesAre, ParentIs DEF Parent, Names, ErrorNames
<1>2. /\ \A d \in Names : Chain[d] = <<d>> \o Chain[Parent(d)]
      /\ Chain["Object"] = <<"Object">>
  <2>1. \A d \in Classes : Chain[d] = IF d = "Object" THEN <<d>> ELSE <<d>> \o Chain[Parent(d)]
    BY ChainExists
  <2>2. QED
    BY <2>1, ClassesAre
<1>3. \A d \in Names : Parent(d) = "Object" => Chain[d] = <<d, "Object">>
  <2>1. SUFFICES ASSUME NEW d \in Names, Parent(d) = "Object"
                 PROVE  Chain[d] = <<d, "Object">>
    OBVIOUS
  <2>2. Chain[d] = <<d>> \o <<"Object">>
    BY <1>2, <2>1
  <2>3. QED
    BY <2>2, PutBefore
<1>4. CASE Parent(c) # "Object"
  <2>1. Chain[Parent(c)] = <<Parent(c), "Object">>
    BY <1>1, <1>3, <1>4
  <2>2. Chain[c] = <<c>> \o <<Parent(c), "Object">>
    BY <1>2, <2>1
  <2>3. Chain[c] = <<c, Parent(c), "Object">>
    BY <2>2, PutBefore
  <2>4. QED
    BY <1>1, <1>4, <2>3
<1>5. QED
  BY <1>1, <1>3, <1>4

\* The chain of the root.
LEMMA ObjectChain == Chain["Object"] = <<"Object">> /\ "Object" \in Classes
BY ChainExists, ClassesAre

\* Going up a chain: from a class to its parent, as far as the root.
LEMMA ChainSteps ==
  ASSUME NEW c \in Classes
  PROVE  /\ Chain[c] \in Seq(Classes) /\ Len(Chain[c]) \in 1 .. 3 /\ Chain[c][1] = c
         /\ \A i \in 1 .. Len(Chain[c]) :
              /\ Chain[c][i] = "Object" <=> i = Len(Chain[c])
              /\ i < Len(Chain[c]) =>
                   Chain[c][i] \in Names /\ Chain[c][i + 1] = Parent(Chain[c][i])
              /\ c # "Meta" => Chain[c][i] \in Roots
<1>1. CASE c = "Object"
  BY <1>1, ObjectChain, ClassesAre DEF Names, ErrorNames
<1>2. CASE c \in Names /\ Parent(c) = "Object"
  <2>1. Chain[c] = <<c, "Object">> /\ c \in Classes /\ "Object" \in Classes /\ c # "Object"
    BY <1>2, ChainIs, ClassesAre
  <2>2. c # "Meta" => c \in Roots /\ "Object" \in Roots
    BY <1>2, ClassesAre DEF Names, ErrorNames
  <2>3. Len(Chain[c]) = 2 /\ Chain[c][1] = c /\ Chain[c][2] = "Object"
    BY <2>1
  <2>4. QED
    BY <1>2, <2>1, <2>2, <2>3
<1>3. CASE c \in Names /\ Parent(c) # "Object"
  <2> DEFINE p == Parent(c)
  <2>1. /\ Chain[c] = <<c, p, "Object">> /\ Parent(p) = "Object"
        /\ c \in Classes /\ p \in Classes /\ "Object" \in Classes
        /\ c # "Object" /\ p # "Object" /\ p \in Names
    BY <1>3, ChainIs, ClassesAre
  <2>2. c # "Meta" => {c, p, "Object"} \subseteq Roots
    BY <1>3, <2>1, ChainIs, ClassesAre DEF Names, ErrorNames
  <2> HIDE DEF p
  <2>3. Len(Chain[c]) = 3 /\ Chain[c][1] = c /\ Chain[c][2] = p /\ Chain[c][3] = "Object"
    BY <2>1
  <2>4. Chain[c] \in Seq(Classes)
    BY <2>1
  <2>5. QED
    BY <1>3, <2>1, <2>2, <2>3, <2>4 DEF p
<1>4. QED
  BY <1>1, <1>2, <1>3, ClassesAre

\* The struct of a class has the slots of its parent's, and its own.
LEMMA StructIs ==
  /\ StructOf("Object") = ObjectSlots
  /\ \A c \in Names : StructOf(c) = StructOf(Parent(c)) \cup Declared[c].own
<1>1. StructOf("Object") = ObjectSlots
  BY ObjectChain, FewElements DEF StructOf
<1>2. ASSUME NEW c \in Names
      PROVE  StructOf(c) = StructOf(Parent(c)) \cup Declared[c].own
  <2>1. \A d \in Names : Parent(d) = "Object" => StructOf(d) = ObjectSlots \cup Declared[d].own
    <3>1. SUFFICES ASSUME NEW d \in Names, Parent(d) = "Object"
                   PROVE  StructOf(d) = ObjectSlots \cup Declared[d].own
      OBVIOUS
    <3>2. Range(Chain[d]) \ {"Object"} = {d}
      <4>1. Chain[d] = <<d, "Object">> /\ d # "Object"
        BY <3>1, ChainIs, ClassesAre
      <4>2. Range(Chain[d]) = {d, "Object"}
        BY <4>1, FewElements
      <4>3. QED
        BY <4>1, <4>2
    <3>3. QED
      BY <3>2 DEF StructOf
  <2>2. CASE Parent(c) = "Object"
    BY <1>1, <2>1, <2>2
  <2>3. CASE Parent(c) # "Object"
    <3>1. Parent(c) \in Names /\ Parent(Parent(c)) = "Object"
      BY <2>3, ChainIs, ClassesAre
    <3>2. Range(Chain[c]) = {c, Parent(c), "Object"}
      BY <2>3, ChainIs DEF Range
    <3>3. Range(Chain[c]) \ {"Object"} = {c, Parent(c)}
      BY <3>1, <3>2, ClassesAre
    <3>4. StructOf(c) = ObjectSlots \cup Declared[c].own \cup Declared[Parent(c)].own
      BY <3>3 DEF StructOf
    <3>5. QED
      BY <2>1, <3>1, <3>4
  <2>4. QED
    BY <2>2, <2>3
<1>3. QED
  BY <1>1, <1>2

\* The least of some numbers.
LEMMA LeastIs ==
  ASSUME NEW T \in SUBSET Nat, NEW k \in T, \A i \in T : k <= i
  PROVE  Min(T) = k
<1>1. \A j \in T : (\A i \in T : j <= i) => j = k
  OBVIOUS
<1>2. Min(T) = CHOOSE j \in T : \A i \in T : j <= i
  BY DEF Min
<1>3. QED
  BY <1>1, <1>2

\* The method of a class is its own, or that of its parent.
LEMMA NearestIs ==
  ASSUME NEW m
  PROVE  /\ Nearest("Object", m) = IF m \in SetBy("Object") THEN "Object" ELSE NULL
         /\ \A c \in Names :
              Nearest(c, m) = IF m \in SetBy(c) THEN c ELSE Nearest(Parent(c), m)
<1> DEFINE On(c) == {i \in DOMAIN Chain[c] : m \in SetBy(Chain[c][i])}
<1>1. Nearest("Object", m) = IF m \in SetBy("Object") THEN "Object" ELSE NULL
  <2>1. Chain["Object"][1] = "Object" /\ DOMAIN Chain["Object"] = 1 .. 1
    BY ObjectChain
  <2>2. On("Object") = IF m \in SetBy("Object") THEN {1} ELSE {}
    BY <2>1
  <2>3. Min({1}) = 1
    BY LeastIs
  <2>4. QED
    BY <2>1, <2>2, <2>3 DEF Nearest
<1>2. ASSUME NEW c \in Names
      PROVE  Nearest(c, m) = IF m \in SetBy(c) THEN c ELSE Nearest(Parent(c), m)
  <2> DEFINE n == Len(Chain[c])
             p == Parent(c)
  <2>1. /\ n \in 2 .. 3 /\ DOMAIN Chain[c] = 1 .. n /\ Chain[c][1] = c
        /\ Len(Chain[p]) = n - 1 /\ DOMAIN Chain[p] = 1 .. n - 1
        /\ \A i \in 1 .. n - 1 : Chain[p][i] = Chain[c][i + 1]
    <3>1. CASE p = "Object"
      <4>1. Chain[c] = <<c, "Object">> /\ Chain[p] = <<"Object">>
        BY <3>1, ChainIs, ObjectChain
      <4>2. QED
        BY <4>1
    <3>2. CASE p # "Object"
      <4>1. p \in Names /\ Parent(p) = "Object"
        BY <3>2, ChainIs, ClassesAre
      <4>2. Chain[c] = <<c, p, "Object">> /\ Chain[p] = <<p, "Object">>
        BY <3>2, <4>1, ChainIs
      <4>3. QED
        BY <4>2
    <3>3. QED
      BY <3>1, <3>2
  <2> HIDE DEF n, p
  <2>2. On(c) \in SUBSET Nat /\ On(p) \in SUBSET Nat
    BY <2>1
  <2>3. \A i \in Nat : i + 1 \in On(c) <=> IF i = 0 THEN m \in SetBy(c) ELSE i \in On(p)
    <3>1. SUFFICES ASSUME NEW i \in Nat
                   PROVE  i + 1 \in On(c) <=> IF i = 0 THEN m \in SetBy(c) ELSE i \in On(p)
      OBVIOUS
    <3>2. CASE i = 0
      BY <2>1, <3>2
    <3>3. CASE i # 0
      BY <2>1, <3>3
    <3>4. QED
      BY <3>2, <3>3
  <2>4. CASE m \in SetBy(c)
    <3>1. 1 \in On(c) /\ \A i \in On(c) : 1 <= i
      BY <2>1, <2>4
    <3>2. Min(On(c)) = 1 /\ On(c) # {}
      BY <2>2, <3>1, LeastIs
    <3>3. QED
      BY <2>1, <2>4, <3>2 DEF Nearest
  <2>5. CASE m \notin SetBy(c) /\ On(p) = {}
    <3>1. On(c) = {}
      BY <2>1, <2>3, <2>5
    <3>2. QED
      BY <2>5, <3>1 DEF Nearest, p
  <2>6. CASE m \notin SetBy(c) /\ On(p) # {}
    <3>1. PICK k \in On(p) : \A i \in On(p) : k <= i
      <4>1. On(p) \subseteq {1, 2}
        BY <2>1
      <4>2. CASE 1 \in On(p)
        BY <4>1, <4>2
      <4>3. CASE 1 \notin On(p)
        BY <2>6, <4>1, <4>3
      <4>4. QED
        BY <4>2, <4>3
    <3>2. k \in 1 .. n - 1 /\ Min(On(p)) = k
      BY <2>1, <2>2, <3>1, LeastIs
    <3>3. k + 1 \in On(c) /\ \A i \in On(c) : k + 1 <= i
      BY <2>1, <2>6, <3>1, <3>2
    <3>4. Min(On(c)) = k + 1 /\ On(c) # {}
      BY <2>2, <3>3, LeastIs
    <3>5. QED
      BY <2>1, <2>6, <3>2, <3>4 DEF Nearest, p
  <2>7. QED
    BY <2>4, <2>5, <2>6 DEF p
<1>3. QED
  BY <1>1, <1>2

-----------------------------------------------------------------------------
(* Classes as tables: the inductive invariant, and what it rests on *)

\* The members that the code of a class and of what it is derived from takes.
Members(c) == UNION {TakenBy(d) : d \in Range(Chain[c])}

\* The table that a class is meant to have: for each slot the method of the nearest
\* class that sets it.
TableRight(c, table) == table = [m \in StructOf(c) |-> Nearest(c, m)]

\* The classes there are have their tables; the root, which is static, always has.
TablesRight(ts) ==
  /\ DOMAIN ts = Classes /\ ts = [c \in Classes |-> ts[c]]
  /\ TableRight("Object", ts["Object"])
  /\ \A c \in Classes : ts[c] # NULL => TableRight(c, ts[c])

\* Its initialisers have run along the chain, so far; the next is that of the next
\* class; and it holds what some class of the chain takes.
ObjectRight(o, ts) ==
  LET chain == Chain[o.cls]
      k == Len(o.ran)
  IN  /\ o \in Objects
      /\ o.cls \in Roots \ {"Serial"}
      /\ TableRight(o.cls, ts[o.cls])
      /\ k <= Len(chain) /\ \A i \in 1 .. k : o.ran[i] = chain[i]
      /\ k = Len(chain) => o.next \in {"return", "done"}
      /\ k < Len(chain) => o.next = Make[chain[k + 1]].slot
      /\ o.held \subseteq Members(o.cls)

ObjectsRight ==
  /\ object \in [Pointers -> Objects \cup {NULL}]
  /\ \A p \in Pointers : object[p] # NULL => ObjectRight(object[p], tables)

TablesInv ==
  order \in Orders /\ TablesRight(tables) /\ ObjectsRight /\ leaked = {}

\* The root takes nothing.
LEMMA ObjectTakesNone == TakenBy("Object") = {}
<1>1. Make["Object"].takes = <<>>
  BY DEF Make, MakeObject, Constructor
<1>2. AcquiresLater("Object") = {}
  BY DEF AcquiresLater
<1>3. QED
  BY <1>1, <1>2, FewElements DEF TakenBy

\* A slot that some class of the chain sets has the method of such a class.
LEMMA NearestSets ==
  ASSUME NEW c \in Classes, NEW m, NEW i \in 1 .. Len(Chain[c]), m \in SetBy(Chain[c][i])
  PROVE  \E j \in 1 .. Len(Chain[c]) :
           m \in SetBy(Chain[c][j]) /\ Nearest(c, m) = Chain[c][j]
<1> DEFINE On == {j \in DOMAIN Chain[c] : m \in SetBy(Chain[c][j])}
<1>1. Len(Chain[c]) \in 1 .. 3 /\ DOMAIN Chain[c] = 1 .. Len(Chain[c])
  BY ChainSteps
<1>2. i \in On /\ On \subseteq {1, 2, 3}
  BY <1>1
<1>3. PICK k \in On : \A j \in On : k <= j
  <2>1. CASE 1 \in On
    BY <1>2, <2>1
  <2>2. CASE 1 \notin On /\ 2 \in On
    BY <1>2, <2>2
  <2>3. CASE 1 \notin On /\ 2 \notin On
    BY <1>2, <2>3
  <2>4. QED
    BY <2>1, <2>2, <2>3
<1>4. Min(On) = k
  <2>1. On \in SUBSET Nat
    BY <1>2
  <2> HIDE DEF On
  <2>2. QED
    BY <1>3, <2>1, LeastIs
<1>5. Nearest(c, m) = Chain[c][k]
  BY <1>2, <1>4 DEF Nearest
<1>6. QED
  BY <1>1, <1>3, <1>5

\* A slot that none of them sets has none.
LEMMA NearestNull ==
  ASSUME NEW c \in Classes, NEW m, \A i \in 1 .. Len(Chain[c]) : m \notin SetBy(Chain[c][i])
  PROVE  Nearest(c, m) = NULL
<1>1. DOMAIN Chain[c] = 1 .. Len(Chain[c])
  BY ChainSteps
<1>2. {j \in DOMAIN Chain[c] : m \in SetBy(Chain[c][j])} = {}
  BY <1>1
<1>3. QED
  BY <1>2 DEF Nearest

\* A method is that of a class, or missing.
LEMMA NearestType ==
  ASSUME NEW c \in Classes, NEW m PROVE Nearest(c, m) \in Classes \cup {NULL}
<1>1. CASE \E i \in 1 .. Len(Chain[c]) : m \in SetBy(Chain[c][i])
  BY <1>1, NearestSets, ChainSteps
<1>2. CASE ~ \E i \in 1 .. Len(Chain[c]) : m \in SetBy(Chain[c][i])
  BY <1>2, NearestNull
<1>3. QED
  BY <1>1, <1>2

\* The struct of a class has the slots that it sets, and those of the root.
LEMMA StructHas ==
  ASSUME NEW c \in Classes
  PROVE  ObjectSlots \subseteq StructOf(c) /\ SetBy(c) \subseteq StructOf(c)
<1>1. ObjectSlots \subseteq StructOf(c)
  BY DEF StructOf
<1>2. CASE c = "Object"
  BY <1>1, <1>2 DEF SetBy
<1>3. CASE c \in Names
  <2>1. SetBy(c) = Declared[c].sets
    BY <1>3, ClassesAre DEF SetBy
  <2>2. Declared[c].own \subseteq StructOf(c)
    BY <1>3, StructIs
  <2>3. Parent(c) # "Object" => Declared[Parent(c)].own \subseteq StructOf(c)
    <3>1. SUFFICES ASSUME Parent(c) # "Object"
                   PROVE  Declared[Parent(c)].own \subseteq StructOf(c)
      OBVIOUS
    <3>2. Parent(c) \in Names
      BY <1>3, <3>1, ChainIs, ClassesAre
    <3>3. QED
      BY <1>3, <3>2, StructIs
  <2>4. QED
    BY <1>1, <1>3, <2>1, <2>2, <2>3, SetsOwn DEF Parent
<1>4. QED
  BY <1>1, <1>2, <1>3, ClassesAre

\* And all the slots of the classes above it.
LEMMA StructGrows ==
  ASSUME NEW c \in Classes, NEW i \in 1 .. Len(Chain[c])
  PROVE  StructOf(Chain[c][i]) \subseteq StructOf(c)
<1>1. CASE c = "Object"
  BY <1>1, ObjectChain
<1>2. CASE c \in Names /\ Parent(c) = "Object"
  <2>1. Chain[c] = <<c, "Object">>
    BY <1>2, ChainIs
  <2>2. StructOf("Object") \subseteq StructOf(c)
    BY <1>2, StructIs
  <2>3. QED
    BY <2>1, <2>2
<1>3. CASE c \in Names /\ Parent(c) # "Object"
  <2> DEFINE p == Parent(c)
  <2>1. Chain[c] = <<c, p, "Object">> /\ p \in Names /\ Parent(p) = "Object"
    BY <1>3, ChainIs, ClassesAre
  <2>2. StructOf(p) \subseteq StructOf(c) /\ StructOf("Object") \subseteq StructOf(p)
    BY <1>3, <2>1, StructIs
  <2> HIDE DEF p
  <2>3. QED
    BY <2>1, <2>2
<1>4. QED
  BY <1>1, <1>2, <1>3, ClassesAre

\* What is not in the struct of a class has no method there.
LEMMA NoSlotNoMethod ==
  ASSUME NEW c \in Classes, NEW m, m \notin StructOf(c)
  PROVE  Nearest(c, m) = NULL
<1>1. ASSUME NEW i \in 1 .. Len(Chain[c]) PROVE m \notin SetBy(Chain[c][i])
  <2>1. Chain[c][i] \in Classes
    BY ChainSteps
  <2>2. QED
    BY <2>1, StructGrows, StructHas
<1>2. QED
  BY <1>1, NearestNull

\* The initialiser slot of a class in the chain leads, from any object, to the
\* method of that class.
LEMMA SlotReaches ==
  ASSUME NEW c \in Roots, NEW i \in 1 .. Len(Chain[c])
  PROVE  LET s == Make[Chain[c][i]].slot
         IN  s \in StructOf(c) /\ Nearest(c, s) = Chain[c][i]
<1> DEFINE s == Make[Chain[c][i]].slot
<1>1. c \in Classes /\ c # "Meta" /\ Chain[c][i] \in Roots /\ Chain[c][i] \in Classes
  BY ClassesAre, ChainSteps DEF Names, ErrorNames
<1>2. \A d \in Roots : SetBy(d) \cap InitSlots = {Make[d].slot}
  <2>1. SUFFICES ASSUME NEW d \in Roots PROVE SetBy(d) \cap InitSlots = {Make[d].slot}
    OBVIOUS
  <2>2. CASE d = "Object"
    BY <2>2, SlotIs DEF SetBy, ObjectSlots, ObjectLifeSlots, Comparisons, InitSlots,
                        SlotNames
  <2>3. CASE d # "Object"
    BY <2>3, SlotIs, SetsOneSlot, ClassesAre DEF SetBy
  <2>4. QED
    BY <2>2, <2>3
<1>3. s \in InitSlots /\ s \in SetBy(Chain[c][i])
  BY <1>1, <1>2, SlotIs
<1>4. s \in StructOf(c)
  BY <1>1, <1>3, StructGrows, StructHas
<1>5. PICK j \in 1 .. Len(Chain[c]) : s \in SetBy(Chain[c][j]) /\ Nearest(c, s) = Chain[c][j]
  BY <1>1, <1>3, NearestSets
<1>6. Chain[c][j] \in Roots
  BY <1>1, ChainSteps
<1>7. Make[Chain[c][j]].slot = s
  BY <1>2, <1>3, <1>5, <1>6
<1>8. Chain[c][j] = Chain[c][i]
  BY <1>1, <1>6, <1>7, SlotIsUnique
<1>9. QED
  BY <1>4, <1>5, <1>8

\* Every class sets its own init method.
LEMMA InitIsOwn == ASSUME NEW c \in Classes PROVE Nearest(c, "init") = c
<1>1. "init" \in SetBy("Object")
  BY DEF SetBy, ObjectSlots, ObjectLifeSlots
<1>2. CASE c = "Object"
  BY <1>1, <1>2, NearestIs
<1>3. CASE c \in Names
  BY <1>3, NearestIs, ParentIs, ClassesAre DEF SetBy
<1>4. QED
  BY <1>2, <1>3, ClassesAre

\* The destroy method that an object of a class finds releases all that the classes
\* of its chain take.
LEMMA MembersReleased ==
  ASSUME NEW c \in Roots PROVE Members(c) \subseteq Releases(Nearest(c, "destroy"))
<1>1. "destroy" \in SetBy("Object")
  BY DEF SetBy, ObjectSlots, ObjectLifeSlots
<1>2. Nearest("Object", "destroy") = "Object"
  BY <1>1, NearestIs
<1>3. CASE c = "Object"
  <2>1. Members(c) = {}
    BY <1>3, ObjectChain, FewElements, ObjectTakesNone DEF Members
  <2>2. QED
    BY <2>1
<1>4. CASE c # "Object"
  <2>1. c \in Names \ {"Meta"} /\ SetBy(c) = Declared[c].sets
    BY <1>4, ClassesAre DEF SetBy
  <2>2. TakenBy(c) \subseteq Releases(c)
    BY TakenIsReleased
  <2>3. CASE "destroy" \in SetBy(c)
    <3>1. Parent(c) = "Object" /\ Nearest(c, "destroy") = c
      BY <2>1, <2>3, DestroyersAre, NearestIs DEF Parent
    <3>2. Range(Chain[c]) = {c, "Object"}
      <4>1. Chain[c] = <<c, "Object">>
        BY <2>1, <3>1, ChainIs
      <4>2. QED
        BY <4>1, FewElements
    <3>3. Members(c) = TakenBy(c)
      BY <3>2, ObjectTakesNone DEF Members
    <3>4. QED
      BY <2>2, <3>1, <3>3
  <2>4. CASE "destroy" \notin SetBy(c)
    <3> DEFINE p == Parent(c)
    <3>1. p # "Object" /\ "destroy" \in Declared[p].sets /\ TakenBy(c) = {}
      BY <2>1, <2>4, DestroyersAre DEF Parent
    <3>2. p \in Names /\ p \in Roots
      BY <2>1, <3>1, ChainIs, ClassesAre DEF Names, ErrorNames
    <3>3. Nearest(c, "destroy") = p
      BY <2>1, <2>4, <3>1, <3>2, NearestIs, ClassesAre DEF SetBy
    <3>4. Range(Chain[c]) = {c, p, "Object"}
      <4>1. Chain[c] = <<c, p, "Object">>
        BY <2>1, <3>1, ChainIs
      <4>2. QED
        BY <4>1 DEF Range
    <3>5. Members(c) = TakenBy(p)
      BY <3>1, <3>4, ObjectTakesNone DEF Members
    <3>6. QED
      BY <3>2, <3>3, <3>5, TakenIsReleased
  <2>5. QED
    BY <2>3, <2>4
<1>5. QED
  BY <1>3, <1>4

\* An object of a class that can be made misses no method but three.
LEMMA MethodsLand ==
  ASSUME NEW c \in Roots \ {"Serial"}, NEW m \in StructOf(c), Nearest(c, m) = NULL
  PROVE  m \in {"compare", "copy", "to_string"}
<1>1. c \in Classes /\ NULL \notin Classes /\ "Object" \in Classes
  BY ClassesAre, PointersAssumption
<1>2. \A i \in 1 .. Len(Chain[c]) : m \notin SetBy(Chain[c][i])
  <2>1. SUFFICES ASSUME NEW i \in 1 .. Len(Chain[c]), m \in SetBy(Chain[c][i]) PROVE FALSE
    OBVIOUS
  <2>2. PICK j \in 1 .. Len(Chain[c]) : Nearest(c, m) = Chain[c][j]
    BY <1>1, <2>1, NearestSets
  <2>3. QED
    BY <1>1, <2>2, ChainSteps
<1>3. m \notin SetBy("Object")
  BY <1>1, <1>2, ChainSteps
<1>4. m \in ObjectSlots => m \in {"compare", "copy"}
  BY <1>3 DEF SetBy
<1>5. CASE c = "Object"
  BY <1>4, <1>5, StructIs
<1>6. CASE c # "Object"
  <2>1. c \in Names \ {"Serial"}
    BY <1>6, ClassesAre
  <2>2. m \notin SetBy(c) /\ SetBy(c) = Declared[c].sets
    BY <1>1, <1>2, <1>6, ChainSteps DEF SetBy
  <2>3. m \in Declared[c].own => m = "to_string"
    BY <2>1, <2>2, OwnIsSet
  <2>4. CASE Parent(c) = "Object"
    BY <1>4, <2>1, <2>3, <2>4, StructIs
  <2>5. CASE Parent(c) # "Object"
    <3> DEFINE p == Parent(c)
    <3>1. p \in Names /\ Parent(p) = "Object" /\ Chain[c] = <<c, p, "Object">>
      BY <2>1, <2>5, ChainIs, ClassesAre
    <3>2. 2 \in 1 .. Len(Chain[c]) /\ Chain[c][2] = p
      BY <3>1
    <3>3. m \notin Declared[p].sets
      BY <1>2, <3>1, <3>2, ClassesAre DEF SetBy
    <3>4. m \notin Declared[p].own
      BY <2>1, <2>2, <2>5, <3>3, OwnIsSet DEF Parent
    <3>5. StructOf(c) = ObjectSlots \cup Declared[p].own \cup Declared[c].own
      BY <2>1, <3>1, StructIs
    <3>6. QED
      BY <1>4, <2>3, <3>4, <3>5
  <2>6. QED
    BY <2>4, <2>5
<1>7. QED
  BY <1>5, <1>6

-----------------------------------------------------------------------------
(* Classes as tables: every step preserves the invariant *)

\* At first the root has its table, and nothing else is there.
LEMMA TablesInitInv == Init => TablesInv
<1> SUFFICES ASSUME Init PROVE TablesInv
  OBVIOUS
<1>1. tables["Object"] = ObjectClass /\ \A c \in Classes : c # "Object" => tables[c] = NULL
  BY ClassesAre DEF Init
<1>2. TableRight("Object", tables["Object"])
  <2>1. \A m \in ObjectSlots :
          Nearest("Object", m) = IF m \in {"compare", "copy"} THEN NULL ELSE "Object"
    BY NearestIs DEF SetBy
  <2>2. QED
    BY <1>1, <2>1, StructIs DEF ObjectClass, TableRight
<1>3. TablesRight(tables)
  BY <1>1, <1>2 DEF Init, TablesRight
<1>4. object \in [Pointers -> Objects \cup {NULL}] /\ \A p \in Pointers : object[p] = NULL
  BY DEF Init
<1>5. QED
  BY <1>3, <1>4 DEF Init, TablesInv, ObjectsRight

\* A class gets the table it is meant to have, if its parent has.
LEMMA NewTableIs ==
  ASSUME NEW c \in Names, NEW ts, TableRight(Parent(c), ts[Parent(c)])
  PROVE  TableRight(c, NewTable(c, ts))
<1>1. Declared[c].copies = Parent(c) /\ SetBy(c) = Declared[c].sets /\ Parent(c) \in Classes
  BY ParentIs, ChainIs, ClassesAre DEF Parent, SetBy
<1>2. ASSUME NEW m \in StructOf(c)
      PROVE  Nearest(c, m) =
               IF m \in Declared[c].sets THEN c
               ELSE IF m \in StructOf(Parent(c)) THEN ts[Parent(c)][m] ELSE NULL
  <2>1. CASE m \in SetBy(c)
    BY <1>1, <2>1, NearestIs
  <2>2. CASE m \notin SetBy(c) /\ m \in StructOf(Parent(c))
    <3>1. ts[Parent(c)][m] = Nearest(Parent(c), m)
      BY <2>2 DEF TableRight
    <3>2. QED
      BY <1>1, <2>2, <3>1, NearestIs
  <2>3. CASE m \notin SetBy(c) /\ m \notin StructOf(Parent(c))
    BY <1>1, <2>3, NearestIs, NoSlotNoMethod
  <2>4. QED
    BY <2>1, <2>2, <2>3
<1>3. QED
  BY <1>1, <1>2 DEF TableRight, NewTable, Parent

\* One more class with its table.
LEMMA OneMore ==
  ASSUME NEW ts, TablesRight(ts), NEW c \in Names, TableRight(Parent(c), ts[Parent(c)]),
         NEW us, DOMAIN us = Classes, us = [d \in Classes |-> us[d]],
         us[c] = NewTable(c, ts), \A d \in Classes : d # c => us[d] = ts[d]
  PROVE  /\ TablesRight(us) /\ TableRight(c, us[c])
<1>1. c \in Classes /\ c # "Object" /\ "Object" \in Classes
  BY ClassesAre
<1>2. TableRight(c, us[c])
  BY NewTableIs
<1>3. QED
  BY <1>1, <1>2 DEF TablesRight

\* The classes in the order of see_init.
LEMMA OrderIs ==
  ASSUME order \in Orders, NEW i \in DOMAIN order
  PROVE  order[i] \in Names
<1>1. PICK b \in Builds : order = Lib!InitOrder(b)
  BY OrdersAssumption DEF Builds
<1>2. <<order[i], i>> \in OrderPlaces
  BY <1>1, PlaceOf
<1>3. QED
  BY <1>2 DEF OrderPlaces, Names, ErrorNames

\* Objects do not notice that another class is made.
LEMMA OldObjects ==
  ASSUME NEW ts, NEW us, TablesRight(ts), TablesRight(us), NEW o, ObjectRight(o, ts),
         \A d \in Classes : us[d] = ts[d] \/ TableRight(d, us[d])
  PROVE  ObjectRight(o, us)
<1>1. o.cls \in Classes
  BY ClassesAre DEF ObjectRight, Names, ErrorNames
<1>2. TableRight(o.cls, us[o.cls])
  BY <1>1 DEF ObjectRight
<1>3. QED
  BY <1>2 DEF ObjectRight

\* see_init makes a class, and the one of SeeError first when it must.
LEMMA TablesMakeClass == TablesInv /\ MakeClass => TablesInv'
<1> SUFFICES ASSUME TablesInv, MakeClass PROVE TablesInv'
  OBVIOUS
<1>1. PICK i \in DOMAIN order :
        /\ ~ Made(order[i])
        /\ LET needed == IF order[i] = "CopyError" /\ ~ Made("Error")
                         THEN [tables EXCEPT !["Error"] = NewTable("Error", tables)]
                         ELSE tables
           IN  /\ needed[Declared[order[i]].parent] # NULL
               /\ tables' = [needed EXCEPT ![order[i]] = NewTable(order[i], needed)]
        /\ UNCHANGED <<order, object, leaked>>
  BY DEF MakeClass
<1> DEFINE d == order[i]
           needed == IF d = "CopyError" /\ ~ Made("Error")
                     THEN [tables EXCEPT !["Error"] = NewTable("Error", tables)]
                     ELSE tables
<1>2. d \in Names /\ d \in Classes
  BY OrderIs, ClassesAre DEF TablesInv
<1>3. /\ TablesRight(needed)
      /\ \A e \in Classes : needed[e] = tables[e] \/ TableRight(e, needed[e])
  <2>1. CASE needed = tables
    BY <2>1 DEF TablesInv
  <2>2. CASE needed = [tables EXCEPT !["Error"] = NewTable("Error", tables)]
    <3>1. "Error" \in Names /\ Parent("Error") = "Object"
      BY DEF Names, ErrorNames, Parent, Declared, ErrorClass, Class
    <3>2. TableRight(Parent("Error"), tables[Parent("Error")])
      BY <3>1 DEF TablesInv, TablesRight
    <3>3. /\ DOMAIN needed = Classes /\ needed = [e \in Classes |-> needed[e]]
          /\ needed["Error"] = NewTable("Error", tables)
          /\ \A e \in Classes : e # "Error" => needed[e] = tables[e]
      BY <2>2, <3>1, ClassesAre DEF TablesInv, TablesRight
    <3> HIDE DEF needed
    <3>4. TablesRight(needed) /\ TableRight("Error", needed["Error"])
      BY <3>1, <3>2, <3>3, OneMore DEF TablesInv
    <3>5. QED
      BY <3>3, <3>4
  <2>3. QED
    BY <2>1, <2>2
<1>4. needed[Parent(d)] # NULL /\ tables' = [needed EXCEPT ![d] = NewTable(d, needed)]
  BY <1>1 DEF Parent
<1> HIDE DEF needed, d
<1>5. TableRight(Parent(d), needed[Parent(d)])
  BY <1>2, <1>3, <1>4, ChainIs DEF TablesRight
<1>6. /\ TablesRight(tables') /\ TableRight(d, tables'[d])
      /\ \A e \in Classes : e # d => tables'[e] = needed[e]
  <2>1. /\ DOMAIN tables' = Classes /\ tables' = [e \in Classes |-> tables'[e]]
        /\ tables'[d] = NewTable(d, needed)
        /\ \A e \in Classes : e # d => tables'[e] = needed[e]
    BY <1>2, <1>3, <1>4 DEF TablesRight
  <2>2. QED
    BY <1>2, <1>3, <1>5, <2>1, OneMore
<1>7. \A e \in Classes : tables'[e] = tables[e] \/ TableRight(e, tables'[e])
  BY <1>3, <1>6
<1>8. ASSUME NEW p \in Pointers, object[p] # NULL PROVE ObjectRight(object[p], tables')
  BY <1>6, <1>7, <1>8, OldObjects DEF TablesInv, ObjectsRight
<1>9. QED
  BY <1>1, <1>6, <1>8 DEF TablesInv, ObjectsRight

\* A new object.
LEMMA NewIsRight ==
  ASSUME NEW c \in Roots \ {"Serial"}, TableRight(c, tables[c])
  PROVE  ObjectRight(New(c), tables)
<1>1. c \in Classes
  BY ClassesAre DEF Names, ErrorNames
<1>2. "init" \in StructOf(c)
  BY <1>1, StructHas DEF ObjectSlots, ObjectLifeSlots
<1>3. tables[c]["init"] = c
  BY <1>1, <1>2, InitIsOwn DEF TableRight
<1>4. New(c) = [cls |-> c, next |-> Make[c].slot, ran |-> <<>>, held |-> {}]
  BY <1>3 DEF New
<1>5. Chain[c][1] = c /\ Len(Chain[c]) \in 1 .. 3
  BY <1>1, ChainSteps
<1>6. New(c) \in Objects
  BY <1>1, <1>4 DEF Objects, Roots
<1>7. QED
  BY <1>4, <1>5, <1>6 DEF ObjectRight

\* The objects after one of them has changed.
LEMMA ObjectChanges ==
  ASSUME TablesInv, NEW p \in Pointers, NEW o,
         o # NULL => ObjectRight(o, tables),
         NEW objects, objects = [object EXCEPT ![p] = o]
  PROVE  /\ objects \in [Pointers -> Objects \cup {NULL}]
         /\ \A q \in Pointers : objects[q] # NULL => ObjectRight(objects[q], tables)
<1>1. o \in Objects \cup {NULL}
  BY DEF ObjectRight
<1>2. QED
  BY <1>1 DEF TablesInv, ObjectsRight

\* The step of one object.
LEMMA ObjectStep ==
  ASSUME TablesInv, NEW p \in Pointers, NEW o,
         o # NULL => ObjectRight(o, tables),
         object' = [object EXCEPT ![p] = o], UNCHANGED <<order, tables, leaked>>
  PROVE  TablesInv'
BY ObjectChanges DEF TablesInv, ObjectsRight

\* What the invariant says of an object.
LEMMA ObjectIs ==
  ASSUME TablesInv, NEW p \in Pointers, object[p] # NULL
  PROVE  LET o == object[p]
         IN  /\ ObjectRight(o, tables) /\ o \in Objects
             /\ o.cls \in Classes /\ o.cls \in Roots \ {"Serial"}
             /\ Chain[o.cls] \in Seq(Classes) /\ Len(Chain[o.cls]) \in 1 .. 3
             /\ Len(o.ran) \in Nat /\ o.ran \in Seq(Classes)
BY ChainSteps, ClassesAre DEF TablesInv, ObjectsRight, ObjectRight, Objects

\* The members of the record of an object.
LEMMA ObjectFields ==
  ASSUME NEW o \in Objects
  PROVE  o = [cls |-> o.cls, next |-> o.next, ran |-> o.ran, held |-> o.held]
<1> DEFINE Nexts == {Make[c].slot : c \in DOMAIN Make} \cup {"return", "done"}
           Held == SUBSET UNION {Releases(c) : c \in Classes}
<1>1. o \in [cls : Classes, next : Nexts, ran : Seq(Classes), held : Held]
  BY DEF Objects
<1> HIDE DEF Nexts, Held
<1>2. QED
  BY <1>1

\* And with two of them changed.
LEMMA ObjectChanged ==
  ASSUME NEW o \in Objects, NEW x, NEW y
  PROVE  /\ [o EXCEPT !.ran = x, !.next = y] =
              [cls |-> o.cls, next |-> y, ran |-> x, held |-> o.held]
         /\ [o EXCEPT !.next = x, !.held = y] =
              [cls |-> o.cls, next |-> x, ran |-> o.ran, held |-> y]
<1>1. PICK a, b, c, d : o = [cls |-> a, next |-> b, ran |-> c, held |-> d]
  BY ObjectFields
<1>2. o.cls = a /\ o.next = b /\ o.ran = c /\ o.held = d
  BY <1>1
<1>3. [o EXCEPT !.ran = x, !.next = y] = [cls |-> a, next |-> y, ran |-> x, held |-> d]
  <2>1. PICK q : q = [o EXCEPT !.ran = x]
    OBVIOUS
  <2>2. q = [cls |-> a, next |-> b, ran |-> x, held |-> d]
    BY <1>1, <2>1
  <2>3. [o EXCEPT !.ran = x, !.next = y] = [q EXCEPT !.next = y]
    BY <1>1, <2>1
  <2>4. QED
    BY <2>2, <2>3
<1>4. [o EXCEPT !.next = x, !.held = y] = [cls |-> a, next |-> x, ran |-> c, held |-> y]
  <2>1. PICK q : q = [o EXCEPT !.next = x]
    OBVIOUS
  <2>2. q = [cls |-> a, next |-> x, ran |-> c, held |-> d]
    BY <1>1, <2>1
  <2>3. [o EXCEPT !.next = x, !.held = y] = [q EXCEPT !.held = y]
    BY <1>1, <2>1
  <2>4. QED
    BY <2>2, <2>3
<1>5. QED
  BY <1>2, <1>3, <1>4

\* A constructor is called.
LEMMA TablesCreate ==
  ASSUME TablesInv, NEW p \in Pointers, NEW c \in Classes, Create(p, c)
  PROVE  TablesInv'
<1>1. c \in Roots \ {"Serial"}
  BY ClassesAre DEF Create, Constructible
<1>2. TableRight(c, tables[c])
  BY DEF Create, Made, TablesInv, TablesRight
<1>3. QED
  BY <1>1, <1>2, NewIsRight, ObjectStep DEF Create

\* An initialiser is that of the next class in the chain.
LEMMA TablesEnter ==
  ASSUME TablesInv, NEW p \in Pointers, Enter(p)
  PROVE  TablesInv'
<1> DEFINE o == object[p]
           chain == Chain[o.cls]
           k == Len(o.ran)
           by == tables[o.cls][o.next]
           Slots == {Make[c].slot : c \in DOMAIN Make}
           then == IF by = "Object" THEN "return" ELSE Make[by].calls
           n == [o EXCEPT !.ran = Append(o.ran, by), !.next = then]
<1>1. /\ o # NULL /\ o.next \notin {"return", "done"}
      /\ object' = [object EXCEPT ![p] = n] /\ UNCHANGED <<order, tables, leaked>>
  BY DEF Enter
<1>2. /\ ObjectRight(o, tables) /\ o \in Objects /\ o.cls \in Classes
      /\ o.cls \in Roots \ {"Serial"}
      /\ chain \in Seq(Classes) /\ Len(chain) \in 1 .. 3 /\ k \in Nat /\ o.ran \in Seq(Classes)
  BY <1>1, ObjectIs
<1>3. k < Len(chain) /\ o.next = Make[chain[k + 1]].slot
  BY <1>1, <1>2 DEF ObjectRight
<1>4. by = chain[k + 1]
  <2>1. k + 1 \in 1 .. Len(chain) /\ o.cls \in Roots
    BY <1>2, <1>3
  <2>2. o.next \in StructOf(o.cls) /\ Nearest(o.cls, o.next) = chain[k + 1]
    BY <1>3, <2>1, SlotReaches
  <2>3. QED
    BY <1>2, <2>2 DEF ObjectRight, TableRight
<1>5. /\ by \in Classes /\ by \in Roots
      /\ by = "Object" <=> k + 1 = Len(chain)
      /\ k + 1 < Len(chain) => by \in Names /\ chain[k + 2] = Parent(by)
  <2>1. PICK i \in 1 .. Len(chain) : i = k + 1 /\ i + 1 = k + 2 /\ o.cls # "Meta"
    BY <1>2, <1>3, ClassesAre
  <2>2. /\ chain[i] \in Classes /\ chain[i] \in Roots
        /\ chain[i] = "Object" <=> i = Len(chain)
        /\ i < Len(chain) => chain[i] \in Names /\ chain[i + 1] = Parent(chain[i])
    <3>1. PICK c \in Classes : c = o.cls /\ c # "Meta"
      BY <1>2, <2>1
    <3>2. i \in 1 .. Len(Chain[c])
      BY <2>1, <3>1
    <3>3. /\ Chain[c][i] \in Classes /\ Chain[c][i] \in Roots
          /\ Chain[c][i] = "Object" <=> i = Len(Chain[c])
          /\ i < Len(Chain[c]) =>
               Chain[c][i] \in Names /\ Chain[c][i + 1] = Parent(Chain[c][i])
      BY <3>1, <3>2, ChainSteps
    <3>4. QED
      BY <3>1, <3>3
  <2> HIDE DEF chain, by, k
  <2>3. QED
    BY <1>4, <2>1, <2>2
<1>6. /\ n.cls = o.cls /\ n.held = o.held /\ n.ran = Append(o.ran, by)
      /\ n.next = IF by = "Object" THEN "return" ELSE Make[by].calls
      /\ n = [cls |-> o.cls, next |-> n.next, ran |-> n.ran, held |-> o.held]
  <2> HIDE DEF o, by, then
  <2>1. n = [cls |-> o.cls, next |-> then, ran |-> Append(o.ran, by), held |-> o.held]
    BY <1>2, ObjectChanged
  <2>2. QED
    BY <2>1 DEF then
<1> HIDE DEF n, by, then
<1>7. by # "Object" => n.next = Make[chain[k + 2]].slot /\ n.next \in Slots
  <2>1. SUFFICES ASSUME by # "Object" PROVE n.next = Make[chain[k + 2]].slot /\ n.next \in Slots
    OBVIOUS
  <2>2. k + 1 < Len(chain) /\ k + 2 \in 1 .. Len(chain) /\ by \in Names
    <3> HIDE DEF chain, k
    <3>1. QED
      BY <1>2, <1>3, <1>5, <2>1
  <2>3. Make[by].calls = Make[Declared[by].parent].slot
    BY <1>5, <2>1, SlotIs
  <2>4. chain[k + 2] \in Roots
    BY <1>2, <2>2, ChainSteps, ClassesAre
  <2>5. Make[chain[k + 2]].slot \in Slots
    BY <2>4 DEF Roots
  <2>6. QED
    BY <1>5, <1>6, <2>1, <2>2, <2>3, <2>5 DEF Parent
<1>8. /\ n.ran \in Seq(Classes) /\ Len(n.ran) = k + 1
      /\ \A i \in 1 .. k + 1 : n.ran[i] = chain[i]
  <2>1. n.ran \in Seq(Classes) /\ Len(n.ran) = k + 1 /\ n.ran[k + 1] = by
        /\ \A i \in 1 .. k : n.ran[i] = o.ran[i]
    BY <1>2, <1>5, <1>6, AppendProperties
  <2>2. \A i \in 1 .. k : o.ran[i] = chain[i]
    BY <1>2 DEF ObjectRight
  <2> HIDE DEF o, chain, k
  <2>3. QED
    BY <1>2, <1>4, <2>1, <2>2
<1>9. ObjectRight(n, tables)
  <2>1. n \in Objects
    BY <1>2, <1>6, <1>7, <1>8 DEF Objects
  <2>2. n.held \subseteq Members(n.cls) /\ TableRight(n.cls, tables[n.cls])
    BY <1>2, <1>6 DEF ObjectRight
  <2>3. k + 1 = Len(chain) => n.next \in {"return", "done"}
    BY <1>5, <1>6
  <2>4. k + 1 < Len(chain) => n.next = Make[chain[k + 1 + 1]].slot
    <3>1. k + 1 + 1 = k + 2
      BY <1>2
    <3>2. QED
      BY <1>2, <1>5, <1>7, <3>1
  <2>5. k + 1 <= Len(chain)
    BY <1>2, <1>3
  <2>6. n.cls \in Roots \ {"Serial"} /\ Chain[n.cls] = chain
    BY <1>2, <1>6
  <2> HIDE DEF chain, k
  <2>7. QED
    BY <1>8, <2>1, <2>2, <2>3, <2>4, <2>5, <2>6 DEF ObjectRight
<1>10. QED
  BY <1>1, <1>9, ObjectStep

\* Joining up to three sequences.
LEMMA FewJoined ==
  ASSUME NEW S, NEW s, Len(s) \in 1 .. 3, \A i \in 1 .. Len(s) : s[i] \in Seq(S)
  PROVE  FlattenSeq(s) \in Seq(S)
<1> DEFINE n == Len(s)
           J(h) == h = [i \in 1 .. n |-> IF i = 1 THEN s[i] ELSE h[i - 1] \o s[i]]
           h1 == s[1]
           h2 == h1 \o s[2]
           h3 == h2 \o s[3]
           g == [i \in 1 .. n |-> IF i = 1 THEN h1 ELSE IF i = 2 THEN h2 ELSE h3]
           f == CHOOSE h : J(h)
<1>1. J(g)
  <2>1. SUFFICES ASSUME NEW i \in 1 .. n
                 PROVE  g[i] = IF i = 1 THEN s[i] ELSE g[i - 1] \o s[i]
    BY Zenon
  <2>2. i \in {1, 2, 3} /\ g[i] = IF i = 1 THEN h1 ELSE IF i = 2 THEN h2 ELSE h3
    OBVIOUS
  <2>3. i # 1 => g[i - 1] = IF i = 2 THEN h1 ELSE h2
    BY <2>2
  <2> HIDE DEF g
  <2>4. CASE i = 1
    BY <2>2, <2>4
  <2>5. CASE i = 2
    BY <2>2, <2>3, <2>5
  <2>6. CASE i = 3
    BY <2>2, <2>3, <2>6
  <2>7. QED
    BY <2>2, <2>4, <2>5, <2>6
<1> HIDE DEF g, h1, h2, h3
<1>2. J(f)
  BY <1>1, Zenon
<1>3. FlattenSeq(s) = f[n]
  BY DEF FlattenSeq
<1> HIDE DEF f
<1>4. ASSUME NEW i \in 1 .. n PROVE f[i] = IF i = 1 THEN s[i] ELSE f[i - 1] \o s[i]
  BY <1>2, Zenon
<1>5. f[1] \in Seq(S)
  <2>1. 1 \in 1 .. n
    OBVIOUS
  <2>2. f[1] = s[1]
    BY <1>4, <2>1, Zenon
  <2>3. QED
    BY <2>1, <2>2
<1>6. n \in 2 .. 3 => f[2] \in Seq(S)
  <2>1. SUFFICES ASSUME n \in 2 .. 3 PROVE f[2] \in Seq(S)
    OBVIOUS
  <2>2. 2 \in 1 .. n /\ 2 # 1 /\ 2 - 1 = 1
    BY <2>1
  <2>3. f[2] = f[2 - 1] \o s[2]
    BY <1>4, <2>2, Zenon
  <2>4. QED
    BY <1>5, <2>2, <2>3
<1>7. n = 3 => f[3] \in Seq(S)
  <2>1. SUFFICES ASSUME n = 3 PROVE f[3] \in Seq(S)
    OBVIOUS
  <2>2. 3 \in 1 .. n /\ 3 # 1 /\ 3 - 1 = 2
    BY <2>1
  <2>3. f[3] = f[3 - 1] \o s[3]
    BY <1>4, <2>2, Zenon
  <2>4. QED
    BY <1>6, <2>1, <2>2, <2>3
<1>8. QED
  <2>1. n \in {1, 2, 3}
    OBVIOUS
  <2>2. QED
    BY <1>3, <1>5, <1>6, <1>7, <2>1

\* The members that an object wants are such as its classes take.
LEMMA WantedIs ==
  ASSUME TablesInv, NEW p \in Pointers, object[p] # NULL, object[p].next = "return"
  PROVE  /\ object[p].ran = Chain[object[p].cls]
         /\ Wanted(object[p]) \in Seq(Members(object[p].cls))
<1> DEFINE o == object[p]
           chain == Chain[o.cls]
           k == Len(o.ran)
           takes == [i \in DOMAIN o.ran |-> Make[o.ran[i]].takes]
<1>1. /\ ObjectRight(o, tables) /\ o.cls \in Classes /\ o.cls \in Roots
      /\ chain \in Seq(Classes) /\ Len(chain) \in 1 .. 3 /\ k \in Nat /\ o.ran \in Seq(Classes)
  BY ObjectIs
<1>2. k = Len(chain)
  <2>1. SUFFICES ASSUME k < Len(chain) PROVE FALSE
    BY <1>1 DEF ObjectRight
  <2>2. k + 1 \in 1 .. Len(chain) /\ o.next = Make[chain[k + 1]].slot
    BY <1>1, <2>1 DEF ObjectRight
  <2>3. chain[k + 1] \in Roots
    BY <1>1, <2>2, ChainSteps, ClassesAre
  <2>4. QED
    BY <2>2, <2>3, SlotIs DEF InitSlots
<1>3. o.ran = chain
  <2>1. \A i \in 1 .. k : o.ran[i] = chain[i]
    BY <1>1 DEF ObjectRight
  <2>2. QED
    BY <1>1, <1>2, <2>1, SeqEqual
<1>4. \A i \in 1 .. k : Make[chain[i]].takes \in Seq(Members(o.cls))
  <2>1. SUFFICES ASSUME NEW i \in 1 .. k PROVE Make[chain[i]].takes \in Seq(Members(o.cls))
    OBVIOUS
  <2>2. chain[i] \in Roots /\ chain[i] \in Range(chain)
    BY <1>1, <1>2, ChainSteps, ClassesAre DEF Range
  <2>3. Range(Make[chain[i]].takes) \subseteq Members(o.cls)
    BY <2>2 DEF Members, TakenBy
  <2>4. Make[chain[i]].takes \in Seq(Range(Make[chain[i]].takes))
    <3>1. \A d \in Roots : \E a, b : Make[d].takes \in {<<>>, <<a>>, <<a, b>>}
      BY TakesAre DEF Takers
    <3>2. PICK a, b : Make[chain[i]].takes \in {<<>>, <<a>>, <<a, b>>}
      BY <2>2, <3>1
    <3>3. CASE Make[chain[i]].takes = <<>>
      BY <3>3
    <3>4. CASE Make[chain[i]].takes = <<a>>
      <4>1. Range(<<a>>) = {a} /\ <<a>> \in Seq({a})
        BY FewElements
      <4>2. QED
        BY <3>4, <4>1
    <3>5. CASE Make[chain[i]].takes = <<a, b>>
      <4>1. Range(<<a, b>>) = {a, b} /\ <<a, b>> \in Seq({a, b})
        BY FewElements
      <4>2. QED
        BY <3>5, <4>1
    <3>6. QED
      BY <3>2, <3>3, <3>4, <3>5
  <2>5. QED
    BY <2>3, <2>4
<1>5. Len(takes) = k /\ \A i \in 1 .. k : takes[i] = Make[chain[i]].takes
  BY <1>1, <1>3
<1> HIDE DEF takes
<1>6. Len(Reverse(takes)) = k /\ \A i \in 1 .. k : Reverse(takes)[i] = takes[k - i + 1]
  BY <1>1, <1>5 DEF Reverse
<1>7. \A i \in 1 .. k : Reverse(takes)[i] \in Seq(Members(o.cls))
  <2>1. SUFFICES ASSUME NEW i \in 1 .. k PROVE Reverse(takes)[i] \in Seq(Members(o.cls))
    OBVIOUS
  <2>2. k - i + 1 \in 1 .. k
    BY <1>1
  <2>3. QED
    BY <1>4, <1>5, <1>6, <2>2
<1>8. FlattenSeq(Reverse(takes)) \in Seq(Members(o.cls))
  BY <1>1, <1>2, <1>6, <1>7, FewJoined
<1>9. QED
  BY <1>3, <1>8 DEF Wanted, takes

\* Members are such as some destroy method releases.
LEMMA MembersType ==
  ASSUME NEW c \in Roots PROVE Members(c) \subseteq UNION {Releases(d) : d \in Classes}
<1>1. Nearest(c, "destroy") \in Classes
  <2>1. c \in Classes
    BY ClassesAre DEF Names, ErrorNames
  <2>2. Len(Chain[c]) \in 1 .. 3 /\ Chain[c][Len(Chain[c])] = "Object"
    BY <2>1, ChainSteps
  <2>3. "destroy" \in SetBy("Object")
    BY DEF SetBy, ObjectSlots, ObjectLifeSlots
  <2>4. \E j \in 1 .. Len(Chain[c]) : Nearest(c, "destroy") = Chain[c][j]
    BY <2>1, <2>2, <2>3, NearestSets
  <2>5. QED
    BY <2>1, <2>4, ChainSteps
<1>2. QED
  BY <1>1, MembersReleased

\* A finished object with what it wants, or less.
LEMMA WithIsRight ==
  ASSUME TablesInv, NEW p \in Pointers, object[p] # NULL, object[p].next = "return",
         NEW n \in Nat, n <= Len(Wanted(object[p]))
  PROVE  ObjectRight(With(object[p], n), tables)
<1> DEFINE o == object[p]
           w == With(o, n)
           have == {Wanted(o)[k] : k \in 1 .. n}
<1>1. o.ran = Chain[o.cls] /\ Wanted(o) \in Seq(Members(o.cls))
  BY WantedIs
<1>2. /\ ObjectRight(o, tables) /\ o \in Objects /\ o.cls \in Roots
      /\ Len(Chain[o.cls]) \in 1 .. 3
  BY ObjectIs
<1>3. /\ have \subseteq Members(o.cls)
      /\ Members(o.cls) \subseteq UNION {Releases(d) : d \in Classes}
  BY <1>1, <1>2, MembersType
<1> HIDE DEF have
<1>4. w = [cls |-> o.cls, next |-> "done", ran |-> o.ran, held |-> have]
  <2>1. w = [o EXCEPT !.next = "done", !.held = have]
    BY DEF With, have
  <2> HIDE DEF o, w
  <2>2. QED
    BY <1>2, <2>1, ObjectChanged
<1>5. w \in Objects
  BY <1>2, <1>3, <1>4 DEF Objects
<1> HIDE DEF w
<1>6. QED
  BY <1>1, <1>2, <1>3, <1>4, <1>5 DEF ObjectRight, w

\* Nothing is left behind by an object that is as it should be.
LEMMA NothingStays ==
  ASSUME NEW o, ObjectRight(o, tables) PROVE LeftBehind(o) = {}
<1>1. o.cls \in Roots /\ o.cls \in Classes
  BY ClassesAre DEF ObjectRight, Names, ErrorNames
<1>2. "destroy" \in StructOf(o.cls)
  BY <1>1, StructHas DEF ObjectSlots, ObjectLifeSlots
<1>3. tables[o.cls]["destroy"] = Nearest(o.cls, "destroy")
  BY <1>2 DEF ObjectRight, TableRight
<1>4. QED
  BY <1>1, <1>3, MembersReleased DEF LeftBehind, ObjectRight

\* The initialisers return.
LEMMA TablesReturn ==
  ASSUME TablesInv, NEW p \in Pointers, Return(p)
  PROVE  TablesInv'
<1>1. PICK n \in 0 .. Len(Wanted(object[p])) :
        object' = [object EXCEPT ![p] = With(object[p], n)]
  BY DEF Return
<1>2. object[p] # NULL /\ object[p].next = "return" /\ UNCHANGED <<order, tables, leaked>>
  BY DEF Return
<1>3. n \in Nat /\ n <= Len(Wanted(object[p]))
  <2>1. Len(Wanted(object[p])) \in Nat
    BY <1>2, WantedIs
  <2>2. QED
    BY <2>1
<1>4. ObjectRight(With(object[p], n), tables)
  BY <1>2, <1>3, WithIsRight
<1> DEFINE o == With(object[p], n)
<1> HIDE DEF o
<1>5. QED
  BY <1>1, <1>2, <1>4, ObjectStep DEF o

\* The constructor fails, and may leave an error object.
LEMMA TablesReturnFails ==
  ASSUME TablesInv, NEW p \in Pointers, ReturnFails(p)
  PROVE  TablesInv'
<1> DEFINE without == [object EXCEPT ![p] = NULL]
<1>1. /\ object[p] # NULL /\ object[p].next = "return" /\ UNCHANGED <<order, tables>>
      /\ \E n \in {0, Len(Wanted(object[p])) - 1} \cap Nat :
           leaked' = leaked \cup LeftBehind(With(object[p], n))
  BY DEF ReturnFails
<1>2. PICK n \in {0, Len(Wanted(object[p])) - 1} \cap Nat :
        leaked' = leaked \cup LeftBehind(With(object[p], n))
  BY <1>1
<1>3. n \in Nat /\ n <= Len(Wanted(object[p]))
  <2>1. Len(Wanted(object[p])) \in Nat
    BY <1>1, WantedIs
  <2>2. QED
    BY <2>1
<1>4. leaked' = leaked
  <2>1. ObjectRight(With(object[p], n), tables)
    BY <1>1, <1>3, WithIsRight
  <2>2. QED
    BY <1>2, <2>1, NothingStays
<1>5. /\ without \in [Pointers -> Objects \cup {NULL}]
      /\ \A q \in Pointers : without[q] # NULL => ObjectRight(without[q], tables)
  BY DEF TablesInv, ObjectsRight
<1>6. CASE object' = without
  BY <1>1, <1>4, <1>5, <1>6 DEF TablesInv, ObjectsRight
<1>7. CASE object' # without
  <2>1. /\ Made("Error")
        /\ \E e \in ErrPointers : object' = [without EXCEPT ![e] = New("Error")]
    BY <1>7 DEF ReturnFails
  <2>2. PICK e \in ErrPointers : object' = [without EXCEPT ![e] = New("Error")]
    BY <2>1
  <2>3. "Error" \in Roots \ {"Serial"} /\ "Error" \in Classes
    BY ClassesAre DEF Names, ErrorNames
  <2>4. TableRight("Error", tables["Error"])
    BY <2>1, <2>3 DEF Made, TablesInv, TablesRight
  <2>5. ObjectRight(New("Error"), tables) /\ New("Error") \in Objects
    BY <2>3, <2>4, NewIsRight DEF ObjectRight
  <2> HIDE DEF without
  <2>6. /\ object' \in [Pointers -> Objects \cup {NULL}]
        /\ \A q \in Pointers : object'[q] # NULL => ObjectRight(object'[q], tables)
    BY <1>5, <2>2, <2>5 DEF Pointers
  <2>7. QED
    BY <1>1, <1>4, <2>6 DEF TablesInv, ObjectsRight
<1>8. QED
  BY <1>6, <1>7

\* A finished object acquires members.
LEMMA TablesUse ==
  ASSUME TablesInv, NEW p \in Pointers, Use(p)
  PROVE  TablesInv'
<1> DEFINE o == object[p]
<1>1. PICK c \in Range(Chain[o.cls]) :
        object' = [object EXCEPT ![p].held = @ \cup AcquiresLater(c)]
  BY DEF Use
<1> DEFINE n == [o EXCEPT !.held = @ \cup AcquiresLater(c)]
<1>2. /\ o # NULL /\ o.next = "done" /\ UNCHANGED <<order, tables, leaked>>
      /\ object' = [object EXCEPT ![p] = n]
  BY <1>1 DEF Use, Finished, TablesInv, ObjectsRight
<1>3. ObjectRight(o, tables) /\ o \in Objects /\ o.cls \in Roots
  BY <1>2, ObjectIs
<1>4. /\ AcquiresLater(c) \subseteq Members(o.cls)
      /\ Members(o.cls) \subseteq UNION {Releases(d) : d \in Classes}
  BY <1>3, MembersType DEF Members, TakenBy
<1>5. n = [cls |-> o.cls, next |-> o.next, ran |-> o.ran, held |-> o.held \cup AcquiresLater(c)]
  <2>1. o = [cls |-> o.cls, next |-> o.next, ran |-> o.ran, held |-> o.held]
    BY <1>3, ObjectFields
  <2> HIDE DEF o
  <2>2. QED
    BY <2>1
<1>6. n \in Objects
  BY <1>3, <1>4, <1>5 DEF Objects
<1> HIDE DEF n
<1>7. ObjectRight(n, tables)
  BY <1>3, <1>4, <1>5, <1>6 DEF ObjectRight
<1>8. QED
  BY <1>2, <1>7, ObjectStep

\* The last reference goes.
LEMMA TablesDestroy ==
  ASSUME TablesInv, NEW p \in Pointers, Destroy(p)
  PROVE  TablesInv'
<1>1. object[p] # NULL /\ object' = [object EXCEPT ![p] = NULL] /\ UNCHANGED <<order, tables>>
      /\ leaked' = leaked \cup LeftBehind(object[p])
  BY DEF Destroy, Finished
<1>2. LeftBehind(object[p]) = {}
  BY <1>1, ObjectIs, NothingStays
<1>3. QED
  BY <1>1, <1>2, ObjectStep

\* A copy or a comparison is refused.
LEMMA TablesRefuse ==
  ASSUME TablesInv, NEW p \in Pointers, NEW e \in ErrPointers, NEW op, Refuse(p, e, op)
  PROVE  TablesInv'
<1> DEFINE c == IF op = "copy" THEN "CopyError" ELSE "IncomparableError"
<1>1. Made(c) /\ object' = [object EXCEPT ![e] = New(c)] /\ UNCHANGED <<order, tables, leaked>>
  BY DEF Refuse
<1>2. c \in Roots \ {"Serial"} /\ c \in Classes
  BY ClassesAre DEF Names, ErrorNames
<1>3. TableRight(c, tables[c])
  BY <1>1, <1>2 DEF Made, TablesInv, TablesRight
<1> HIDE DEF c
<1>4. QED
  BY <1>1, <1>2, <1>3, NewIsRight, ObjectStep DEF Pointers

\* Every step preserves the invariant.
LEMMA TablesNextInv == TablesInv /\ [Next]_vars => TablesInv'
<1>1. ASSUME TablesInv, Next PROVE TablesInv'
  <2>1. CASE MakeClass
    BY <1>1, <2>1, TablesMakeClass
  <2>2. ASSUME NEW p \in Pointers, NEW c \in Classes, Create(p, c) PROVE TablesInv'
    BY <1>1, <2>2, TablesCreate
  <2>3. ASSUME NEW p \in Pointers, Enter(p) PROVE TablesInv'
    BY <1>1, <2>3, TablesEnter
  <2>4. ASSUME NEW p \in Pointers, Return(p) PROVE TablesInv'
    BY <1>1, <2>4, TablesReturn
  <2>5. ASSUME NEW p \in Pointers, ReturnFails(p) PROVE TablesInv'
    BY <1>1, <2>5, TablesReturnFails
  <2>6. ASSUME NEW p \in Pointers, Use(p) PROVE TablesInv'
    BY <1>1, <2>6, TablesUse
  <2>7. ASSUME NEW p \in Pointers, Destroy(p) PROVE TablesInv'
    BY <1>1, <2>7, TablesDestroy
  <2>8. ASSUME NEW p \in Pointers, NEW e \in ErrPointers, NEW op, Refuse(p, e, op)
        PROVE  TablesInv'
    BY <1>1, <2>8, TablesRefuse
  <2>9. QED
    BY <1>1, <2>1, <2>2, <2>3, <2>4, <2>5, <2>6, <2>7, <2>8 DEF Next
<1>2. TablesInv /\ UNCHANGED vars => TablesInv'
  BY DEF TablesInv, TablesRight, ObjectsRight, vars
<1>3. QED
  BY <1>1, <1>2

\* The invariant implies the properties.
LEMMA TablesInvImplies ==
  ASSUME TablesInv
  PROVE  TypeOK /\ InitialisersOnce /\ EveryCallLands /\ NothingLeaks
<1>1. TypeOK
  <2>1. ASSUME NEW c \in Classes, tables[c] # NULL
        PROVE  DOMAIN tables[c] = StructOf(c) /\ Range(tables[c]) \subseteq Classes \cup {NULL}
    <3>1. tables[c] = [m \in StructOf(c) |-> Nearest(c, m)]
      BY <2>1 DEF TablesInv, TablesRight, TableRight
    <3>2. QED
      BY <3>1, NearestType DEF Range
  <2>2. QED
    BY <2>1 DEF TypeOK, TablesInv, TablesRight, ObjectsRight
<1>2. InitialisersOnce
  <2>1. SUFFICES ASSUME NEW p \in Pointers, object[p] # NULL
                 PROVE  /\ IsPrefix(object[p].ran, Chain[object[p].cls])
                        /\ object[p].next \in {"return", "done"} =>
                             object[p].ran = Chain[object[p].cls]
    BY DEF InitialisersOnce
  <2> DEFINE o == object[p]
             chain == Chain[o.cls]
             k == Len(o.ran)
  <2>2. /\ ObjectRight(o, tables) /\ o.cls \in Classes /\ o.cls \in Roots
        /\ chain \in Seq(Classes) /\ k \in Nat /\ o.ran \in Seq(Classes)
    BY <2>1, ObjectIs
  <2>3. k <= Len(chain) /\ \A i \in 1 .. k : o.ran[i] = chain[i]
    BY <2>2 DEF ObjectRight
  <2>4. SubSeq(o.ran, 1, k) = SubSeq(chain, 1, k)
    BY <2>2, <2>3
  <2>5. ASSUME o.next \in {"return", "done"} PROVE o.ran = chain
    <3>1. k = Len(chain)
      <4>1. SUFFICES ASSUME k < Len(chain) PROVE FALSE
        BY <2>2, <2>3
      <4>2. k + 1 \in 1 .. Len(chain) /\ o.next = Make[chain[k + 1]].slot
        BY <2>2, <4>1 DEF ObjectRight
      <4>3. chain[k + 1] \in Roots
        BY <2>2, <4>2, ChainSteps, ClassesAre
      <4>4. QED
        BY <2>5, <4>2, <4>3, SlotIs DEF InitSlots
    <3>2. QED
      BY <2>2, <2>3, <3>1, SeqEqual
  <2>6. QED
    BY <2>3, <2>4, <2>5 DEF IsPrefix
<1>3. EveryCallLands
  <2>1. SUFFICES ASSUME NEW p \in Pointers, object[p] # NULL, NEW m \in StructOf(object[p].cls)
                 PROVE  LET c == object[p].cls
                        IN  /\ tables[c][m] = Nearest(c, m)
                            /\ tables[c][m] = NULL => m \in {"compare", "copy", "to_string"}
    BY DEF EveryCallLands
  <2> DEFINE c == object[p].cls
  <2>2. TableRight(c, tables[c]) /\ c \in Roots \ {"Serial"}
    BY <2>1, ObjectIs DEF ObjectRight
  <2>3. tables[c][m] = Nearest(c, m)
    BY <2>1, <2>2 DEF TableRight
  <2>4. QED
    BY <2>1, <2>2, <2>3, MethodsLand
<1>4. QED
  BY <1>1, <1>2, <1>3 DEF TablesInv, NothingLeaks

-----------------------------------------------------------------------------
(* The library as a whole *)

\* Every step is one of SeeInit, or changes nothing of it.
LEMMA LibrarySteps ==
  [StartupNext]_allVars => [Lib!Next]_(Lib!vars)
<1>1. ASSUME StartupNext PROVE [Lib!Next]_(Lib!vars)
  <2>1. CASE UNCHANGED libraryVars
    BY <2>1 DEF libraryVars, Lib!vars
  <2>2. QED
    BY <1>1, <2>1 DEF StartupNext
<1>2. UNCHANGED allVars => UNCHANGED Lib!vars
  BY DEF allVars, libraryVars, Lib!vars
<1>3. QED
  BY <1>1, <1>2

\* Every step is one of ErrorInit, or changes nothing of it.
LEMMA ErrorsSteps ==
  [StartupNext]_allVars => [Errors!Next]_(Errors!vars)
<1>1. ASSUME StartupNext PROVE [Errors!Next]_(Errors!vars)
  <2>1. CASE UNCHANGED errorVars
    BY <2>1 DEF errorVars, Errors!vars
  <2>2. QED
    BY <1>1, <2>1 DEF StartupNext
<1>2. UNCHANGED allVars => UNCHANGED Errors!vars
  BY DEF allVars, errorVars, Errors!vars
<1>3. QED
  BY <1>1, <1>2

\* The invariant of see_init holds in every state.
LEMMA LibraryAlways == ASSUME Orderly PROVE StartupSpec => []LibraryInv
<1>1. StartupInit => LibraryInv
  BY LibraryInitInv DEF StartupInit
<1>2. LibraryInv /\ [StartupNext]_allVars => LibraryInv'
  BY LibrarySteps, LibraryNextInv
<1>3. QED
  BY <1>1, <1>2, PTL DEF StartupSpec

\* So does that somebody builds.
LEMMA SomebodyAlwaysBuilds == ASSUME Orderly PROVE StartupSpec => []SomebodyBuilds
<1>1. StartupInit => SomebodyBuilds
  BY DEF StartupInit, Lib!Init, SomebodyBuilds, Inside, InsideLabels
<1>2. LibraryInv /\ LibraryInv' /\ SomebodyBuilds /\ [StartupNext]_allVars
        => SomebodyBuilds'
  BY LibrarySteps, SomebodyBuildsStep
<1>3. QED
  BY <1>1, <1>2, LibraryAlways, PTL DEF StartupSpec

\* The invariant of the error classes holds in every state.
LEMMA ErrorsAlways == StartupSpec => []ErrorsInv
<1>1. StartupInit => ErrorsInv
  BY ErrorsInitInv DEF StartupInit
<1>2. ErrorsInv /\ [StartupNext]_allVars => ErrorsInv'
  BY ErrorsSteps, ErrorsNextInv
<1>3. QED
  BY <1>1, <1>2, PTL DEF StartupSpec

\* So does that see_error_init does not hang.
LEMMA ErrorNeverHangsAlways == StartupSpec => []ErrorNeverHangs
<1>1. StartupInit => ErrorNeverHangs
  BY DEF StartupInit, Errors!Init, ErrorNeverHangs, slot, Calls, NoFrame
<1>2. ErrorsInv /\ ErrorNeverHangs /\ [StartupNext]_allVars => ErrorNeverHangs'
  BY ErrorsSteps, ErrorNeverHangsStep
<1>3. QED
  BY <1>1, <1>2, ErrorsAlways, PTL DEF StartupSpec

\* Every step is one of ClassTables, or changes nothing of it.
LEMMA TablesSteps == [StartupNext]_allVars => [Next]_vars
<1>1. ASSUME StartupNext PROVE [Next]_vars
  BY <1>1 DEF StartupNext
<1>2. UNCHANGED allVars => UNCHANGED vars
  BY DEF allVars
<1>3. QED
  BY <1>1, <1>2

\* The invariant of the tables holds in every state.
LEMMA TablesAlways == StartupSpec => []TablesInv
<1>1. StartupInit => TablesInv
  BY TablesInitInv DEF StartupInit
<1>2. TablesInv /\ [StartupNext]_allVars => TablesInv'
  BY TablesSteps, TablesNextInv
<1>3. QED
  BY <1>1, <1>2, PTL DEF StartupSpec

-----------------------------------------------------------------------------
(* Theorems *)

\* The types of see_init.c: above all, the unsigned counter of users never goes
\* below 0.
THEOREM LibraryTypes == ASSUME Orderly PROVE StartupSpec => []Lib!TypeOK
<1>1. LibraryInv => Lib!TypeOK
  BY DEF LibraryInv
<1>2. QED
  BY <1>1, LibraryAlways, PTL

\* Whoever has got success from see_init finds all classes, until its see_deinit.
THEOREM UsersAreServed == ASSUME Orderly PROVE StartupSpec => []UsersSeeAllClasses
<1>1. LibraryInv => UsersSeeAllClasses
  BY LibraryInvImplies DEF UsersSeeAllClasses
<1>2. QED
  BY <1>1, LibraryAlways, PTL

\* Never do two threads run initialize or deinit at the same time.
THEOREM OneBuilderAlways == ASSUME Orderly PROVE StartupSpec => []OneBuilder
<1>1. LibraryInv => OneBuilder
  BY LibraryInvImplies DEF OneBuilder
<1>2. QED
  BY <1>1, LibraryAlways, PTL

\* When the last see_deinit has returned, no class that deinit knows is left.
THEOREM LastOneCleansUp == ASSUME Orderly PROVE StartupSpec => []ClassesFreed
<1>1. LibraryInv => ClassesFreed
  BY LibraryInvImplies DEF ClassesFreed
<1>2. QED
  BY <1>1, LibraryAlways, PTL

\* With enough memory initialize meets no class that is there already, and none
\* without its parent, in a first and only use of the library.
THEOREM FirstUseWorks == ASSUME Orderly PROVE StartupSpec => []FirstUseSucceeds
<1>1. LibraryInv => FirstUseSucceeds
  BY LibraryInvImplies DEF FirstUseSucceeds
<1>2. QED
  BY <1>1, LibraryAlways, PTL

\* With enough memory nobody waits in see_init for a g_is_init that no thread will
\* set, in a first and only use of the library.
THEOREM NobodyWaitsInVain == ASSUME Orderly PROVE StartupSpec => []WaitersAreServed
<1>1. SomebodyBuilds => WaitersAreServed
  BY DEF SomebodyBuilds, Inside, InsideLabels, WaitersAreServed, Lib!WaitersAreServed
<1>2. QED
  BY <1>1, SomebodyAlwaysBuilds, PTL

\* The class pointers, the counters and the nested calls keep their types.
THEOREM ErrorTypes == StartupSpec => []Errors!TypeOK
<1>1. ErrorsInv => Errors!TypeOK
  BY DEF ErrorsInv
<1>2. QED
  BY <1>1, ErrorsAlways, PTL

\* At most one call is making a class.
THEOREM OneMakerAlways == StartupSpec => []Errors!OneMaker
<1>1. ErrorsInv => Errors!OneMaker
  BY ErrorsInvImplies
<1>2. QED
  BY <1>1, ErrorsAlways, PTL

\* see_error_init and see_copy_error_init make a class once, however many call.
THEOREM ErrorsMadeOnce == StartupSpec => []MadeOnce
<1>1. ErrorsInv => MadeOnce
  BY ErrorsInvImplies DEF MadeOnce
<1>2. QED
  BY <1>1, ErrorsAlways, PTL

\* Their counters are the numbers of calls under way.
THEOREM ErrorCountersExact == StartupSpec => []CounterExact
<1>1. ErrorsInv => CounterExact
  BY ErrorsInvImplies DEF CounterExact
<1>2. QED
  BY <1>1, ErrorsAlways, PTL

\* The callers of the two never all wait: there is no deadlock, although they wait
\* for each other's counters and one calls the other.
THEOREM NeverAllBlocked == StartupSpec => []NoneBlockedForEver
<1>1. ErrorsInv /\ ErrorNeverHangs => NoneBlockedForEver
  BY SomebodyGoesOn DEF NoneBlockedForEver
<1>2. QED
  BY <1>1, ErrorsAlways, ErrorNeverHangsAlways, PTL

\* Their success means that the class is there, as long as calloc works.
THEOREM ErrorSuccessIsTrue == StartupSpec => []SuccessMeansReady
<1>1. ErrorsInv => SuccessMeansReady
  BY ErrorsInvImplies DEF SuccessMeansReady
<1>2. QED
  BY <1>1, ErrorsAlways, PTL

\* The table of a class that is there has the slots of its struct, and in each the
\* method of some class, or none.
THEOREM TableTypes == StartupSpec => []TypeOK
<1>1. TablesInv => TypeOK
  BY TablesInvImplies
<1>2. QED
  BY <1>1, TablesAlways, PTL

\* Whatever its class, in whatever order the classes were made: the initialisers of
\* an object run once each, from its class up to SeeObject.
THEOREM InitialisersRunOnce == StartupSpec => []InitialisersOnce
<1>1. TablesInv => InitialisersOnce
  BY TablesInvImplies
<1>2. QED
  BY <1>1, TablesAlways, PTL

\* A public function that is called on an object of its class, or of one derived
\* from it, finds the method of the nearest class that has one.
THEOREM CallsAlwaysLand == StartupSpec => []EveryCallLands
<1>1. TablesInv => EveryCallLands
  BY TablesInvImplies
<1>2. QED
  BY <1>1, TablesAlways, PTL

\* The destroy method that the last object_decref, or a failed constructor, finds
\* releases everything that any class of the object has taken.
THEOREM NothingEverLeaks == StartupSpec => []NothingLeaks
<1>1. TablesInv => NothingLeaks
  BY TablesInvImplies
<1>2. QED
  BY <1>1, TablesAlways, PTL
=============================================================================
