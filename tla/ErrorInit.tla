------------------------------ MODULE ErrorInit ------------------------------
(***************************************************************************)
(* The two class initialisers that may be called by several threads at any *)
(* time: see_error_init (src/src/Error.c) and see_copy_error_init          *)
(* (src/src/CopyError.c), which calls the former when its parent is        *)
(* missing.  Each looks at the class pointer, then counts itself in; the   *)
(* caller that counts 1 makes the class, the others wait until the counter *)
(* is back at 0.                                                           *)
(*                                                                         *)
(* A thread inside the functions has a call stack of frames; a frame is    *)
(* the class it initialises, the place it is at, and the result so far.    *)
(* The meta class is there, and no class is deinitialised.                 *)
(***************************************************************************)
EXTENDS Integers, Sequences, FiniteSets

CONSTANTS Threads,
          Scenarios   \* the circumstances a run may have, of which it has one

\* allocFails: calloc may return NULL.  rereads: the loop of
\* see_copy_error_init, on a plain int, is compiled to load it every time round.
ScenarioType == [allocFails : BOOLEAN, rereads : BOOLEAN]

Classes == {"Error", "CopyError"}

VARIABLES made,         \* the classes whose global pointer is not NULL
          creations,    \* creations[c]: the class objects of c allocated so far
          initializing, \* initializing[c]: g_error_initialize, g_copy_error_initialize
          frames,       \* frames[t]: the call stack of thread t
          returned,     \* returned[t]: class and result of the last call by t
          scenario      \* the circumstances of this run; never changes

vars == <<made, creations, initializing, frames, returned, scenario>>

Places == {"check", "enter", "parent", "test", "store", "leave", "wait", "hung"}

Frame == [cls : Classes, at : Places, ret : {"success", "error"}]

TypeOK ==
  /\ made \subseteq Classes
  /\ creations \in [Classes -> Nat]
  /\ initializing \in [Classes -> Nat]
  /\ frames \in [Threads -> Seq(Frame)]
  /\ returned \in [Threads -> [cls : Classes, ret : {"none", "success", "error"}]]
  /\ scenario \in Scenarios

\* Thread t is at place p of its innermost call, which initialises class c.
At(t, p, c) ==
  /\ frames[t] # <<>>
  /\ frames[t][Len(frames[t])].at = p
  /\ frames[t][Len(frames[t])].cls = c

\* Its innermost call goes on at place p.
Goto(t, p) == frames' = [frames EXCEPT ![t][Len(frames[t])].at = p]

\* Its innermost call goes on at "leave" with an error.
GotoError(t) ==
  frames' = [frames EXCEPT ![t][Len(frames[t])] =
               [cls |-> @.cls, at |-> "leave", ret |-> "error"]]

\* Its innermost call returns r: to the client, or to see_copy_error_init,
\* which ignores it.
Return(t, c, r) ==
  /\ frames' = [frames EXCEPT ![t] = SubSeq(@, 1, Len(@) - 1)]
  /\ returned' = IF Len(frames[t]) = 1
                 THEN [returned EXCEPT ![t] = [cls |-> c, ret |-> r]]
                 ELSE returned

NewFrame(c) == [cls |-> c, at |-> "check", ret |-> "success"]

-----------------------------------------------------------------------------
(* Changed forms of the operations below, for the mutation runs. *)

\* Only the caller that makes the class leaves the count.
LeaveMakerOnly(t, c) ==
  /\ At(t, "leave", c)
  /\ initializing' = [initializing EXCEPT ![c] = IF c \in made THEN @ - 1 ELSE @]
  /\ Goto(t, "wait")
  /\ UNCHANGED <<made, creations, returned, scenario>>

\* The maker leaves the count before it makes the class, and the callers that
\* wait do not see that it is still busy.
NoWait(t, c) ==
  /\ At(t, "wait", c)
  /\ Return(t, c, frames[t][Len(frames[t])].ret)
  /\ UNCHANGED <<made, creations, initializing, scenario>>

\* *out is not tested before the class is made.
TestNothing(t, c) ==
  /\ At(t, "test", c)
  /\ IF c = "CopyError" /\ "Error" \notin made THEN GotoError(t)
                                             ELSE Goto(t, "store")
  /\ UNCHANGED <<made, creations, initializing, returned, scenario>>

\* A maker without memory returns at once, and stays in the count.
StoreFailsCounted(t, c) ==
  /\ scenario.allocFails
  /\ At(t, "store", c)
  /\ Return(t, c, "error")
  /\ UNCHANGED <<made, creations, initializing, scenario>>

-----------------------------------------------------------------------------
Init ==
  /\ made = {}
  /\ creations = [c \in Classes |-> 0]
  /\ initializing = [c \in Classes |-> 0]
  /\ frames = [t \in Threads |-> <<>>]
  /\ returned = [t \in Threads |-> [cls |-> "Error", ret |-> "none"]]
  /\ scenario \in Scenarios

\* A client calls see_error_init or see_copy_error_init.
Call(t, c) ==
  /\ frames[t] = <<>>
  /\ frames' = [frames EXCEPT ![t] = <<NewFrame(c)>>]
  /\ returned' = [returned EXCEPT ![t] = [cls |-> c, ret |-> "none"]]
  /\ UNCHANGED <<made, creations, initializing, scenario>>

\* The class pointer is looked at, without synchronisation.
Check(t, c) ==
  /\ At(t, "check", c)
  /\ IF c \in made
     THEN Return(t, c, "success")
     ELSE Goto(t, "enter") /\ UNCHANGED returned
  /\ UNCHANGED <<made, creations, initializing, scenario>>

\* see_atomic_increment, and the test of its result.
Enter(t, c) ==
  /\ At(t, "enter", c)
  /\ initializing' = [initializing EXCEPT ![c] = @ + 1]
  /\ Goto(t, IF initializing[c] > 0 THEN "leave"
             ELSE IF c = "CopyError" THEN "parent" ELSE "test")
  /\ UNCHANGED <<made, creations, returned, scenario>>

\* see_copy_error_init calls see_error_init when see_error_class() is NULL.
FindParent(t) ==
  /\ At(t, "parent", "CopyError")
  /\ LET n == Len(frames[t])
         going == [frames EXCEPT ![t][n].at = "test"]
     IN  frames' = IF "Error" \in made
                   THEN going
                   ELSE [going EXCEPT ![t] = Append(@, NewFrame("Error"))]
  /\ UNCHANGED <<made, creations, initializing, returned, scenario>>

\* The tests of see_meta_class_new_class: *out must be NULL, and the parent
\* must not.  (A debug build stops at assert(parent) in the latter case.)
Test(t, c) ==
  /\ At(t, "test", c)
  /\ IF c \in made \/ (c = "CopyError" /\ "Error" \notin made)
     THEN GotoError(t)
     ELSE Goto(t, "store")
  /\ UNCHANGED <<made, creations, initializing, returned, scenario>>

\* new_cls allocates the class, initialises it and stores it.
Store(t, c) ==
  /\ At(t, "store", c)
  /\ made' = made \cup {c}
  /\ creations' = [creations EXCEPT ![c] = @ + 1]
  /\ Goto(t, "leave")
  /\ UNCHANGED <<initializing, returned, scenario>>

\* calloc fails in new_cls.
StoreFails(t, c) ==
  /\ scenario.allocFails
  /\ At(t, "store", c)
  /\ GotoError(t)
  /\ UNCHANGED <<made, creations, initializing, returned, scenario>>

\* see_atomic_decrement.
Leave(t, c) ==
  /\ At(t, "leave", c)
  /\ initializing' = [initializing EXCEPT ![c] = @ - 1]
  /\ Goto(t, "wait")
  /\ UNCHANGED <<made, creations, returned, scenario>>

\* The waiting loop finds the counter at 0.
Wait(t, c) ==
  /\ At(t, "wait", c)
  /\ initializing[c] = 0
  /\ Return(t, c, frames[t][Len(frames[t])].ret)
  /\ UNCHANGED <<made, creations, initializing, scenario>>

\* The counter of see_copy_error_init may have been loaded once for all.
WaitHangs(t) ==
  /\ ~ scenario.rereads
  /\ At(t, "wait", "CopyError")
  /\ initializing["CopyError"] # 0
  /\ Goto(t, "hung")
  /\ UNCHANGED <<made, creations, initializing, returned, scenario>>

\* The steps of thread t inside the functions.
Library(t) ==
  \/ \E c \in Classes :
       \/ Check(t, c) \/ Enter(t, c) \/ Test(t, c) \/ Store(t, c)
       \/ StoreFails(t, c) \/ Leave(t, c) \/ Wait(t, c)
  \/ FindParent(t) \/ WaitHangs(t)

Next == \E t \in Threads : Library(t) \/ \E c \in Classes : Call(t, c)

\* A thread inside the functions is scheduled.
Spec == Init /\ [][Next]_vars /\ \A t \in Threads : WF_vars(Library(t))

-----------------------------------------------------------------------------
(* Properties *)

\* Two threads never make the same class at the same time.
OneMaker ==
  \A t, u \in Threads : \A i \in DOMAIN frames[t], j \in DOMAIN frames[u] :
    /\ frames[t][i].cls = frames[u][j].cls
    /\ {frames[t][i].at, frames[u][j].at} \subseteq {"parent", "test", "store"}
    => t = u /\ i = j

\* A class is made once: no second class object replaces, and leaks, the
\* first while other threads already use it.
MadeOnce == \A c \in Classes : creations[c] <= 1

\* Success means that the class is ready for use, as long as no allocation
\* fails: the threads that waited do not look at what the maker achieved.
SuccessMeansReady ==
  \A t \in Threads :
    returned[t].ret = "success" /\ ~ scenario.allocFails
      => returned[t].cls \in made

\* The calls of the initialiser of c that are counted in.
Counted(c) ==
  {call \in Threads \X (1 .. 2) :
     LET t == call[1]
         i == call[2]
     IN  /\ i \in DOMAIN frames[t]
         /\ frames[t][i].cls = c
         /\ frames[t][i].at \in {"parent", "test", "store", "leave"}}

\* The counter is the number of calls under way, nested ones included: it is
\* 0 again when all have left, so that the next caller can make the class.
CounterExact == \A c \in Classes : initializing[c] = Cardinality(Counted(c))

\* Caller t cannot go on: its innermost call waits for a counter that is not 0,
\* or looks at it no more.
Blocked(t) ==
  \E c \in Classes :
    At(t, "hung", c) \/ (At(t, "wait", c) /\ initializing[c] # 0)

\* The callers never all wait for each other, although the call that makes
\* CopyError may itself wait, inside, for one that makes Error: while a counter
\* keeps a caller waiting, another caller is on its way to lowering it.
NoneBlockedForEver ==
  \A t \in Threads, c \in Classes :
    At(t, "wait", c) /\ initializing[c] # 0
      => \E u \in Threads : frames[u] # <<>> /\ ~ Blocked(u)

\* Every call returns, with enough memory and a loop that reads the counter.
\* (Callers whose allocations fail again and again may keep the counter of
\* another caller's loop above 0 whenever that one looks.)
Returns ==
  \A t \in Threads :
    frames[t] # <<>> /\ scenario = [allocFails |-> FALSE, rereads |-> TRUE]
      ~> frames[t] = <<>>
=============================================================================
