------------------------------ MODULE Collector ------------------------------
(***************************************************************************)
(* What the reference counting of see-object promises to its clients: it   *)
(* behaves as a collector that looks at every pointer of the program.  A   *)
(* live object that some counted pointer designates is never freed, and a  *)
(* live object that no counted pointer designates gives up the pointers it *)
(* owns and is then freed.  No reference count appears here.               *)
(***************************************************************************)
CONSTANTS Objects,  \* the instances the clients may allocate
          Slots,    \* the pointer variables that hold a counted reference
          Owner,    \* Owner[s]: the thread or the instance whose variable s is
          NULL

VARIABLES mem,      \* mem[o]: "unallocated", "live" or "freed"
          ptr       \* ptr[s]: the object that pointer s designates, or NULL

vars == <<mem, ptr>>

Garbage(o) == mem[o] = "live" /\ \A s \in Slots : ptr[s] # o

Init ==
  /\ mem = [o \in Objects |-> "unallocated"]
  /\ ptr = [s \in Slots |-> NULL]

\* A constructor succeeds and its result is stored in s.
Allocate(s, o) ==
  /\ mem[o] = "unallocated"
  /\ ptr[s] = NULL
  /\ mem' = [mem EXCEPT ![o] = "live"]
  /\ ptr' = [ptr EXCEPT ![s] = o]

\* A constructor fails half way: the instance is born as garbage.
AllocateGarbage(o) ==
  /\ mem[o] = "unallocated"
  /\ mem' = [mem EXCEPT ![o] = "live"]
  /\ UNCHANGED ptr

\* A counted pointer is copied.
Share(from, to) ==
  /\ ptr[from] # NULL
  /\ ptr[to] = NULL
  /\ ptr' = [ptr EXCEPT ![to] = ptr[from]]
  /\ UNCHANGED mem

\* A counted pointer is given up.
Drop(s) ==
  /\ ptr[s] # NULL
  /\ ptr' = [ptr EXCEPT ![s] = NULL]
  /\ UNCHANGED mem

\* Garbage gives up one of the pointers it owns.
DropMember(s) ==
  /\ Owner[s] \in Objects
  /\ Garbage(Owner[s])
  /\ Drop(s)

\* Garbage that owns nothing any more is freed.
Reclaim(o) ==
  /\ Garbage(o)
  /\ \A s \in Slots : Owner[s] = o => ptr[s] = NULL
  /\ mem' = [mem EXCEPT ![o] = "freed"]
  /\ UNCHANGED ptr

Next ==
  \/ \E s \in Slots, o \in Objects : Allocate(s, o)
  \/ \E o \in Objects : AllocateGarbage(o) \/ Reclaim(o)
  \/ \E from, to \in Slots : Share(from, to)
  \/ \E s \in Slots : Drop(s)

SafeSpec == Init /\ [][Next]_vars

\* All garbage is collected in the end, the members of garbage included.
Spec ==
  /\ SafeSpec
  /\ \A o \in Objects : WF_vars(Reclaim(o))
  /\ \A s \in Slots : WF_vars(DropMember(s))
=============================================================================
