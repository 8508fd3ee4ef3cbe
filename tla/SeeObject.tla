------------------------------ MODULE SeeObject ------------------------------
(***************************************************************************)
(* The life of SeeObject instances: construction, counted references, and  *)
(* destruction (src/src/SeeObject.c, src/src/atomic_operations.c).         *)
(*                                                                         *)
(* Threads share instances.  A slot is a pointer variable that holds one   *)
(* counted reference: a local variable of a thread, or a member of an      *)
(* instance (the array of a SeeStack, an element of a SeeDynamicArray made *)
(* with see_copy_by_ref, the base time of a SeeClock).  The count changes  *)
(* by an atomic instruction; the thread whose decrement gives 0 then runs  *)
(* the destroy method, in steps that other threads interleave with: it     *)
(* drops the references in the instance's own slots, one by one, each of   *)
(* which may start the destruction of a member first, and frees the        *)
(* memory.  A thread's pending destroy calls are its call stack.           *)
(*                                                                         *)
(* Assumed of the clients, who get no check for it from the library: a     *)
(* thread uses only pointers it can reach, a slot is accessed under the    *)
(* client's own synchronisation, and instances do not own each other in a  *)
(* circle (Rank).                                                          *)
(***************************************************************************)
EXTENDS Integers, FiniteSets, Sequences

CONSTANTS Threads, Objects, Slots, Owner, NULL,
          Rank      \* an instance owns only instances of a lower rank

ASSUME SlotsAssumption ==
  /\ IsFiniteSet(Slots)
  /\ Threads \cap Objects = {}
  /\ Owner \in [Slots -> Threads \cup Objects]
  /\ NULL \notin Objects

ASSUME RankAssumption == Rank \in [Objects -> Nat]

VARIABLES mem,      \* mem[o]: "unallocated", "live" or "freed"
          refcount, \* refcount[o]: obj->refcount
          ptr,      \* ptr[s]: the object slot s designates, or NULL
          stack     \* stack[t]: the instances t is destroying, the inner last

vars == <<mem, refcount, ptr, stack>>

TypeOK ==
  /\ mem \in [Objects -> {"unallocated", "live", "freed"}]
  /\ refcount \in [Objects -> Nat]
  /\ ptr \in [Slots -> Objects \cup {NULL}]
  /\ stack \in [Threads -> Seq(Objects)]

RefsTo(o) == {s \in Slots : ptr[s] = o}

Top(seq) == seq[Len(seq)]

\* The instances thread t can get at: those its own slots designate, and those
\* that the slots of an instance it can get at designate.
Reachable(t) ==
  {o \in Objects :
     \A S \in SUBSET Objects :
        (\A s \in Slots : (Owner[s] = t \/ Owner[s] \in S) /\ ptr[s] # NULL
                             => ptr[s] \in S)
        => o \in S}

\* Thread t may read and write slot s.
Accessible(t, s) == Owner[s] = t \/ Owner[s] \in Reachable(t)

\* t runs client code: it is not inside a destroy method.
Running(t) == stack[t] = <<>>

-----------------------------------------------------------------------------
(* Changed forms of the operations below, for the mutation runs. *)

\* The pointer is copied with plain memcpy instead of see_copy_by_ref.
RefMemcpy(t, from, to) ==
  /\ Running(t)
  /\ Accessible(t, from) /\ Accessible(t, to)
  /\ ptr[from] # NULL
  /\ ptr[to] = NULL
  /\ Owner[to] \in Objects => Rank[ptr[from]] < Rank[Owner[to]]
  /\ ptr' = [ptr EXCEPT ![to] = ptr[from]]
  /\ UNCHANGED <<mem, refcount, stack>>

\* see_atomic_decrement gives the value before the decrement, and the test is
\* adapted to "at most one".
DropRefOldValue(t, s) ==
  LET o == ptr[s]
  IN  /\ ptr' = [ptr EXCEPT ![s] = NULL]
      /\ refcount' = [refcount EXCEPT ![o] = @ - 1]
      /\ stack' = [stack EXCEPT ![t] =
                     IF refcount'[o] <= 1 THEN Append(@, o) ELSE @]

\* The instance is destroyed while the count is positive, by a test on the
\* wrong side of the decrement.
DropRefEager(t, s) ==
  LET o == ptr[s]
  IN  /\ ptr' = [ptr EXCEPT ![s] = NULL]
      /\ refcount' = [refcount EXCEPT ![o] = @ - 1]
      /\ stack' = [stack EXCEPT ![t] =
                     IF refcount'[o] = 1 THEN Append(@, o) ELSE @]

\* object_new forgets to release the instance when cls->init fails.
ObjectNewInitFailsLeaks(t, s, o) ==
  /\ Running(t)
  /\ Accessible(t, s)
  /\ ptr[s] = NULL
  /\ mem[o] = "unallocated"
  /\ mem' = [mem EXCEPT ![o] = "live"]
  /\ UNCHANGED <<refcount, ptr, stack>>

-----------------------------------------------------------------------------
Init ==
  /\ mem = [o \in Objects |-> "unallocated"]
  /\ refcount = [o \in Objects |-> 0]
  /\ ptr = [s \in Slots |-> NULL]
  /\ stack = [t \in Threads |-> <<>>]

\* object_new: the memory is zeroed, object_init sets the count to 1, and *out,
\* which had to be NULL, becomes the only reference.
ObjectNew(t, s, o) ==
  /\ Running(t)
  /\ Accessible(t, s)
  /\ ptr[s] = NULL
  /\ Owner[s] \in Objects => Rank[o] < Rank[Owner[s]]
  /\ mem[o] = "unallocated"
  /\ mem' = [mem EXCEPT ![o] = "live"]
  /\ refcount' = [refcount EXCEPT ![o] = 1]
  /\ ptr' = [ptr EXCEPT ![s] = o]
  /\ UNCHANGED stack

\* object_new when cls->init fails after object_init: the only reference, the
\* local variable new_instance, is dropped and *out stays NULL.
ObjectNewInitFails(t, s, o) ==
  /\ Running(t)
  /\ Accessible(t, s)
  /\ ptr[s] = NULL
  /\ mem[o] = "unallocated"
  /\ mem' = [mem EXCEPT ![o] = "live"]
  /\ refcount' = [refcount EXCEPT ![o] = 0]
  /\ stack' = [stack EXCEPT ![t] = Append(@, o)]
  /\ UNCHANGED ptr

\* see_object_ref, and the copy of the returned pointer into slot "to": of the
\* same thread, of a container, or of another thread it is handed to.
Ref(t, from, to) ==
  /\ Running(t)
  /\ Accessible(t, from)
  /\ Accessible(t, to) \/ Owner[to] \in Threads
  /\ ptr[from] # NULL
  /\ ptr[to] = NULL
  /\ Owner[to] \in Objects => Rank[ptr[from]] < Rank[Owner[to]]
  /\ ptr' = [ptr EXCEPT ![to] = ptr[from]]
  /\ refcount' = [refcount EXCEPT ![ptr[from]] = @ + 1]
  /\ UNCHANGED <<mem, stack>>

\* object_decref: the atomic decrement, and the test of its result.
DropRef(t, s) ==
  LET o == ptr[s]
  IN  /\ ptr' = [ptr EXCEPT ![s] = NULL]
      /\ refcount' = [refcount EXCEPT ![o] = @ - 1]
      /\ stack' = [stack EXCEPT ![t] =
                     IF refcount'[o] = 0 THEN Append(@, o) ELSE @]

\* see_object_decref by a client, of a pointer of its own or of an element it
\* takes out of a container.
Decref(t, s) ==
  /\ Running(t)
  /\ Accessible(t, s)
  /\ ptr[s] # NULL
  /\ DropRef(t, s)
  /\ UNCHANGED mem

\* The destroy method of a composite class drops one of its members.
DestroyMember(t, s) ==
  /\ ~ Running(t)
  /\ Owner[s] = Top(stack[t])
  /\ ptr[s] # NULL
  /\ DropRef(t, s)
  /\ UNCHANGED mem

\* object_destroy, once the members are gone: free(obj), and return.
DestroyFree(t) ==
  /\ ~ Running(t)
  /\ \A s \in Slots : Owner[s] = Top(stack[t]) => ptr[s] = NULL
  /\ mem' = [mem EXCEPT ![Top(stack[t])] = "freed"]
  /\ stack' = [stack EXCEPT ![t] = SubSeq(@, 1, Len(@) - 1)]
  /\ UNCHANGED <<refcount, ptr>>

Destroy(t) == DestroyFree(t) \/ \E s \in Slots : DestroyMember(t, s)

Next ==
  \E t \in Threads :
    \/ \E s \in Slots, o \in Objects :
         ObjectNew(t, s, o) \/ ObjectNewInitFails(t, s, o)
    \/ \E from, to \in Slots : Ref(t, from, to)
    \/ \E s \in Slots : Decref(t, s)
    \/ Destroy(t)

SafeSpec == Init /\ [][Next]_vars

\* A destroy method that has been entered runs on: the operating system
\* schedules every runnable thread.  Clients are free to stop.
Spec == SafeSpec /\ \A t \in Threads : WF_vars(Destroy(t))

-----------------------------------------------------------------------------
(* Properties *)

\* The count of a live instance is the number of slots that designate it,
\* whatever the interleaving of see_object_ref and see_object_decref.
RefcountExact ==
  \A o \in Objects : mem[o] = "live" => refcount[o] = Cardinality(RefsTo(o))

\* No slot designates freed memory: object_decref frees nothing that another
\* thread or container still refers to.
ReferencesAreLive ==
  \A s \in Slots : ptr[s] # NULL => mem[ptr[s]] = "live"

\* An instance is destroyed by one thread, once, and its memory is there until
\* that call frees it.
DestroyedOnce ==
  \A t, u \in Threads : \A i \in DOMAIN stack[t], j \in DOMAIN stack[u] :
    /\ mem[stack[t][i]] = "live"
    /\ stack[t][i] = stack[u][j] => t = u /\ i = j

\* A live instance that nothing designates is being destroyed by some thread.
NoneForgotten ==
  \A o \in Objects :
    mem[o] = "live" /\ RefsTo(o) = {}
      => \E t \in Threads : \E i \in DOMAIN stack[t] : stack[t][i] = o

\* Memory that has been freed took no reference along: its slots are empty.
FreedOwnNothing ==
  \A s \in Slots : Owner[s] \in Objects =>
    (mem[Owner[s]] # "live" => ptr[s] = NULL)

\* The counted references implement the collector that sees all pointers.
GC == INSTANCE Collector

ImplementsCollector == GC!Spec
=============================================================================
