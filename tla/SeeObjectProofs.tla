--------------------------- MODULE SeeObjectProofs ---------------------------
(***************************************************************************)
(* Proofs about SeeObject, for any number of threads, instances and slots. *)
(* The inductive invariant IInv says that the counter of every instance is *)
(* the number of slots that designate it, also before it is allocated and  *)
(* after it is freed, and that what a thread is destroying has no          *)
(* references left.                                                        *)
(***************************************************************************)
EXTENDS SeeObject, FiniteSetTheorems, TLAPS

\* Whatever is on a call stack is designated by no slot.
StackUnreferenced ==
  \A t \in Threads : \A i \in DOMAIN stack[t] : RefsTo(stack[t][i]) = {}

CountExact == \A o \in Objects : refcount[o] = Cardinality(RefsTo(o))

IInv ==
  /\ TypeOK
  /\ CountExact
  /\ ReferencesAreLive
  /\ DestroyedOnce
  /\ StackUnreferenced
  /\ NoneForgotten
  /\ FreedOwnNothing

-----------------------------------------------------------------------------
(* Lemmas *)

\* The references to an object can be counted.
LEMMA RefsFinite ==
  ASSUME NEW o PROVE IsFiniteSet(RefsTo(o)) /\ Cardinality(RefsTo(o)) \in Nat
<1>1. IsFiniteSet(RefsTo(o))
  BY SlotsAssumption, FS_Subset DEF RefsTo
<1>2. QED
  BY <1>1, FS_CardinalityType

\* Every instance a thread can reach is designated by some slot.
LEMMA ReachableIsReferenced ==
  ASSUME TypeOK, NEW t, NEW c \in Reachable(t)
  PROVE  RefsTo(c) # {}
<1> DEFINE S == {o \in Objects : RefsTo(o) # {}}
<1>1. S \in SUBSET Objects
  OBVIOUS
<1>2. \A s \in Slots : ptr[s] # NULL => ptr[s] \in S
  BY DEF TypeOK, RefsTo
<1>3. c \in S
  BY <1>1, <1>2 DEF Reachable
<1>4. QED
  BY <1>3

\* A slot that a running thread may write belongs to no freed instance.
LEMMA AccessibleOwnerLive ==
  ASSUME IInv, NEW t \in Threads, NEW s \in Slots,
         Accessible(t, s) \/ Owner[s] \in Threads, Owner[s] \in Objects
  PROVE  mem[Owner[s]] = "live"
<1>1. Owner[s] \in Reachable(t)
  BY SlotsAssumption DEF Accessible
<1>2. RefsTo(Owner[s]) # {}
  BY <1>1, ReachableIsReferenced DEF IInv
<1>3. QED
  BY <1>2, SlotsAssumption DEF RefsTo, IInv, ReferencesAreLive

\* Storing a pointer adds one slot to the references of its target.
LEMMA StoreRefs ==
  ASSUME TypeOK, NEW s \in Slots, NEW o \in Objects, ptr[s] = NULL,
         ptr' = [ptr EXCEPT ![s] = o]
  PROVE  /\ RefsTo(o)' = RefsTo(o) \cup {s}
         /\ s \notin RefsTo(o)
         /\ \A x \in Objects : x # o => RefsTo(x)' = RefsTo(x)
         /\ Cardinality(RefsTo(o)') = Cardinality(RefsTo(o)) + 1
<1>1. /\ RefsTo(o)' = RefsTo(o) \cup {s}
      /\ s \notin RefsTo(o)
  BY SlotsAssumption DEF RefsTo, TypeOK
<1>2. \A x \in Objects : x # o => RefsTo(x)' = RefsTo(x)
  BY SlotsAssumption DEF RefsTo, TypeOK
<1>3. Cardinality(RefsTo(o) \cup {s}) = Cardinality(RefsTo(o)) + 1
  BY <1>1, RefsFinite, FS_AddElement
<1>4. QED
  BY <1>1, <1>2, <1>3

\* Clearing a slot takes it from the references of its target.
LEMMA ClearRefs ==
  ASSUME TypeOK, NEW s \in Slots, NEW o \in Objects, ptr[s] = o,
         ptr' = [ptr EXCEPT ![s] = NULL]
  PROVE  /\ RefsTo(o)' = RefsTo(o) \ {s}
         /\ s \in RefsTo(o)
         /\ \A x \in Objects : x # o => RefsTo(x)' = RefsTo(x)
         /\ Cardinality(RefsTo(o)') = Cardinality(RefsTo(o)) - 1
<1>1. s \in RefsTo(o)
  BY DEF RefsTo
<1>2. \A x \in Objects : x # o => RefsTo(x)' = RefsTo(x)
  BY SlotsAssumption DEF RefsTo, TypeOK
<1>3. RefsTo(o)' = RefsTo(o) \ {s}
  BY SlotsAssumption DEF RefsTo, TypeOK
<1>4. Cardinality(RefsTo(o) \ {s}) = Cardinality(RefsTo(o)) - 1
  BY <1>1, RefsFinite, FS_RemoveElement
<1>5. QED
  BY <1>1, <1>2, <1>3, <1>4

-----------------------------------------------------------------------------
(* The inductive invariant *)

\* No count is wrong and nothing is allocated at the start.
LEMMA InitIInv == Init => IInv
<1> SUFFICES ASSUME Init PROVE IInv
  OBVIOUS
<1>1. TypeOK
  BY DEF Init, TypeOK
<1>2. \A o \in Objects : RefsTo(o) = {}
  BY SlotsAssumption DEF Init, RefsTo
<1>3. CountExact
  BY <1>2, FS_EmptySet DEF Init, CountExact
<1>4. ReferencesAreLive /\ NoneForgotten /\ FreedOwnNothing
  BY DEF Init, ReferencesAreLive, NoneForgotten, FreedOwnNothing
<1>5. DestroyedOnce /\ StackUnreferenced
  BY DEF Init, DestroyedOnce, StackUnreferenced
<1>6. QED
  BY <1>1, <1>3, <1>4, <1>5 DEF IInv

\* A constructor that succeeds preserves the invariant.
LEMMA ObjectNewIInv ==
  ASSUME IInv, NEW t \in Threads, NEW s \in Slots, NEW o \in Objects,
         ObjectNew(t, s, o)
  PROVE  IInv'
<1> USE DEF IInv
<1>1. /\ ptr[s] = NULL /\ mem[o] = "unallocated"
      /\ mem' = [mem EXCEPT ![o] = "live"]
      /\ refcount' = [refcount EXCEPT ![o] = 1]
      /\ ptr' = [ptr EXCEPT ![s] = o]
      /\ stack' = stack
  BY DEF ObjectNew
<1>2. TypeOK'
  BY <1>1 DEF TypeOK
<1>3. RefsTo(o) = {}
  BY <1>1, SlotsAssumption DEF RefsTo, ReferencesAreLive, TypeOK
<1>4. /\ \A x \in Objects : x # o => RefsTo(x)' = RefsTo(x)
      /\ Cardinality(RefsTo(o)') = 1
      /\ s \in RefsTo(o)'
  <2>1. /\ RefsTo(o)' = RefsTo(o) \cup {s}
        /\ \A x \in Objects : x # o => RefsTo(x)' = RefsTo(x)
        /\ Cardinality(RefsTo(o)') = Cardinality(RefsTo(o)) + 1
    BY <1>1, StoreRefs
  <2>2. Cardinality(RefsTo(o)) = 0
    BY <1>3, FS_EmptySet
  <2>3. QED
    BY <2>1, <2>2
<1>5. CountExact'
  BY <1>1, <1>4 DEF CountExact, TypeOK
<1>6. ReferencesAreLive'
  BY <1>1 DEF ReferencesAreLive, TypeOK
<1>7. \A u \in Threads : \A i \in DOMAIN stack[u] :
         stack[u][i] # o /\ stack[u][i] \in Objects
  BY <1>1 DEF DestroyedOnce, TypeOK
<1>8. DestroyedOnce'
  BY <1>1, <1>7 DEF DestroyedOnce, TypeOK
<1>9. StackUnreferenced'
  BY <1>1, <1>4, <1>7 DEF StackUnreferenced
<1>10. NoneForgotten'
  BY <1>1, <1>4 DEF NoneForgotten, TypeOK
<1>11. FreedOwnNothing'
  <2>1. Owner[s] \in Objects => mem[Owner[s]] = "live"
    BY AccessibleOwnerLive DEF ObjectNew
  <2>2. QED
    BY <1>1, <2>1, SlotsAssumption DEF FreedOwnNothing, TypeOK
<1>12. QED
  BY <1>2, <1>5, <1>6, <1>8, <1>9, <1>10, <1>11

\* A constructor that fails hands the instance to the destroyer.
LEMMA ObjectNewInitFailsIInv ==
  ASSUME IInv, NEW t \in Threads, NEW s \in Slots, NEW o \in Objects,
         ObjectNewInitFails(t, s, o)
  PROVE  IInv'
<1> USE DEF IInv
<1>1. /\ mem[o] = "unallocated" /\ stack[t] = <<>>
      /\ mem' = [mem EXCEPT ![o] = "live"]
      /\ refcount' = [refcount EXCEPT ![o] = 0]
      /\ stack' = [stack EXCEPT ![t] = Append(@, o)]
      /\ ptr' = ptr
  BY DEF ObjectNewInitFails, Running
<1>2. TypeOK'
  BY <1>1 DEF TypeOK
<1>3. \A x : RefsTo(x)' = RefsTo(x)
  BY <1>1 DEF RefsTo
<1>4. RefsTo(o) = {}
  BY <1>1, SlotsAssumption DEF RefsTo, ReferencesAreLive, TypeOK
<1>5. CountExact'
  BY <1>1, <1>3, <1>4, FS_EmptySet DEF CountExact, TypeOK
<1>6. ReferencesAreLive'
  BY <1>1 DEF ReferencesAreLive, TypeOK
<1>7. /\ stack'[t] = <<o>>
      /\ DOMAIN stack'[t] = {1} /\ stack'[t][1] = o
      /\ \A u \in Threads : u # t => stack'[u] = stack[u]
  BY <1>1 DEF TypeOK
<1>8. \A u \in Threads : \A i \in DOMAIN stack[u] :
         stack[u][i] # o /\ stack[u][i] \in Objects
  BY <1>1 DEF DestroyedOnce, TypeOK
<1>9. DestroyedOnce'
  <2>1. mem'[o] = "live" /\ \A x \in Objects : x # o => mem'[x] = mem[x]
    BY <1>1 DEF TypeOK
  <2>2. QED
    BY <1>7, <1>8, <2>1 DEF DestroyedOnce
<1>10. StackUnreferenced'
  BY <1>3, <1>4, <1>7 DEF StackUnreferenced
<1>11. NoneForgotten'
  <2> SUFFICES ASSUME NEW x \in Objects, mem'[x] = "live", RefsTo(x)' = {}
               PROVE  \E u \in Threads : \E i \in DOMAIN stack'[u] :
                        stack'[u][i] = x
    BY DEF NoneForgotten
  <2>1. CASE x = o
    BY <2>1, <1>7
  <2>2. CASE x # o
    <3>1. PICK u \in Threads : \E i \in DOMAIN stack[u] : stack[u][i] = x
      BY <2>2, <1>1, <1>3 DEF NoneForgotten, TypeOK
    <3>2. u # t
      BY <3>1, <1>1
    <3>3. QED
      BY <3>1, <3>2, <1>7
  <2>3. QED
    BY <2>1, <2>2
<1>12. FreedOwnNothing'
  BY <1>1, SlotsAssumption DEF FreedOwnNothing, TypeOK
<1>13. QED
  BY <1>2, <1>5, <1>6, <1>9, <1>10, <1>11, <1>12

\* Copying a reference preserves the invariant.
LEMMA RefIInv ==
  ASSUME IInv, NEW t \in Threads, NEW from \in Slots, NEW to \in Slots,
         Ref(t, from, to)
  PROVE  IInv'
<1> USE DEF IInv
<1>0. PICK o \in Objects : o = ptr[from]
  BY DEF Ref, TypeOK
<1>1. /\ ptr[to] = NULL
      /\ ptr' = [ptr EXCEPT ![to] = o]
      /\ refcount' = [refcount EXCEPT ![o] = refcount[o] + 1]
      /\ mem' = mem /\ stack' = stack
  BY <1>0 DEF Ref, TypeOK
<1>2. from \in RefsTo(o) /\ mem[o] = "live"
  BY <1>0 DEF RefsTo, ReferencesAreLive, Ref
<1>3. TypeOK'
  BY <1>1 DEF TypeOK
<1>4. /\ RefsTo(o)' = RefsTo(o) \cup {to}
      /\ \A x \in Objects : x # o => RefsTo(x)' = RefsTo(x)
      /\ Cardinality(RefsTo(o)') = Cardinality(RefsTo(o)) + 1
  BY <1>1, StoreRefs
<1>5. CountExact'
  BY <1>1, <1>4 DEF CountExact, TypeOK
<1>6. ReferencesAreLive'
  BY <1>1, <1>2 DEF ReferencesAreLive, TypeOK
<1>7. DestroyedOnce'
  BY <1>1 DEF DestroyedOnce
<1>8. StackUnreferenced'
  BY <1>1, <1>2, <1>4 DEF StackUnreferenced, TypeOK
<1>9. NoneForgotten'
  BY <1>1, <1>2, <1>4 DEF NoneForgotten
<1>10. FreedOwnNothing'
  <2>1. Owner[to] \in Objects => mem[Owner[to]] = "live"
    BY AccessibleOwnerLive DEF Ref
  <2>2. QED
    BY <1>1, <2>1, SlotsAssumption DEF FreedOwnNothing, TypeOK
<1>11. QED
  BY <1>3, <1>5, <1>6, <1>7, <1>8, <1>9, <1>10

\* Giving up a reference preserves the invariant, whether the thread is inside
\* a destroy method or not.
LEMMA DropRefIInv ==
  ASSUME IInv, NEW t \in Threads, NEW s \in Slots, ptr[s] # NULL,
         DropRef(t, s), mem' = mem
  PROVE  IInv'
<1> USE DEF IInv
<1>0. PICK o \in Objects : o = ptr[s]
  BY DEF TypeOK
<1>1. /\ ptr' = [ptr EXCEPT ![s] = NULL]
      /\ refcount' = [refcount EXCEPT ![o] = refcount[o] - 1]
      /\ stack' = [stack EXCEPT ![t] =
                     IF refcount[o] - 1 = 0 THEN Append(stack[t], o) ELSE stack[t]]
  BY <1>0 DEF DropRef, TypeOK
<1>2. mem[o] = "live" /\ ptr[s] = o
  BY <1>0 DEF ReferencesAreLive
<1>3. /\ RefsTo(o)' = RefsTo(o) \ {s}
      /\ s \in RefsTo(o)
      /\ \A x \in Objects : x # o => RefsTo(x)' = RefsTo(x)
      /\ Cardinality(RefsTo(o)') = Cardinality(RefsTo(o)) - 1
  BY <1>1, <1>2, ClearRefs
<1>4. refcount[o] = Cardinality(RefsTo(o)) /\ refcount[o] - 1 \in Nat
  <2>1. Cardinality(RefsTo(o)) \in Nat /\ Cardinality(RefsTo(o)) # 0
    BY <1>3, RefsFinite, FS_EmptySet
  <2>2. QED
    BY <1>1, <2>1 DEF CountExact
<1>5. TypeOK'
  BY <1>1, <1>4 DEF TypeOK
<1>6. CountExact'
  BY <1>1, <1>3, <1>4 DEF CountExact, TypeOK
<1>7. ReferencesAreLive'
  BY <1>1 DEF ReferencesAreLive, TypeOK
<1>8. \A u \in Threads : \A i \in DOMAIN stack[u] : stack[u][i] # o
  BY <1>3 DEF StackUnreferenced
<1>9. \A x \in Objects : RefsTo(x) = {} => RefsTo(x)' = {}
  BY <1>3
<1>10. RefsTo(o)' = {} <=> refcount[o] - 1 = 0
  BY <1>3, <1>4, <1>6, RefsFinite, FS_EmptySet, FS_RemoveElement
<1>11. CASE refcount[o] - 1 = 0
  <2>1. /\ stack'[t] = Append(stack[t], o)
        /\ \A u \in Threads : u # t => stack'[u] = stack[u]
    BY <1>1, <1>11 DEF TypeOK
  <2>2. \A i \in DOMAIN stack'[t] :
          \/ i \in DOMAIN stack[t] /\ stack'[t][i] = stack[t][i]
          \/ i = Len(stack[t]) + 1 /\ stack'[t][i] = o
    BY <2>1 DEF TypeOK
  <2>3. \A i \in DOMAIN stack[t] :
          i \in DOMAIN stack'[t] /\ stack'[t][i] = stack[t][i]
    BY <2>1 DEF TypeOK
  <2>4. Len(stack[t]) + 1 \in DOMAIN stack'[t]
        /\ stack'[t][Len(stack[t]) + 1] = o
    BY <2>1 DEF TypeOK
  <2>5. DestroyedOnce'
    BY <1>2, <1>8, <2>1, <2>2, SMTT(30) DEF DestroyedOnce
  <2>6. StackUnreferenced'
    <3> SUFFICES ASSUME NEW u \in Threads, NEW i \in DOMAIN stack'[u],
                        NEW x, x = stack'[u][i]
                 PROVE  RefsTo(x)' = {}
      BY DEF StackUnreferenced
    <3>1. CASE x = o
      BY <3>1, <1>10, <1>11
    <3>2. CASE x # o
      <4>1. i \in DOMAIN stack[u] /\ x = stack[u][i]
        BY <3>2, <2>1, <2>2
      <4>2. x \in Objects /\ RefsTo(x) = {}
        BY <4>1 DEF StackUnreferenced, TypeOK
      <4>3. QED
        BY <4>2, <1>9
    <3>3. QED
      BY <3>1, <3>2
  <2>7. NoneForgotten'
    <3> SUFFICES ASSUME NEW x \in Objects, mem[x] = "live", RefsTo(x)' = {}
                 PROVE  \E u \in Threads : \E i \in DOMAIN stack'[u] :
                          stack'[u][i] = x
      BY DEF NoneForgotten
    <3>1. CASE x = o
      BY <3>1, <2>4
    <3>2. CASE x # o
      BY <3>2, <1>3, <2>1, <2>3 DEF NoneForgotten
    <3>3. QED
      BY <3>1, <3>2
  <2>8. FreedOwnNothing'
    BY <1>1, SlotsAssumption DEF FreedOwnNothing, TypeOK
  <2>9. QED
    BY <1>5, <1>6, <1>7, <2>5, <2>6, <2>7, <2>8
<1>12. CASE refcount[o] - 1 # 0
  <2>1. stack' = stack
    BY <1>1, <1>12 DEF TypeOK
  <2>2. DestroyedOnce'
    BY <2>1 DEF DestroyedOnce
  <2>3. StackUnreferenced'
    BY <2>1, <1>9, SMTT(30) DEF StackUnreferenced, TypeOK
  <2>4. NoneForgotten'
    BY <2>1, <1>3, <1>10, <1>12 DEF NoneForgotten
  <2>5. FreedOwnNothing'
    BY <1>1, SlotsAssumption DEF FreedOwnNothing, TypeOK
  <2>6. QED
    BY <1>5, <1>6, <1>7, <2>2, <2>3, <2>4, <2>5
<1>13. QED
  BY <1>11, <1>12

\* Freeing the innermost instance preserves the invariant.
LEMMA DestroyFreeIInv ==
  ASSUME IInv, NEW t \in Threads, DestroyFree(t)
  PROVE  IInv'
<1> USE DEF IInv
<1> DEFINE n == Len(stack[t])
           o == stack[t][n]
<1>1. /\ stack[t] \in Seq(Objects) /\ n \in Nat \ {0} /\ n \in DOMAIN stack[t]
      /\ o \in Objects
  BY DEF TypeOK, DestroyFree, Running
<1>2. /\ \A s \in Slots : Owner[s] = o => ptr[s] = NULL
      /\ mem' = [mem EXCEPT ![o] = "freed"]
      /\ stack' = [stack EXCEPT ![t] = SubSeq(stack[t], 1, n - 1)]
      /\ refcount' = refcount /\ ptr' = ptr
  BY DEF DestroyFree, Top
<1>3. mem[o] = "live" /\ RefsTo(o) = {}
  BY <1>1 DEF DestroyedOnce, StackUnreferenced
<1>4. \A u \in Threads : \A i \in DOMAIN stack[u] :
        stack[u][i] = o => u = t /\ i = n
  BY <1>1 DEF DestroyedOnce
<1>5. /\ stack'[t] = SubSeq(stack[t], 1, n - 1)
      /\ \A u \in Threads : u # t => stack'[u] = stack[u]
      /\ stack' \in [Threads -> Seq(Objects)]
  BY <1>1, <1>2 DEF TypeOK
<1>6. DOMAIN stack[t] = 1 .. n
  BY <1>1
<1> HIDE DEF n, o
<1>7. \A i \in DOMAIN stack'[t] :
        i \in DOMAIN stack[t] /\ i # n /\ stack'[t][i] = stack[t][i]
  BY <1>1, <1>5, <1>6
<1>8. \A i \in DOMAIN stack[t] : i # n =>
        i \in DOMAIN stack'[t] /\ stack'[t][i] = stack[t][i]
  BY <1>1, <1>5, <1>6
<1>9. \A u \in Threads : \A i \in DOMAIN stack'[u] :
        i \in DOMAIN stack[u] /\ stack'[u][i] = stack[u][i] /\ stack[u][i] # o
  BY <1>4, <1>5, <1>7
<1>10. \A x : RefsTo(x)' = RefsTo(x)
  BY <1>2 DEF RefsTo
<1>11. TypeOK'
  BY <1>2, <1>5 DEF TypeOK
<1>12. CountExact'
  BY <1>2, <1>10 DEF CountExact
<1>13. ReferencesAreLive'
  BY <1>1, <1>2, <1>3 DEF ReferencesAreLive, RefsTo, TypeOK
<1>14. DestroyedOnce'
  <2>1. \A u \in Threads : \A i \in DOMAIN stack[u] :
          stack[u][i] \in Objects /\ mem[stack[u][i]] = "live"
    BY DEF DestroyedOnce, TypeOK
  <2>2. QED
    BY <1>1, <1>2, <1>9, <2>1, SMTT(30) DEF DestroyedOnce, TypeOK
<1>15. StackUnreferenced'
  BY <1>9, <1>10 DEF StackUnreferenced
<1>16. NoneForgotten'
  <2> SUFFICES ASSUME NEW x \in Objects, mem'[x] = "live", RefsTo(x)' = {}
               PROVE  \E u \in Threads : \E i \in DOMAIN stack'[u] :
                        stack'[u][i] = x
    BY DEF NoneForgotten
  <2>1. x # o /\ mem[x] = "live" /\ RefsTo(x) = {}
    BY <1>1, <1>2, <1>10 DEF TypeOK
  <2>2. PICK u \in Threads : \E i \in DOMAIN stack[u] : stack[u][i] = x
    BY <2>1 DEF NoneForgotten
  <2>3. PICK i \in DOMAIN stack[u] : stack[u][i] = x
    BY <2>2
  <2>4. i \in DOMAIN stack'[u] /\ stack'[u][i] = x
    <3>1. CASE u = t
      BY <3>1, <2>1, <2>3, <1>8 DEF o
    <3>2. CASE u # t
      BY <3>2, <2>3, <1>5
    <3>3. QED
      BY <3>1, <3>2
  <2>5. QED
    BY <2>4
<1>17. FreedOwnNothing'
  BY <1>1, <1>2, SlotsAssumption DEF FreedOwnNothing, TypeOK
<1>18. QED
  BY <1>11, <1>12, <1>13, <1>14, <1>15, <1>16, <1>17

\* Every step of every thread preserves the invariant.
LEMMA NextIInv == IInv /\ [Next]_vars => IInv'
<1> SUFFICES ASSUME IInv, [Next]_vars PROVE IInv'
  OBVIOUS
<1>1. ASSUME NEW t \in Threads, NEW s \in Slots, NEW o \in Objects,
             ObjectNew(t, s, o) \/ ObjectNewInitFails(t, s, o)
      PROVE  IInv'
  BY <1>1, ObjectNewIInv, ObjectNewInitFailsIInv
<1>2. ASSUME NEW t \in Threads, NEW from \in Slots, NEW to \in Slots,
             Ref(t, from, to)
      PROVE  IInv'
  BY <1>2, RefIInv
<1>3. ASSUME NEW t \in Threads, NEW s \in Slots,
             Decref(t, s) \/ DestroyMember(t, s)
      PROVE  IInv'
  <2>1. ptr[s] # NULL /\ DropRef(t, s) /\ mem' = mem
    BY <1>3 DEF Decref, DestroyMember
  <2>2. QED
    BY <2>1, DropRefIInv
<1>4. ASSUME NEW t \in Threads, DestroyFree(t)
      PROVE  IInv'
  BY <1>4, DestroyFreeIInv
<1>5. CASE UNCHANGED vars
  BY <1>5 DEF IInv, TypeOK, CountExact, ReferencesAreLive, DestroyedOnce,
     StackUnreferenced, NoneForgotten, FreedOwnNothing, RefsTo, vars
<1>6. QED
  BY <1>1, <1>2, <1>3, <1>4, <1>5 DEF Next, Destroy

\* The inductive invariant holds in every reachable state; fairness of the
\* destroy methods plays no part in it.
LEMMA SafeInvariant == SafeSpec => []IInv
<1>1. QED
  BY InitIInv, NextIInv, PTL DEF SafeSpec

-----------------------------------------------------------------------------
(* Safety *)

\* The counter of an instance never becomes negative, and the call stacks hold
\* instances (object_ref, object_decref).
THEOREM TypeCorrect == Spec => []TypeOK
<1>1. IInv => TypeOK
  BY DEF IInv
<1>2. QED
  BY <1>1, SafeInvariant, PTL DEF Spec

\* While an instance lives, its counter is the number of counted pointers that
\* designate it, however the threads interleave.
THEOREM CountIsExact == Spec => []RefcountExact
<1>1. IInv => RefcountExact
  BY DEF IInv, CountExact, RefcountExact
<1>2. QED
  BY <1>1, SafeInvariant, PTL DEF Spec

\* A counted pointer never designates freed memory.
THEOREM NoDanglingReference == Spec => []ReferencesAreLive
<1>1. IInv => ReferencesAreLive
  BY DEF IInv
<1>2. QED
  BY <1>1, SafeInvariant, PTL DEF Spec

\* Only one destroy method is ever started for an instance, and its memory
\* outlives that method.
THEOREM NoDoubleDestroy == Spec => []DestroyedOnce
<1>1. IInv => DestroyedOnce
  BY DEF IInv
<1>2. QED
  BY <1>1, SafeInvariant, PTL DEF Spec

\* An instance without references is in the hands of a destroyer, and freed
\* memory owns nothing: no instance is leaked.
THEOREM NoLeak == Spec => [](NoneForgotten /\ FreedOwnNothing)
<1>1. IInv => NoneForgotten /\ FreedOwnNothing
  BY DEF IInv
<1>2. QED
  BY <1>1, SafeInvariant, PTL DEF Spec

-----------------------------------------------------------------------------
(* The counted references implement the collector *)

\* Every step is one of the collector, or leaves it alone: a successful or failed
\* construction allocates, copying a pointer shares, giving one up, inside a
\* destroy method or not, drops, and the end of a destroy method reclaims.
LEMMA StepRefines == IInv /\ [Next]_vars => [GC!Next]_(GC!vars)
<1> SUFFICES ASSUME IInv, [Next]_vars PROVE [GC!Next]_(GC!vars)
  OBVIOUS
<1>1. ASSUME NEW t \in Threads, NEW s \in Slots, NEW o \in Objects,
             ObjectNew(t, s, o)
      PROVE  GC!Next
  <2>1. GC!Allocate(s, o)
    BY <1>1 DEF ObjectNew, GC!Allocate
  <2>2. QED
    BY <2>1 DEF GC!Next
<1>2. ASSUME NEW t \in Threads, NEW s \in Slots, NEW o \in Objects,
             ObjectNewInitFails(t, s, o)
      PROVE  GC!Next
  <2>1. GC!AllocateGarbage(o)
    BY <1>2 DEF ObjectNewInitFails, GC!AllocateGarbage
  <2>2. QED
    BY <2>1 DEF GC!Next
<1>3. ASSUME NEW t \in Threads, NEW from \in Slots, NEW to \in Slots,
             Ref(t, from, to)
      PROVE  GC!Next
  <2>1. GC!Share(from, to)
    BY <1>3 DEF Ref, GC!Share
  <2>2. QED
    BY <2>1 DEF GC!Next
<1>4. ASSUME NEW t \in Threads, NEW s \in Slots,
             Decref(t, s) \/ DestroyMember(t, s)
      PROVE  GC!Next
  <2>1. GC!Drop(s)
    BY <1>4 DEF Decref, DestroyMember, DropRef, GC!Drop
  <2>2. QED
    BY <2>1 DEF GC!Next
<1>5. ASSUME NEW t \in Threads, DestroyFree(t)
      PROVE  GC!Next
  <2> DEFINE o == Top(stack[t])
  <2>1. Len(stack[t]) \in DOMAIN stack[t] /\ o \in Objects
    BY <1>5 DEF IInv, TypeOK, DestroyFree, Running, Top
  <2>2. mem[o] = "live" /\ RefsTo(o) = {}
    BY <2>1 DEF IInv, DestroyedOnce, StackUnreferenced, Top
  <2>3. GC!Reclaim(o)
    BY <1>5, <2>1, <2>2 DEF DestroyFree, GC!Reclaim, GC!Garbage, RefsTo
  <2>4. QED
    BY <2>1, <2>3 DEF GC!Next
<1>6. CASE UNCHANGED vars
  BY <1>6 DEF vars, GC!vars
<1>7. QED
  BY <1>1, <1>2, <1>3, <1>4, <1>5, <1>6 DEF Next, Destroy

\* Reference counting does what a collector that sees every pointer does: it
\* frees an instance only when no pointer designates it.
THEOREM RefinesCollector == Spec => GC!SafeSpec
<1>1. Init => GC!Init
  BY DEF Init, GC!Init
<1>2. QED
  BY <1>1, SafeInvariant, StepRefines, PTL DEF Spec, SafeSpec, GC!SafeSpec
=============================================================================
