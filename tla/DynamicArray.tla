----------------------------- MODULE DynamicArray -----------------------------
(***************************************************************************)
(* SeeDynamicArray (src/src/DynamicArray.c): arrays that grow by realloc,  *)
(* used by one thread.                                                     *)
(*                                                                         *)
(* The elements of an array are plain data, copied with memcpy and never   *)
(* freed, or counted references, copied with see_copy_by_ref and freed     *)
(* with see_free_see_object, as the parts of a SeeMsgBuffer are.  refs[v]  *)
(* is the reference count of v, and held[v] how many of these references   *)
(* are the client's; both stay 0 for a value that is only used as data.    *)
(*                                                                         *)
(* Positions are those of C, from 0; elems[p + 1] is the element there.    *)
(* size_t is a number below SizeMod and sums and products wrap around, as  *)
(* in C.  No block of memory exceeds half the address space (PTRDIFF_MAX). *)
(*                                                                         *)
(* Some calls have effects the documentation does not tell.  A run says    *)
(* with Corners which of them the clients make.                            *)
(*                                                                         *)
(* call is a history variable, the last call, which no action reads: it    *)
(* lets Lists say what each function gives.                                *)
(***************************************************************************)
EXTENDS Integers, FiniteSets, Sequences

CONSTANTS Arrays,     \* the clients' SeeDynamicArray* variables
          Values,     \* the elements
          NoArray,    \* NULL
          Kinds,      \* {TRUE, FALSE}: arrays of counted references and of data
          ElemSize,   \* element_size
          SizeMod,    \* 2 ^ the width of size_t
          MemFail,    \* malloc and realloc may fail although there is room
          Corners,    \* a subset of {"free address", "shrink empty"}
          Requests,   \* bound: the sizes and positions that clients ask for
          MaxHeld,    \* bound: references to one value that the client holds
          MaxInsert   \* bound: elements inserted in one call

ASSUME SizesAssumption ==
  /\ SizeMod \in Nat /\ SizeMod > 0
  /\ ElemSize \in Nat /\ 0 < ElemSize /\ ElemSize < SizeMod

ASSUME ElementsAssumption ==
  /\ Kinds \subseteq BOOLEAN
  /\ MemFail \in BOOLEAN
  /\ Requests \subseteq 0 .. SizeMod - 1
  /\ IsFiniteSet(Arrays) /\ IsFiniteSet(Values)
  /\ MaxHeld \in Nat
  /\ MaxInsert \in Nat

\* The elements that a client inserts are in a block of memory, too.
ASSUME InsertAssumption == MaxInsert * ElemSize < SizeMod \div 2

VARIABLES arr,    \* arr[a]: the array a designates, or NoArray
          refs,   \* refs[v]: the reference count of v
          held,   \* held[v]: the client's own references to v
          ret,    \* what the last call returned
          error,  \* the client's SeeError* variable is not NULL
          call    \* the last call, with its arguments

vars == <<arr, refs, held, ret, error, call>>

SizeT == 0 .. SizeMod - 1
Codes == {"success", "invalid", "index", "runtime"}

\* size is the length of elems; bytes is the length of the block "elements".
ArrayType ==
  [elems : Seq(Values), capacity : SizeT, bytes : SizeT, counted : BOOLEAN]

\* NULL is no array, no list of elements and no element.
ASSUME NoArrayAssumption ==
  NoArray \notin ArrayType /\ NoArray \notin Seq(Values) /\ NoArray \notin Values

TypeOK ==
  /\ arr \in [Arrays -> ArrayType \cup {NoArray}]
  /\ refs \in [Values -> Nat]
  /\ held \in [Values -> 0 .. MaxHeld]
  /\ ret \in Codes
  /\ error \in BOOLEAN

Live(a) == arr[a] # NoArray
Size(r) == Len(r.elems)
Empty(kind) == [elems |-> <<>>, capacity |-> 0, bytes |-> 0, counted |-> kind]

\* How often v occurs in s.
Occurs(s, v) == Cardinality({i \in DOMAIN s : s[i] = v})

\* The client may only pass elements it holds.
CanPass(r, v) == r.counted => held[v] > 0

\* The counts after the elements of s have been copied with the copy function of
\* array r, or freed with its free function.
CopyElements(r, count, s) ==
  IF r.counted THEN [v \in Values |-> count[v] + Occurs(s, v)] ELSE count
FreeElements(r, count, s) ==
  IF r.counted THEN [v \in Values |-> count[v] - Occurs(s, v)] ELSE count

\* There is a new error object, unless there is no memory for one.
NewError == error' \in {TRUE} \cup (IF MemFail THEN {error} ELSE {})

\* The call returns code; all codes but success and invalid come with an error.
Returns(code) ==
  /\ ret' = code
  /\ IF code \in {"success", "invalid"} THEN UNCHANGED error ELSE NewError

-----------------------------------------------------------------------------
(* Changed forms of the operations below, for the mutation runs. *)

\* array_reserve trusts the product of the sizes.
ReserveUnchecked(r, n) ==
  IF n <= r.capacity THEN {[code |-> "success", array |-> r]}
  ELSE {[code |-> "success",
         array |-> [r EXCEPT !.capacity = n,
                             !.bytes = (ElemSize * n) % SizeMod]]}

\* array_set forgets the element it replaces.
SetKeepsOld(a, pos, v) ==
  /\ Live(a) /\ ~ error /\ CanPass(arr[a], v)
  /\ pos < Size(arr[a])
  /\ arr' = [arr EXCEPT ![a].elems[pos + 1] = v]
  /\ refs' = CopyElements(arr[a], refs, <<v>>)
  /\ Returns("success")
  /\ UNCHANGED held

\* see_dynamic_array_copy gives up what *array_out held before it knows whether
\* there is memory for the copy.
CopyDropsFirst(a, b) ==
  /\ Live(a) /\ ~ error /\ Live(b) /\ a # b
  /\ arr' = [arr EXCEPT ![b] = NoArray]
  /\ refs' = FreeElements(arr[b], refs, arr[b].elems)
  /\ Returns("runtime")
  /\ UNCHANGED held

\* array_insert copies the new elements in before it moves the others.
InsertedTooEarly(r, pos, s) ==
  LET over == [i \in 1 .. Size(r) + Len(s) |->
                 IF i \in pos + 1 .. pos + Len(s) THEN s[i - pos]
                 ELSE IF i <= Size(r) THEN r.elems[i] ELSE s[1]]
  IN  [i \in 1 .. Size(r) + Len(s) |->
         IF i > pos + Len(s) THEN over[i - Len(s)] ELSE over[i]]

-----------------------------------------------------------------------------
(* array_reserve *)

NumBytes(n) == (ElemSize * n) % SizeMod        \* ARRAY_NUM_BYTES
Overflows(n) == n # 0 /\ NumBytes(n) \div n # ElemSize
CanAlloc(bytes) == bytes < SizeMod \div 2      \* at most PTRDIFF_MAX

\* The array r in a block for n elements.
WithRoom(r, n) ==
  [elems |-> r.elems, capacity |-> n, bytes |-> NumBytes(n), counted |-> r.counted]

\* The possible results of reserving room for n elements.
Reserve(r, n) ==
  IF n <= r.capacity THEN {[code |-> "success", array |-> r]}
  ELSE (IF ~ Overflows(n) /\ CanAlloc(NumBytes(n))
        THEN {[code |-> "success", array |-> WithRoom(r, n)]}
        ELSE {})
       \cup
       (IF Overflows(n) \/ ~ CanAlloc(NumBytes(n)) \/ MemFail
        THEN {[code |-> "runtime", array |-> r]}
        ELSE {})

\* array_add lets an array that is just full take one more (a changed form).
EnlargedLate(r) ==
  IF Size(r) <= r.capacity THEN {[code |-> "success", array |-> r]}
  ELSE Reserve(r, (r.capacity * 2) % SizeMod)

\* array_add asks for one element, or for twice the capacity.
Enlarged(r) ==
  IF Size(r) < r.capacity THEN {[code |-> "success", array |-> r]}
  ELSE Reserve(r, IF r.capacity = 0 THEN 1 ELSE (r.capacity * 2) % SizeMod)

-----------------------------------------------------------------------------
(* The operations of the API.  Those that take a SeeError** refuse to work   *)
(* while it holds an error, except new, new_capacity, reserve and insert.    *)

Init ==
  /\ arr = [a \in Arrays |-> NoArray]
  /\ refs = [v \in Values |-> 0]
  /\ held = [v \in Values |-> 0]
  /\ ret = "success"
  /\ error = FALSE
  /\ call = <<"client", <<>>>>

\* The call fails with code, or changes nothing but the array's memory.
Becomes(a, outcome) ==
  /\ arr' = [arr EXCEPT ![a] = outcome.array]
  /\ Returns(outcome.code)

\* see_dynamic_array_new_capacity, and see_dynamic_array_new for n = 0.
New(a, n, kind) ==
  /\ ~ Live(a)
  /\ \/ \E outcome \in Reserve(Empty(kind), n) :
          /\ arr' = [arr EXCEPT ![a] = IF outcome.code = "success"
                                       THEN outcome.array ELSE NoArray]
          /\ Returns(outcome.code)
     \/ MemFail /\ Returns("runtime") /\ UNCHANGED arr    \* calloc in object_new
  /\ UNCHANGED <<refs, held>>

\* see_object_decref of the last reference: dynamic_array_destroy.
Destroy(a) ==
  /\ Live(a)
  /\ arr' = [arr EXCEPT ![a] = NoArray]
  /\ refs' = FreeElements(arr[a], refs, arr[a].elems)
  /\ Returns("success")
  /\ UNCHANGED held

\* array_add.
Add(a, v) ==
  /\ Live(a) /\ ~ error /\ CanPass(arr[a], v)
  /\ \E outcome \in Enlarged(arr[a]) :
       IF outcome.code = "success"
       THEN /\ arr' = [arr EXCEPT ![a] =
                         [outcome.array EXCEPT !.elems = Append(@, v)]]
            /\ refs' = CopyElements(arr[a], refs, <<v>>)
            /\ Returns("success")
       ELSE Becomes(a, outcome) /\ UNCHANGED refs
  /\ UNCHANGED held

\* array_set.  The error of array_set is not handed on by the API function.
Set(a, pos, v) ==
  /\ Live(a) /\ ~ error /\ CanPass(arr[a], v)
  /\ \/ /\ pos < Size(arr[a])
        /\ arr' = [arr EXCEPT ![a].elems[pos + 1] = v]
        /\ refs' = CopyElements(arr[a], FreeElements(arr[a], refs, <<arr[a].elems[pos + 1]>>),
                                <<v>>)
        /\ Returns("success")
     \/ /\ pos >= Size(arr[a])
        /\ ret' = "success" /\ NewError
        /\ UNCHANGED <<arr, refs>>
  /\ UNCHANGED held

\* array_get: the copy handed out is a reference of the client.
Get(a, pos) ==
  /\ Live(a) /\ ~ error
  /\ \/ /\ pos < Size(arr[a])
        /\ LET v == arr[a].elems[pos + 1]
           IN  /\ arr[a].counted => held[v] < MaxHeld
               /\ refs' = CopyElements(arr[a], refs, <<v>>)
               /\ held' = CopyElements(arr[a], held, <<v>>)
        /\ Returns("success")
     \/ /\ pos >= Size(arr[a])
        /\ Returns("index")
        /\ UNCHANGED <<refs, held>>
  /\ UNCHANGED arr

\* see_dynamic_array_reserve.
ReserveCall(a, n) ==
  /\ Live(a)
  /\ \E outcome \in Reserve(arr[a], n) : Becomes(a, outcome)
  /\ UNCHANGED <<refs, held>>

\* array_shrink.  free_element gets the address of the element: with counted
\* elements, see_object_decref then takes the memory of the array for an object,
\* and no element gives up its reference.
Shrink(a, n) ==
  /\ arr[a].counted /\ n < Size(arr[a]) => "free address" \in Corners
  /\ arr' = [arr EXCEPT ![a].elems = SubSeq(@, 1, n)]
  /\ Returns("success")

\* array_grow.  The new elements are initialised, and the size stays the same.
Grow(a, n) == \E outcome \in Reserve(arr[a], n) : Becomes(a, outcome)

\* array_resize.
Resize(a, n) ==
  /\ Live(a) /\ ~ error
  /\ IF n <= Size(arr[a]) THEN Shrink(a, n) ELSE Grow(a, n)
  /\ UNCHANGED <<refs, held>>

\* array_shrink_to_fit.  realloc(elements, 0) frees the block and gives NULL,
\* which the code takes for a failure.
ShrinkToFit(a) ==
  LET r == arr[a]
  IN  /\ Live(a) /\ ~ error
      /\ \/ Size(r) = r.capacity /\ Returns("success") /\ UNCHANGED arr
         \/ /\ Size(r) \notin {0, r.capacity}
            /\ \/ /\ arr' = [arr EXCEPT ![a] = WithRoom(r, Size(r))]
                  /\ Returns("success")
               \/ MemFail /\ Returns("runtime") /\ UNCHANGED arr
         \/ /\ Size(r) = 0 /\ r.capacity > 0
            /\ "shrink empty" \in Corners
            /\ arr' = [arr EXCEPT ![a].bytes = 0]
            /\ Returns("runtime")
      /\ UNCHANGED <<refs, held>>

\* The elements after array_insert: memmove, then the copies.
Inserted(r, pos, s) ==
  LET final == (Size(r) + Len(s)) % SizeMod
      to == final - (Size(r) - pos)
  IN  [i \in 1 .. final |->
         IF i \in pos + 1 .. pos + Len(s) THEN s[i - pos]
         ELSE IF i > to THEN r.elems[pos + i - to]
         ELSE r.elems[i]]

\* array_insert, of elements that are outside the array.
Insert(a, pos, s) ==
  /\ Live(a)
  /\ \A i \in DOMAIN s : CanPass(arr[a], s[i])
  /\ IF pos > Size(arr[a])
     THEN Returns("index") /\ UNCHANGED <<arr, refs>>
     ELSE \E outcome \in Reserve(arr[a], (Size(arr[a]) + Len(s)) % SizeMod) :
            IF outcome.code = "success"
            THEN /\ arr' = [arr EXCEPT ![a] =
                     [outcome.array EXCEPT !.elems = Inserted(arr[a], pos, s)]]
                 /\ refs' = CopyElements(arr[a], refs, s)
                 /\ Returns("success")
            ELSE Becomes(a, outcome) /\ UNCHANGED refs
  /\ UNCHANGED held

\* see_dynamic_array_copy: b, which may hold another array or be a itself, gets
\* a new array that is just large enough.
Copy(a, b) ==
  /\ Live(a) /\ ~ error
  /\ \/ \E outcome \in Reserve(Empty(arr[a].counted), Size(arr[a])) :
          IF outcome.code = "success"
          THEN /\ arr' = [arr EXCEPT ![b] =
                            [outcome.array EXCEPT !.elems = arr[a].elems]]
               /\ LET copied == CopyElements(arr[a], refs, arr[a].elems)
                  IN  refs' = IF Live(b)
                              THEN FreeElements(arr[b], copied, arr[b].elems)
                              ELSE copied
               /\ Returns("success")
          ELSE Returns(outcome.code) /\ UNCHANGED <<arr, refs>>
     \/ MemFail /\ Returns("runtime") /\ UNCHANGED <<arr, refs>>
  /\ UNCHANGED held

Swapped(s, i, j) ==
  [k \in DOMAIN s |-> IF k = i THEN s[j] ELSE IF k = j THEN s[i] ELSE s[k]]

\* The elements after exchanging start with choice[start], start + 1 with
\* choice[start + 1], and so on up to end - 1.
Shuffled(s, start, end, choice) ==
  LET after[i \in start .. end] ==
        IF i = start THEN s
        ELSE Swapped(after[i - 1], i, choice[i - 1] + 1)
  IN  after[end]

\* see_dynamic_array_shuffle_range, and see_dynamic_array_shuffle.  With counted
\* elements it frees addresses, as Shrink does.
ShuffleRange(a, start, end) ==
  /\ Live(a) /\ ~ error /\ ~ arr[a].counted
  /\ IF end > Size(arr[a]) THEN Returns("index") /\ UNCHANGED arr
     ELSE \/ start >= end /\ Returns("success") /\ UNCHANGED arr
          \/ /\ start < end
             /\ \E choice \in [start .. end - 1 -> start .. end - 1] :
                  /\ \A i \in start .. end - 1 : choice[i] >= i
                  /\ arr' = [arr EXCEPT ![a].elems =
                               Shuffled(@, start, end, choice)]
             /\ Returns("success")
          \/ MemFail /\ Returns("runtime") /\ UNCHANGED arr    \* temp
  /\ UNCHANGED <<refs, held>>

\* A call that is refused because *error is not NULL.
Refused(a) ==
  /\ Live(a) /\ error
  /\ Returns("invalid")
  /\ UNCHANGED <<arr, refs, held>>

\* The client frees the error object, makes or gets an element, and gives up a
\* reference of its own.
ClearError ==
  /\ error
  /\ error' = FALSE
  /\ UNCHANGED <<arr, refs, held, ret>>

Acquire(v) ==
  /\ held[v] < MaxHeld
  /\ refs' = [refs EXCEPT ![v] = @ + 1]
  /\ held' = [held EXCEPT ![v] = @ + 1]
  /\ Returns("success")
  /\ UNCHANGED arr

Release(v) ==
  /\ held[v] > 0
  /\ refs' = [refs EXCEPT ![v] = @ - 1]
  /\ held' = [held EXCEPT ![v] = @ - 1]
  /\ Returns("success")
  /\ UNCHANGED arr

Inserts == UNION {[1 .. n -> Values] : n \in 0 .. MaxInsert}

\* The call that the step is; what the client does with its own variables is one, too.
Is(name, args) == call' = <<name, args>>
OnItsOwn == Is("client", <<>>)

Next ==
  \/ \E a \in Arrays :
       \/ \E n \in Requests :
            \/ \E kind \in Kinds : New(a, n, kind) /\ Is("new", <<a>>)
            \/ ReserveCall(a, n) /\ Is("reserve", <<a, n>>)
            \/ Resize(a, n) /\ Is("resize", <<a, n>>)
       \/ Destroy(a) /\ Is("destroy", <<a>>)
       \/ ShrinkToFit(a) /\ Is("shrink_to_fit", <<a>>)
       \/ Refused(a) /\ Is("refused", <<a>>)
       \/ \E v \in Values : Add(a, v) /\ Is("add", <<a, v>>)
       \/ \E pos \in Requests, v \in Values : Set(a, pos, v) /\ Is("set", <<a, pos, v>>)
       \/ \E pos \in Requests : Get(a, pos) /\ Is("get", <<a, pos>>)
       \/ \E pos \in Requests, s \in Inserts :
            Insert(a, pos, s) /\ Is("insert", <<a, pos, s>>)
       \/ \E b \in Arrays : Copy(a, b) /\ Is("copy", <<a, b>>)
       \/ \E start, end \in Requests :
            ShuffleRange(a, start, end) /\ Is("shuffle_range", <<a, start, end>>)
  \/ \E v \in Values : (Acquire(v) \/ Release(v)) /\ OnItsOwn
  \/ ClearError /\ OnItsOwn

Spec == Init /\ [][Next]_vars

-----------------------------------------------------------------------------
(* Properties *)

\* An array stays within its block: no element is written past the end of the
\* memory that realloc gave, however size_t wraps around.
StaysInBlock ==
  \A a \in Arrays : Live(a) => Size(arr[a]) * ElemSize <= arr[a].bytes

\* The capacity is the number of elements that the block has room for, so that a
\* later call may rely on it ("The capacity of the array is the number of
\* elements that can be stored inside the array without allocating more memory").
CapacityIsAllocated ==
  \A a \in Arrays : Live(a) => arr[a].capacity * ElemSize = arr[a].bytes

\* Every element's reference count is what the client and the cells of all
\* arrays hold: set, insert, copy and destroy neither leak nor free too early.
Cells(v) ==
  {c \in Arrays \X SizeT :
     /\ Live(c[1]) /\ arr[c[1]].counted
     /\ c[2] \in DOMAIN arr[c[1]].elems /\ arr[c[1]].elems[c[2]] = v}
ElementsCounted == \A v \in Values : refs[v] = held[v] + Cardinality(Cells(v))

\* A call that fails leaves the arrays and the elements as they were.
FailureIsClean ==
  [][ret' # "success" => UNCHANGED <<arr, refs, held>>]_vars

\* The list that variable a designates, and all of them.
ListOf(a) == IF Live(a) THEN arr[a].elems ELSE NoArray
AllLists == [a \in Arrays |-> ListOf(a)]

\* The arrays are lists: each call does to them what its name and arguments say,
\* and contents and order survive every reallocation.
L == INSTANCE Lists WITH list <- AllLists
ImplementsLists == L!Spec

\* An array that is resized has the size asked for ("The number of elements the
\* array should have after the resize operation", DynamicArray.h:462).
ResizeGivesSize ==
  [][\A a \in Arrays, n \in Requests :
       ret' = "success" /\ Is("resize", <<a, n>>) => Size(arr'[a]) = n]_vars
=============================================================================
