--------------------------- MODULE ContainersProofs ---------------------------
(***************************************************************************)
(* Proofs about SeeDynamicArray, alone or under SeeStack, for any number   *)
(* of arrays, any width of size_t and any size of the elements.            *)
(*                                                                         *)
(* Each operation has a lemma that says what it leaves: everything as it   *)
(* was, or one array with other elements and sound memory (Puts), and the  *)
(* counts of the elements that were copied and freed.  The properties      *)
(* follow from these lemmas.                                               *)
(*                                                                         *)
(* Of the clients the theorems assume what they need of two things the     *)
(* documentation does not forbid: NoneShrunkEmpty, that no array with      *)
(* capacity but no elements is shrunk to fit, and NoneFreedByAddress, that *)
(* no array of counted references is resized to fewer elements.            *)
(***************************************************************************)
EXTENDS Containers, TLAPS, SequenceTheorems, FiniteSetTheorems,
        NaturalsInduction, WellFoundedInduction

NoneShrunkEmpty == "shrink empty" \notin Corners
NoneFreedByAddress == "free address" \notin Corners

\* The memory of an array: the block is as large as the capacity says, its length
\* did not wrap around, and the elements fit.
Sound(r) ==
  /\ r \in ArrayType
  /\ r.capacity * ElemSize = r.bytes
  /\ r.bytes = 0 \/ r.bytes < SizeMod \div 2
  /\ Size(r) <= r.capacity

AllSound ==
  /\ arr \in [Arrays -> ArrayType \cup {NoArray}]
  /\ \A a \in Arrays : Live(a) => Sound(arr[a])

-----------------------------------------------------------------------------
(* Arithmetic *)

\* Half a number.
LEMMA Half == ASSUME NEW m \in Nat PROVE m \div 2 \in Nat /\ 2 * (m \div 2) <= m
OBVIOUS

\* Multiplication is monotonic.
LEMMA Times ==
  ASSUME NEW m \in Nat, NEW n \in Nat, NEW e \in Nat, m <= n
  PROVE  m * e \in Nat /\ m * e <= n * e
OBVIOUS

\* A factor is no greater than the product.
LEMMA FactorFits ==
  ASSUME NEW n \in Nat, NEW e \in Nat, e > 0 PROVE n <= n * e
OBVIOUS

\* The remainder is in its range and no greater than the number.
LEMMA Remainder ==
  ASSUME NEW x \in Nat, NEW m \in Nat, m > 0
  PROVE  x % m \in 0 .. m - 1 /\ x % m <= x /\ (x < m => x % m = x)
OBVIOUS

\* A product that divides back is not truncated.
LEMMA DividesBack ==
  ASSUME NEW n \in Nat, n > 0, NEW e \in Nat, NEW y \in Nat,
         y <= e * n, y \div n = e
  PROVE  y = e * n
OBVIOUS

\* What the assumptions say of the sizes.
LEMMA Sizes ==
  /\ SizeMod \in Nat /\ SizeMod >= 2 /\ ElemSize \in Nat /\ ElemSize > 0
  /\ 0 \in SizeT /\ 1 \in SizeT
  /\ MaxInsert \in Nat /\ MaxInsert * ElemSize < SizeMod \div 2
BY SizesAssumption, ElementsAssumption, InsertAssumption DEF SizeT

-----------------------------------------------------------------------------
(* array_reserve *)

\* The fields of an array.
LEMMA Fields ==
  ASSUME NEW r \in ArrayType
  PROVE  /\ r.elems \in Seq(Values) /\ r.capacity \in Nat /\ r.bytes \in Nat
         /\ r.capacity \in SizeT /\ r.bytes \in SizeT
         /\ r.counted \in BOOLEAN /\ Size(r) \in Nat
BY Sizes, LenProperties DEF ArrayType, SizeT, Size

\* An empty array without a block is sound.
LEMMA EmptySound ==
  ASSUME NEW kind \in BOOLEAN
  PROVE  Sound(Empty(kind)) /\ Empty(kind).elems = <<>> /\ Empty(kind).counted = kind
         /\ Size(Empty(kind)) = 0
<1>1. <<>> \in Seq(Values) /\ Len(<<>>) = 0
  BY EmptySeq
<1>2. Empty(kind) \in ArrayType
  BY <1>1, Sizes DEF Empty, ArrayType
<1>3. Size(Empty(kind)) = 0
  BY <1>1 DEF Empty, Size
<1>4. QED
  BY <1>2, <1>3, Sizes DEF Empty, Sound

\* A block for n elements, when the product of the sizes is right and not too
\* large for malloc.
LEMMA RoomSound ==
  ASSUME NEW r \in ArrayType, NEW n \in SizeT, Size(r) <= n,
         ElemSize * n < SizeMod \div 2
  PROVE  /\ Sound(WithRoom(r, n)) /\ WithRoom(r, n).capacity = n
         /\ WithRoom(r, n).elems = r.elems /\ WithRoom(r, n).counted = r.counted
<1> DEFINE w == WithRoom(r, n)
           x == ElemSize * n
<1>1. n \in Nat /\ x \in Nat
  BY Sizes DEF SizeT
<1>2. SizeMod \div 2 < SizeMod
  BY Sizes
<1>3. NumBytes(n) = x
  BY <1>1, <1>2, Sizes, Remainder DEF NumBytes
<1>4. w = [elems |-> r.elems, capacity |-> n, bytes |-> x, counted |-> r.counted]
  BY <1>3 DEF WithRoom
<1>5. x \in SizeT
  BY <1>1, <1>2, Sizes DEF SizeT
<1>6. w \in ArrayType
  BY <1>4, <1>5 DEF ArrayType
<1>7. w.capacity * ElemSize = w.bytes
  BY <1>1, <1>4, Sizes
<1>8. Size(w) <= w.capacity
  BY <1>4 DEF Size
<1>9. QED
  BY <1>4, <1>6, <1>7, <1>8 DEF Sound

\* The test in ARRAY_NUM_BYTES' users is right: what does not overflow is the
\* product, however size_t wraps around.
LEMMA NoOverflow ==
  ASSUME NEW n \in SizeT, n # 0, ~ Overflows(n)
  PROVE  NumBytes(n) = ElemSize * n
<1>1. n \in Nat /\ n > 0 /\ ElemSize * n \in Nat
  BY Sizes DEF SizeT
<1>2. NumBytes(n) \in Nat /\ NumBytes(n) <= ElemSize * n
  BY <1>1, Sizes, Remainder DEF NumBytes
<1>3. NumBytes(n) \div n = ElemSize
  BY DEF Overflows
<1>4. QED
  BY <1>1, <1>2, <1>3, Sizes, DividesBack

\* array_reserve fails and leaves the array alone, or gives it room for n
\* elements at least.
LEMMA ReserveEffect ==
  ASSUME NEW r, Sound(r), NEW n \in SizeT, NEW outcome \in Reserve(r, n)
  PROVE  \/ outcome.code = "runtime" /\ outcome.array = r
         \/ /\ outcome.code = "success" /\ Sound(outcome.array)
            /\ outcome.array.elems = r.elems
            /\ outcome.array.counted = r.counted
            /\ n <= outcome.array.capacity
<1>1. r \in ArrayType /\ Size(r) <= r.capacity /\ r.capacity \in Nat /\ Size(r) \in Nat
  BY Fields DEF Sound
<1>2. n \in Nat
  BY Sizes DEF SizeT
<1>3. CASE n <= r.capacity
  BY <1>3 DEF Reserve
<1>4. CASE n > r.capacity
  <2>1. \/ outcome = [code |-> "runtime", array |-> r]
        \/ /\ outcome = [code |-> "success", array |-> WithRoom(r, n)]
           /\ ~ Overflows(n) /\ CanAlloc(NumBytes(n))
    BY <1>1, <1>2, <1>4 DEF Reserve
  <2>2. CASE outcome = [code |-> "runtime", array |-> r]
    BY <2>2
  <2>3. CASE /\ outcome = [code |-> "success", array |-> WithRoom(r, n)]
             /\ ~ Overflows(n) /\ CanAlloc(NumBytes(n))
    <3>1. NumBytes(n) = ElemSize * n
      BY <1>1, <1>2, <1>4, <2>3, NoOverflow
    <3>2. ElemSize * n < SizeMod \div 2 /\ Size(r) <= n
      BY <1>1, <1>2, <1>4, <2>3, <3>1 DEF CanAlloc
    <3>3. /\ Sound(WithRoom(r, n)) /\ WithRoom(r, n).capacity = n
          /\ WithRoom(r, n).elems = r.elems /\ WithRoom(r, n).counted = r.counted
      BY <1>1, <3>2, RoomSound
    <3>4. QED
      BY <1>2, <2>3, <3>3
  <2>4. QED
    BY <2>1, <2>2, <2>3
<1>5. QED
  BY <1>1, <1>2, <1>3, <1>4

\* An array has less than half as many elements as there are addresses.
LEMMA CapacityBound ==
  ASSUME NEW r, Sound(r)
  PROVE  /\ Size(r) \in Nat /\ r.capacity \in Nat /\ r.capacity < SizeMod
         /\ Size(r) <= r.capacity
         /\ 2 * r.capacity < SizeMod
<1>1. /\ r.capacity \in Nat /\ r.bytes \in Nat /\ Size(r) \in Nat
      /\ Size(r) <= r.capacity /\ r.capacity < SizeMod
  BY Fields, Sizes DEF Sound, SizeT
<1>2. r.capacity <= r.bytes
  BY <1>1, Sizes, FactorFits DEF Sound
<1>3. 2 * r.bytes < SizeMod
  <2>1. r.bytes = 0 \/ r.bytes < SizeMod \div 2
    BY DEF Sound
  <2>2. QED
    BY <1>1, <2>1, Sizes, Half
<1>4. QED
  BY <1>1, <1>2, <1>3, Sizes

\* array_add finds room for one more element.
LEMMA EnlargedEffect ==
  ASSUME NEW r, Sound(r), NEW outcome \in Enlarged(r)
  PROVE  \/ outcome.code = "runtime" /\ outcome.array = r
         \/ /\ outcome.code = "success" /\ Sound(outcome.array)
            /\ outcome.array.elems = r.elems
            /\ outcome.array.counted = r.counted
            /\ Size(r) + 1 <= outcome.array.capacity
<1>1. /\ Size(r) \in Nat /\ r.capacity \in Nat /\ Size(r) <= r.capacity
      /\ 2 * r.capacity < SizeMod
  BY CapacityBound
<1>2. CASE Size(r) < r.capacity
  <2>1. outcome = [code |-> "success", array |-> r]
    BY <1>2 DEF Enlarged
  <2>2. QED
    BY <1>1, <1>2, <2>1
<1>3. CASE Size(r) >= r.capacity
  <2> DEFINE n == IF r.capacity = 0 THEN 1 ELSE (r.capacity * 2) % SizeMod
  <2>1. (r.capacity * 2) % SizeMod = 2 * r.capacity
    BY <1>1, Sizes, Remainder
  <2>2. n \in SizeT /\ Size(r) + 1 <= n
    BY <1>1, <1>3, <2>1, Sizes DEF SizeT
  <2>3. outcome \in Reserve(r, n)
    BY <1>1, <1>3 DEF Enlarged
  <2>4. n \in Nat
    BY <2>2, Sizes DEF SizeT
  <2> HIDE DEF n
  <2>5. \/ outcome.code = "runtime" /\ outcome.array = r
        \/ /\ outcome.code = "success" /\ Sound(outcome.array)
           /\ outcome.array.elems = r.elems
           /\ outcome.array.counted = r.counted
           /\ n <= outcome.array.capacity
    BY <2>2, <2>3, ReserveEffect
  <2>6. Sound(outcome.array) => outcome.array.capacity \in Nat
    BY CapacityBound
  <2>7. QED
    BY <1>1, <2>2, <2>4, <2>5, <2>6
<1>4. QED
  BY <1>1, <1>2, <1>3

-----------------------------------------------------------------------------
(* What the operations leave *)

Kept == UNCHANGED <<arr, refs, held>>

\* Variable a designates a sound array with the elements s; the other arrays stay
\* as they are.
Puts(a, s, kind) ==
  \E r : /\ Sound(r) /\ r.elems = s /\ r.counted = kind
         /\ arr' = [arr EXCEPT ![a] = r]

\* The same with nothing copied or freed.
Moves(a, s, kind) == Puts(a, s, kind) /\ UNCHANGED <<refs, held>>

\* An array is sound and designated by one variable.
LEMMA LiveSound ==
  ASSUME AllSound, NEW a \in Arrays, Live(a)
  PROVE  /\ Sound(arr[a]) /\ arr[a] \in ArrayType
         /\ arr[a].elems \in Seq(Values) /\ arr[a].counted \in BOOLEAN
         /\ Size(arr[a]) \in Nat /\ Size(arr[a]) = Len(arr[a].elems)
BY Fields DEF AllSound, Sound, Size

\* To put the same array back is to leave all as it was.
LEMMA PutBack ==
  ASSUME AllSound, NEW a \in Arrays PROVE [arr EXCEPT ![a] = arr[a]] = arr
BY DEF AllSound

\* see_dynamic_array_new leaves an empty array, or nothing.
LEMMA NewEffect ==
  ASSUME AllSound, NEW a \in Arrays, NEW n \in SizeT, NEW kind \in BOOLEAN,
         New(a, n, kind)
  PROVE  \/ Kept /\ ret' # "success"
         \/ ret' = "success" /\ ~ Live(a) /\ Moves(a, <<>>, kind)
<1>1. Sound(Empty(kind)) /\ Empty(kind).elems = <<>> /\ Empty(kind).counted = kind
  BY EmptySound, ElementsAssumption
<1>2. arr[a] = NoArray /\ UNCHANGED <<refs, held>> /\ ~ Live(a)
  BY DEF New, Live
<1>3. ASSUME NEW outcome \in Reserve(Empty(kind), n), outcome.code = "success",
             arr' = [arr EXCEPT ![a] = outcome.array], Returns("success")
      PROVE  ret' = "success" /\ Moves(a, <<>>, kind)
  <2>1. /\ Sound(outcome.array) /\ outcome.array.elems = <<>>
        /\ outcome.array.counted = kind
    BY <1>1, <1>2, <1>3, ReserveEffect
  <2>2. QED
    BY <1>2, <1>3, <2>1 DEF Moves, Puts, Returns
<1>4. ASSUME NEW outcome \in Reserve(Empty(kind), n), outcome.code # "success",
             arr' = [arr EXCEPT ![a] = NoArray], Returns(outcome.code)
      PROVE  Kept /\ ret' # "success"
  BY <1>2, <1>4, PutBack DEF Kept, Returns
<1>5. CASE UNCHANGED arr /\ Returns("runtime")
  BY <1>2, <1>5 DEF Kept, Returns
<1>6. QED
  BY <1>2, <1>3, <1>4, <1>5 DEF New

\* Outcomes of Reserve, handed to the array.
LEMMA BecomesEffect ==
  ASSUME AllSound, NEW a \in Arrays, Live(a), NEW n \in SizeT,
         NEW outcome \in Reserve(arr[a], n), Becomes(a, outcome),
         UNCHANGED <<refs, held>>
  PROVE  \/ Kept /\ ret' # "success"
         \/ ret' = "success" /\ Moves(a, arr[a].elems, arr[a].counted)
<1>1. Sound(arr[a])
  BY LiveSound
<1>2. arr' = [arr EXCEPT ![a] = outcome.array] /\ ret' = outcome.code
  BY DEF Becomes, Returns
<1>3. \/ outcome.code = "runtime" /\ outcome.array = arr[a]
      \/ /\ outcome.code = "success" /\ Sound(outcome.array)
         /\ outcome.array.elems = arr[a].elems
         /\ outcome.array.counted = arr[a].counted
  BY <1>1, ReserveEffect
<1>4. QED
  BY <1>2, <1>3, PutBack DEF Kept, Moves, Puts

\* see_dynamic_array_add appends the element and counts it.
LEMMA AddEffect ==
  ASSUME AllSound, NEW a \in Arrays, NEW v \in Values, Add(a, v)
  PROVE  \/ Kept /\ ret' # "success"
         \/ /\ ret' = "success" /\ Live(a)
            /\ Puts(a, Append(arr[a].elems, v), arr[a].counted)
            /\ refs' = CopyElements(arr[a], refs, <<v>>) /\ UNCHANGED held
<1> DEFINE r == arr[a]
<1>1. Live(a) /\ Sound(r) /\ r.elems \in Seq(Values) /\ UNCHANGED held
      /\ Size(r) = Len(r.elems) /\ Size(r) \in Nat
  BY LiveSound DEF Add
<1>2. PICK outcome \in Enlarged(r) :
        IF outcome.code = "success"
        THEN /\ arr' = [arr EXCEPT ![a] =
                          [outcome.array EXCEPT !.elems = Append(@, v)]]
             /\ refs' = CopyElements(r, refs, <<v>>)
             /\ Returns("success")
        ELSE Becomes(a, outcome) /\ UNCHANGED refs
  BY DEF Add
<1>3. \/ outcome.code = "runtime" /\ outcome.array = r
      \/ /\ outcome.code = "success" /\ Sound(outcome.array)
         /\ outcome.array.elems = r.elems
         /\ outcome.array.counted = r.counted
         /\ Size(r) + 1 <= outcome.array.capacity
  BY <1>1, EnlargedEffect
<1>4. CASE outcome.code = "runtime" /\ outcome.array = r
  BY <1>1, <1>2, <1>4, PutBack DEF Becomes, Kept, Returns
<1>5. CASE /\ outcome.code = "success" /\ Sound(outcome.array)
           /\ outcome.array.elems = r.elems
           /\ outcome.array.counted = r.counted
           /\ Size(r) + 1 <= outcome.array.capacity
  <2> DEFINE o == outcome.array
             q == [o EXCEPT !.elems = Append(@, v)]
  <2>1. Append(r.elems, v) \in Seq(Values) /\ Len(Append(r.elems, v)) = Size(r) + 1
    BY <1>1, AppendProperties
  <2>2. o \in ArrayType
    BY <1>5 DEF Sound
  <2>3. /\ q \in ArrayType /\ q.elems = Append(r.elems, v) /\ q.counted = r.counted
        /\ q.capacity = o.capacity /\ q.bytes = o.bytes
    BY <1>5, <2>1, <2>2 DEF ArrayType
  <2>4. Size(q) = Size(r) + 1
    BY <2>1, <2>3 DEF Size
  <2>5. Sound(q)
    BY <1>5, <2>3, <2>4 DEF Sound
  <2>6. arr' = [arr EXCEPT ![a] = q] /\ ret' = "success"
        /\ refs' = CopyElements(r, refs, <<v>>)
    BY <1>2, <1>5 DEF Returns
  <2>7. QED
    BY <1>1, <2>3, <2>5, <2>6 DEF Puts
<1>6. QED
  BY <1>3, <1>4, <1>5

\* Other elements that fit.
LEMMA OthersFit ==
  ASSUME NEW r, Sound(r), NEW s \in Seq(Values), Len(s) <= r.capacity
  PROVE  LET q == [r EXCEPT !.elems = s]
         IN  Sound(q) /\ q.elems = s /\ q.counted = r.counted
<1> DEFINE q == [r EXCEPT !.elems = s]
<1>1. r \in ArrayType
  BY DEF Sound
<1>2. /\ q \in ArrayType /\ q.elems = s /\ q.counted = r.counted
      /\ q.capacity = r.capacity /\ q.bytes = r.bytes
  BY <1>1 DEF ArrayType
<1>3. Size(q) = Len(s)
  BY <1>2 DEF Size
<1>4. QED
  BY <1>2, <1>3 DEF Sound

\* An assignment to the elements of one array.
LEMMA PutsElements ==
  ASSUME AllSound, NEW a \in Arrays, Live(a), NEW s \in Seq(Values),
         Len(s) <= arr[a].capacity,
         arr' = [arr EXCEPT ![a] = [arr[a] EXCEPT !.elems = s]]
  PROVE  Puts(a, s, arr[a].counted)
<1>1. Sound(arr[a])
  BY LiveSound
<1> DEFINE q == [arr[a] EXCEPT !.elems = s]
<1>2. Sound(q) /\ q.elems = s /\ q.counted = arr[a].counted
  BY <1>1, OthersFit
<1>3. QED
  BY <1>2 DEF Puts

\* see_dynamic_array_set exchanges the element at its position.
LEMMA SetEffect ==
  ASSUME AllSound, NEW a \in Arrays, NEW pos \in Requests, NEW v \in Values,
         Set(a, pos, v)
  PROVE  \/ Kept /\ pos >= Size(arr[a])
         \/ /\ ret' = "success" /\ Live(a) /\ pos + 1 \in 1 .. Len(arr[a].elems)
            /\ Puts(a, [arr[a].elems EXCEPT ![pos + 1] = v], arr[a].counted)
            /\ refs' = CopyElements(arr[a],
                         FreeElements(arr[a], refs, <<arr[a].elems[pos + 1]>>), <<v>>)
            /\ UNCHANGED held
<1> DEFINE r == arr[a]
<1>1. /\ Live(a) /\ Sound(r) /\ r.elems \in Seq(Values) /\ UNCHANGED held
      /\ Size(r) = Len(r.elems) /\ Size(r) \in Nat /\ Size(r) <= r.capacity
  BY LiveSound DEF Set, Sound
<1>2. CASE pos >= Size(r) /\ UNCHANGED <<arr, refs>>
  BY <1>1, <1>2 DEF Kept
<1>3. CASE /\ pos < Size(r)
           /\ arr' = [arr EXCEPT ![a].elems[pos + 1] = v]
           /\ refs' = CopyElements(r, FreeElements(r, refs, <<r.elems[pos + 1]>>), <<v>>)
           /\ Returns("success")
  <2> DEFINE s == [r.elems EXCEPT ![pos + 1] = v]
  <2>1. pos + 1 \in 1 .. Len(r.elems)
    BY <1>1, <1>3, ElementsAssumption, Sizes
  <2>2. s \in Seq(Values) /\ Len(s) = Len(r.elems)
    BY <1>1, <2>1, ExceptSeq
  <2>3. arr' = [arr EXCEPT ![a] = [arr[a] EXCEPT !.elems = s]]
    BY <1>3
  <2>4. Puts(a, s, r.counted)
    BY <1>1, <2>2, <2>3, PutsElements
  <2>5. QED
    BY <1>1, <1>3, <2>1, <2>4 DEF Returns
<1>4. QED
  BY <1>2, <1>3 DEF Set

\* see_dynamic_array_reserve moves the elements, at most.
LEMMA ReserveCallEffect ==
  ASSUME AllSound, NEW a \in Arrays, NEW n \in Requests, ReserveCall(a, n)
  PROVE  \/ Kept /\ ret' # "success"
         \/ ret' = "success" /\ Live(a) /\ Moves(a, arr[a].elems, arr[a].counted)
<1>1. n \in SizeT /\ Live(a) /\ UNCHANGED <<refs, held>>
  BY ElementsAssumption DEF ReserveCall, SizeT
<1>2. QED
  BY <1>1, BecomesEffect DEF ReserveCall

\* see_dynamic_array_resize moves the elements, or cuts the list short.
LEMMA ResizeEffect ==
  ASSUME AllSound, NEW a \in Arrays, NEW n \in SizeT, Resize(a, n)
  PROVE  \/ Kept /\ ret' # "success"
         \/ /\ ret' = "success" /\ Live(a) /\ n > Len(arr[a].elems)
            /\ Moves(a, arr[a].elems, arr[a].counted)
         \/ /\ ret' = "success" /\ Live(a) /\ n \in 0 .. Len(arr[a].elems)
            /\ Moves(a, SubSeq(arr[a].elems, 1, n), arr[a].counted)
            /\ arr[a].counted /\ n < Size(arr[a]) => "free address" \in Corners
<1> DEFINE r == arr[a]
<1>1. /\ Live(a) /\ Sound(r) /\ r.elems \in Seq(Values) /\ UNCHANGED <<refs, held>>
      /\ Size(r) = Len(r.elems) /\ Size(r) \in Nat /\ Size(r) <= r.capacity
      /\ r.capacity \in Nat
  BY LiveSound, CapacityBound DEF Resize
<1>2. n \in Nat
  BY Sizes DEF SizeT
<1>3. CASE n <= Size(r) /\ Shrink(a, n)
  <2> DEFINE s == SubSeq(r.elems, 1, n)
  <2>1. \A i \in 1 .. n : r.elems[i] \in Values
    BY <1>1, <1>2, <1>3, ElementOfSeq
  <2>2. s \in Seq(Values) /\ Len(s) = n
    BY <1>2, <2>1, SubSeqProperties
  <2>3. arr' = [arr EXCEPT ![a] = [arr[a] EXCEPT !.elems = s]] /\ ret' = "success"
    BY <1>3 DEF Shrink, Returns
  <2>4. Len(s) <= r.capacity
    BY <1>1, <1>2, <1>3, <2>2
  <2>5. Puts(a, s, r.counted)
    BY <1>1, <2>2, <2>3, <2>4, PutsElements
  <2>6. n \in 0 .. Len(r.elems)
    BY <1>1, <1>2, <1>3
  <2>7. r.counted /\ n < Size(r) => "free address" \in Corners
    BY <1>3 DEF Shrink
  <2>8. QED
    BY <1>1, <2>3, <2>5, <2>6, <2>7, Zenon DEF Moves
<1>4. CASE n > Size(r) /\ Grow(a, n)
  BY <1>1, <1>4, BecomesEffect DEF Grow
<1>5. n <= Size(r) \/ (n > Size(r) /\ ~ (n <= Size(r)))
  BY <1>1, <1>2
<1>6. QED
  BY <1>3, <1>4, <1>5 DEF Resize

\* see_dynamic_array_shrink_to_fit moves the elements, at most.
LEMMA ShrinkToFitEffect ==
  ASSUME AllSound, NoneShrunkEmpty, NEW a \in Arrays, ShrinkToFit(a)
  PROVE  \/ Kept
         \/ ret' = "success" /\ Live(a) /\ Moves(a, arr[a].elems, arr[a].counted)
<1> DEFINE r == arr[a]
<1>1. /\ Live(a) /\ Sound(r) /\ r \in ArrayType /\ UNCHANGED <<refs, held>>
      /\ Size(r) \in Nat /\ Size(r) <= r.capacity /\ 2 * r.capacity < SizeMod
      /\ r.capacity \in Nat
  BY LiveSound, CapacityBound DEF ShrinkToFit
<1>2. CASE UNCHANGED arr
  BY <1>1, <1>2 DEF Kept
<1>3. CASE arr' = [arr EXCEPT ![a] = WithRoom(r, Size(r))] /\ Returns("success")
  <2> DEFINE w == WithRoom(r, Size(r))
             Goal == Sound(w) /\ w.elems = r.elems /\ w.counted = r.counted
  <2>1. Size(r) \in SizeT
    BY <1>1, Sizes DEF SizeT
  <2>2. ASSUME Size(r) = 0 PROVE Goal
    <3>1. ElemSize * Size(r) = 0
      BY <2>2, Sizes
    <3>2. SizeMod \div 2 > 0
      BY Sizes
    <3>3. QED
      BY <1>1, <2>1, <3>1, <3>2, RoomSound
  <2>3. ASSUME Size(r) > 0 PROVE Goal
    <3>1. ElemSize * Size(r) <= r.bytes
      BY <1>1, Sizes, Times DEF Sound
    <3>2. r.capacity * ElemSize > 0
      BY <1>1, <2>3, Sizes, FactorFits
    <3>3. r.bytes < SizeMod \div 2 /\ r.bytes \in Nat
      BY <1>1, <3>2, Fields DEF Sound
    <3>4. ElemSize * Size(r) < SizeMod \div 2
      BY <1>1, <3>1, <3>3, Sizes
    <3>5. QED
      BY <1>1, <2>1, <3>4, RoomSound
  <2>4. Sound(w) /\ w.elems = r.elems /\ w.counted = r.counted
    BY <1>1, <2>2, <2>3
  <2>5. arr' = [arr EXCEPT ![a] = w] /\ ret' = "success"
    BY <1>3 DEF Returns
  <2>6. QED
    BY <1>1, <2>4, <2>5 DEF Moves, Puts
<1>4. QED
  BY <1>2, <1>3 DEF ShrinkToFit, NoneShrunkEmpty

\* A function on 1 .. n is a sequence of length n.
LEMMA FunctionIsSeq ==
  ASSUME NEW n \in Nat, NEW f \in [1 .. n -> Values]
  PROVE  f \in Seq(Values) /\ Len(f) = n /\ DOMAIN f = 1 .. n
OBVIOUS

\* What clients insert.
LEMMA InsertsType ==
  ASSUME NEW s \in Inserts
  PROVE  s \in Seq(Values) /\ Len(s) \in 0 .. MaxInsert
<1>1. PICK n \in 0 .. MaxInsert : s \in [1 .. n -> Values]
  BY DEF Inserts
<1>2. n \in Nat
  BY Sizes
<1>3. QED
  BY <1>1, <1>2, FunctionIsSeq

\* The sum of the sizes does not wrap around, as both blocks are in memory.
LEMMA SumFits ==
  ASSUME NEW r, Sound(r), NEW k \in 0 .. MaxInsert
  PROVE  Size(r) + k \in SizeT /\ (Size(r) + k) % SizeMod = Size(r) + k
<1>1. /\ Size(r) \in Nat /\ r.capacity \in Nat /\ Size(r) <= r.capacity
      /\ 2 * r.capacity < SizeMod
  BY CapacityBound
<1>2. MaxInsert <= MaxInsert * ElemSize /\ MaxInsert * ElemSize \in Nat
  BY Sizes, FactorFits
<1>3. 2 * MaxInsert < SizeMod
  BY <1>2, Sizes, Half
<1>4. Size(r) + k \in Nat /\ Size(r) + k < SizeMod
  BY <1>1, <1>3, Sizes
<1>5. QED
  BY <1>4, Sizes, Remainder DEF SizeT

\* Where the elements are after array_insert.
LEMMA InsertedIs ==
  ASSUME NEW r, Sound(r), NEW s \in Seq(Values), NEW k \in 0 .. MaxInsert,
         k = Len(s), NEW n \in Nat, n = Size(r), NEW pos \in 0 .. n
  PROVE  /\ Inserted(r, pos, s) =
              [i \in 1 .. n + k |->
                 IF i \in pos + 1 .. pos + k THEN s[i - pos]
                 ELSE IF i > pos + k THEN r.elems[i - k] ELSE r.elems[i]]
         /\ Inserted(r, pos, s) \in Seq(Values)
         /\ Len(Inserted(r, pos, s)) = n + k
<1>1. (n + k) % SizeMod = n + k /\ n + k \in Nat /\ k \in Nat
  BY SumFits, Sizes
<1>2. /\ \A i \in 1 .. n : r.elems[i] \in Values
      /\ \A i \in 1 .. k : s[i] \in Values
  BY ElementOfSeq, Fields DEF Sound, Size
<1> DEFINE f == [i \in 1 .. n + k |->
                   IF i \in pos + 1 .. pos + k THEN s[i - pos]
                   ELSE IF i > pos + k THEN r.elems[i - k] ELSE r.elems[i]]
<1>3. f = Inserted(r, pos, s)
  <2>1. /\ (n + k) - (n - pos) = pos + k
        /\ \A i \in 1 .. n + k : pos + i - (pos + k) = i - k
    BY <1>1
  <2>2. QED
    BY <1>1, <2>1 DEF Inserted
<1>4. f \in [1 .. n + k -> Values]
  <2>1. SUFFICES ASSUME NEW i \in 1 .. n + k PROVE f[i] \in Values
    OBVIOUS
  <2>2. CASE i \in pos + 1 .. pos + k
    BY <1>1, <1>2, <2>2
  <2>3. CASE i > pos + k
    BY <1>1, <1>2, <2>3
  <2>4. CASE i <= pos
    BY <1>1, <1>2, <2>4
  <2>5. QED
    BY <1>1, <2>2, <2>3, <2>4
<1>5. QED
  BY <1>1, <1>3, <1>4, FunctionIsSeq

\* see_dynamic_array_insert puts the new elements between the others.
LEMMA InsertEffect ==
  ASSUME AllSound, NEW a \in Arrays, NEW pos \in Requests, NEW s \in Inserts,
         Insert(a, pos, s)
  PROVE  \/ Kept /\ ret' # "success"
         \/ /\ ret' = "success" /\ Live(a) /\ pos \in 0 .. Len(arr[a].elems)
            /\ Puts(a, Inserted(arr[a], pos, s), arr[a].counted)
            /\ refs' = CopyElements(arr[a], refs, s) /\ UNCHANGED held
<1> DEFINE r == arr[a]
           n == Size(r)
<1>1. /\ Live(a) /\ Sound(r) /\ r.elems \in Seq(Values) /\ UNCHANGED held
      /\ n = Len(r.elems) /\ n \in Nat
  BY LiveSound DEF Insert
<1>2. s \in Seq(Values) /\ Len(s) \in 0 .. MaxInsert /\ pos \in Nat
  BY InsertsType, ElementsAssumption, Sizes
<1>3. CASE UNCHANGED <<arr, refs>> /\ Returns("index")
  BY <1>1, <1>3 DEF Kept, Returns
<1>4. ASSUME pos <= n,
             NEW outcome \in Reserve(r, (n + Len(s)) % SizeMod),
             IF outcome.code = "success"
             THEN /\ arr' = [arr EXCEPT ![a] =
                      [outcome.array EXCEPT !.elems = Inserted(r, pos, s)]]
                  /\ refs' = CopyElements(r, refs, s)
                  /\ Returns("success")
             ELSE Becomes(a, outcome) /\ UNCHANGED refs
      PROVE  \/ Kept /\ ret' # "success"
             \/ /\ ret' = "success" /\ pos \in 0 .. n
                /\ Puts(a, Inserted(r, pos, s), r.counted)
                /\ refs' = CopyElements(r, refs, s)
  <2> DEFINE o == outcome.array
             t == Inserted(r, pos, s)
  <2>1. (n + Len(s)) % SizeMod = n + Len(s) /\ n + Len(s) \in SizeT
    BY <1>1, <1>2, SumFits
  <2>2. pos \in 0 .. n
    BY <1>1, <1>2, <1>4
  <2>3. t \in Seq(Values) /\ Len(t) = n + Len(s)
    BY <1>1, <1>2, <2>2, InsertedIs
  <2>4. \/ outcome.code = "runtime" /\ o = r
        \/ /\ outcome.code = "success" /\ Sound(o)
           /\ o.elems = r.elems /\ o.counted = r.counted
           /\ n + Len(s) <= o.capacity
    BY <1>1, <1>4, <2>1, ReserveEffect
  <2>5. CASE outcome.code = "runtime" /\ o = r
    BY <1>1, <1>4, <2>5, PutBack DEF Becomes, Kept, Returns
  <2>6. CASE /\ outcome.code = "success" /\ Sound(o)
             /\ o.counted = r.counted /\ n + Len(s) <= o.capacity
    <3> DEFINE q == [o EXCEPT !.elems = t]
    <3>1. Sound(q) /\ q.elems = t /\ q.counted = r.counted
      BY <2>3, <2>6, OthersFit
    <3>2. arr' = [arr EXCEPT ![a] = q]
      BY <1>4, <2>6
    <3>3. ret' = "success" /\ refs' = CopyElements(r, refs, s)
      BY <1>4, <2>6 DEF Returns
    <3>4. Puts(a, t, r.counted)
      BY <3>1, <3>2 DEF Puts
    <3>5. QED
      BY <2>2, <3>3, <3>4
  <2>7. QED
    BY <2>4, <2>5, <2>6
<1>5. CASE pos > n
  BY <1>1, <1>3, <1>5 DEF Insert
<1>6. CASE pos <= n
  <2>1. \E outcome \in Reserve(r, (n + Len(s)) % SizeMod) :
          IF outcome.code = "success"
          THEN /\ arr' = [arr EXCEPT ![a] =
                   [outcome.array EXCEPT !.elems = Inserted(r, pos, s)]]
               /\ refs' = CopyElements(r, refs, s)
               /\ Returns("success")
          ELSE Becomes(a, outcome) /\ UNCHANGED refs
    BY <1>1, <1>2, <1>6 DEF Insert
  <2>2. QED
    BY <1>1, <1>4, <1>6, <2>1
<1>7. QED
  BY <1>1, <1>2, <1>5, <1>6

\* The copy has the elements of the original, each counted once more.
LEMMA CopyEffect ==
  ASSUME AllSound, NEW a \in Arrays, NEW b \in Arrays, Copy(a, b)
  PROVE  \/ Kept /\ ret' # "success"
         \/ /\ ret' = "success" /\ Live(a)
            /\ Puts(b, arr[a].elems, arr[a].counted)
            /\ LET copied == CopyElements(arr[a], refs, arr[a].elems)
               IN  refs' = IF Live(b) THEN FreeElements(arr[b], copied, arr[b].elems)
                           ELSE copied
            /\ UNCHANGED held
<1> DEFINE r == arr[a]
           e == Empty(r.counted)
           copied == CopyElements(r, refs, r.elems)
<1>1. /\ Live(a) /\ Sound(r) /\ r.elems \in Seq(Values) /\ UNCHANGED held
      /\ Size(r) = Len(r.elems) /\ Size(r) \in Nat /\ r.counted \in BOOLEAN
  BY LiveSound DEF Copy
<1>2. Sound(e) /\ e.counted = r.counted
  BY <1>1, EmptySound
<1>3. Size(r) \in SizeT
  BY <1>1, CapacityBound, Sizes DEF SizeT
<1>4. CASE UNCHANGED <<arr, refs>> /\ ret' # "success"
  BY <1>1, <1>4 DEF Kept
<1>5. ASSUME NEW outcome \in Reserve(e, Size(r)), outcome.code = "success",
             arr' = [arr EXCEPT ![b] = [outcome.array EXCEPT !.elems = r.elems]],
             refs' = IF Live(b) THEN FreeElements(arr[b], copied, arr[b].elems)
                     ELSE copied,
             Returns("success")
      PROVE  ret' = "success" /\ Puts(b, r.elems, r.counted)
  <2> DEFINE o == outcome.array
             q == [o EXCEPT !.elems = r.elems]
  <2>1. Sound(o) /\ o.counted = r.counted /\ Size(r) <= o.capacity
    BY <1>2, <1>3, <1>5, ReserveEffect
  <2>2. Sound(q) /\ q.elems = r.elems /\ q.counted = r.counted
    BY <1>1, <2>1, OthersFit
  <2>3. QED
    BY <1>5, <2>2 DEF Puts, Returns
<1>6. QED
  BY <1>1, <1>4, <1>5 DEF Copy, Returns

-----------------------------------------------------------------------------
(* see_dynamic_array_shuffle_range *)

\* A set of natural numbers that is not empty has a least one.
LEMMA LeastNumber ==
  ASSUME NEW T, T \subseteq Nat, T # {}
  PROVE  \E m \in T : \A k \in T : m <= k
<1>1. PICK m \in T : \A k \in T : <<k, m>> \notin OpToRel(<, Nat)
  BY NatLessThanWellFounded, WFMin
<1>2. \A k \in T : ~ (k < m)
  BY <1>1 DEF OpToRel
<1>3. QED
  BY <1>2

\* One exchange after another, up to position k.
Exchanges(s, start, k, choice, h) ==
  h = [i \in start .. k |-> IF i = start THEN s
                            ELSE Swapped(h[i - 1], i, choice[i - 1] + 1)]

\* The exchanges can be made; so that the function in Shuffled is what its
\* definition says.
LEMMA ExchangesExist ==
  ASSUME NEW s, NEW start \in Nat, NEW choice, NEW n \in Nat, n >= start
  PROVE  \E h : Exchanges(s, start, n, choice, h)
<1> DEFINE T == {k \in Nat : k >= start /\ ~ \E h : Exchanges(s, start, k, choice, h)}
<1>1. T = {}
  <2>1. SUFFICES ASSUME T # {} PROVE FALSE
    OBVIOUS
  <2>2. PICK m \in T : \A k \in T : m <= k
    BY <2>1, LeastNumber
  <2>3. m # start
    <3> DEFINE h == [i \in start .. start |-> s]
    <3>1. Exchanges(s, start, start, choice, h)
      BY DEF Exchanges
    <3>2. QED
      BY <3>1
  <2>4. m \in Nat /\ m > start /\ m - 1 \in Nat /\ m - 1 >= start
    BY <2>2, <2>3
  <2>5. PICK h : Exchanges(s, start, m - 1, choice, h)
    BY <2>2, <2>4
  <2> DEFINE g == [i \in start .. m |-> IF i = start THEN s
                                        ELSE Swapped(h[i - 1], i, choice[i - 1] + 1)]
  <2>6. \A i \in start .. m - 1 : g[i] = h[i]
    BY <2>4, <2>5 DEF Exchanges
  <2>7. \A i \in start .. m : i # start => i - 1 \in start .. m - 1
    BY <2>4
  <2>8. \A i \in start .. m : i # start => g[i - 1] = h[i - 1]
    BY <2>6, <2>7
  <2>9. Exchanges(s, start, m, choice, g)
    BY <2>8 DEF Exchanges
  <2>10. QED
    BY <2>2, <2>9
<1>2. QED
  BY <1>1

\* t has the elements of s, those at the positions in R in another order.
Permuted(s, R, t) ==
  \E p \in [R -> R] :
    /\ \A i, j \in R : p[i] = p[j] => i = j
    /\ t = [i \in DOMAIN s |-> IF i \in R THEN s[p[i]] ELSE s[i]]

\* Nothing moved.
LEMMA NotPermuted ==
  ASSUME NEW s, s = [i \in DOMAIN s |-> s[i]], NEW R PROVE Permuted(s, R, s)
<1> DEFINE p == [i \in R |-> i]
<1>1. p \in [R -> R] /\ \A i, j \in R : p[i] = p[j] => i = j
  OBVIOUS
<1>2. s = [i \in DOMAIN s |-> IF i \in R THEN s[p[i]] ELSE s[i]]
  OBVIOUS
<1>3. QED
  BY <1>1, <1>2 DEF Permuted

\* One more exchange within R.
LEMMA SwappedPermuted ==
  ASSUME NEW s, NEW R, R \subseteq DOMAIN s, NEW t, Permuted(s, R, t),
         NEW i \in R, NEW j \in R
  PROVE  Permuted(s, R, Swapped(t, i, j))
<1>1. PICK p \in [R -> R] :
        /\ \A k, l \in R : p[k] = p[l] => k = l
        /\ t = [k \in DOMAIN s |-> IF k \in R THEN s[p[k]] ELSE s[k]]
  BY DEF Permuted
<1> DEFINE q == [k \in R |-> IF k = i THEN p[j] ELSE IF k = j THEN p[i] ELSE p[k]]
           u == Swapped(t, i, j)
<1>2. q \in [R -> R] /\ \A k, l \in R : q[k] = q[l] => k = l
  BY <1>1
<1>3. u = [k \in DOMAIN s |-> IF k = i THEN t[j] ELSE IF k = j THEN t[i] ELSE t[k]]
  BY <1>1 DEF Swapped
<1>4. ASSUME NEW k \in DOMAIN s
      PROVE  u[k] = IF k \in R THEN s[q[k]] ELSE s[k]
  BY <1>1, <1>3
<1>5. u = [k \in DOMAIN s |-> IF k \in R THEN s[q[k]] ELSE s[k]]
  BY <1>3, <1>4
<1>6. QED
  BY <1>2, <1>5 DEF Permuted

\* The exchanges between start and end rearrange what is there, whatever the
\* random device chooses.
LEMMA ShuffledPermuted ==
  ASSUME NEW start \in Nat, NEW end \in Nat, start < end,
         NEW s, s = [i \in DOMAIN s |-> s[i]], start + 1 .. end \subseteq DOMAIN s,
         NEW choice \in [start .. end - 1 -> start .. end - 1]
  PROVE  Permuted(s, start + 1 .. end, Shuffled(s, start, end, choice))
<1> DEFINE R == start + 1 .. end
           h == CHOOSE g : Exchanges(s, start, end, choice, g)
<1>1. Exchanges(s, start, end, choice, h)
  <2>1. end >= start
    OBVIOUS
  <2>2. \E g : Exchanges(s, start, end, choice, g)
    BY <2>1, ExchangesExist, Zenon
  <2>3. QED
    BY <2>2, Zenon
<1>2. Shuffled(s, start, end, choice) = h[end]
  BY DEF Shuffled, Exchanges
<1> HIDE DEF h
<1>3. /\ h[start] = s
      /\ \A i \in start + 1 .. end : h[i] = Swapped(h[i - 1], i, choice[i - 1] + 1)
  <2>1. h = [i \in start .. end |-> IF i = start THEN s
                               ELSE Swapped(h[i - 1], i, choice[i - 1] + 1)]
    BY <1>1, Zenon DEF Exchanges
  <2>2. start \in start .. end /\ h[start] = s
    <3>1. start \in start .. end
      OBVIOUS
    <3>2. QED
      BY <2>1, <3>1, Zenon
  <2>3. ASSUME NEW i \in start + 1 .. end
        PROVE  h[i] = Swapped(h[i - 1], i, choice[i - 1] + 1)
    <3>1. i \in start .. end /\ i # start
      OBVIOUS
    <3>2. QED
      BY <2>1, <3>1, Zenon
  <2>4. QED
    BY <2>2, <2>3
<1>4. R \subseteq DOMAIN s
  OBVIOUS
<1> DEFINE T == {k \in Nat : k >= start /\ k <= end /\ ~ Permuted(s, R, h[k])}
<1>5. T = {}
  <2>1. SUFFICES ASSUME T # {} PROVE FALSE
    OBVIOUS
  <2>2. PICK m \in T : \A k \in T : m <= k
    BY <2>1, LeastNumber
  <2>3. m # start
    BY <1>3, <2>2, NotPermuted
  <2>4. /\ m \in start + 1 .. end /\ m - 1 \in start .. end - 1 /\ m - 1 \in Nat
        /\ m - 1 \notin T
    BY <2>2, <2>3
  <2>5. Permuted(s, R, h[m - 1])
    BY <2>4
  <2>6. m \in R /\ choice[m - 1] + 1 \in R
    <3>1. choice[m - 1] \in start .. end - 1
      BY <2>4
    <3>2. QED
      BY <2>4, <3>1
  <2>7. Permuted(s, R, h[m])
    <3> DEFINE t == h[m - 1]
               j == choice[m - 1] + 1
    <3>1. h[m] = Swapped(t, m, j)
      BY <1>3, <2>4
    <3>2. Permuted(s, R, t) /\ m \in R /\ j \in R
      BY <2>5, <2>6
    <3> HIDE DEF R, t, j
    <3>3. Permuted(s, R, Swapped(t, m, j))
      BY <1>4, <3>2, SwappedPermuted, Zenon
    <3>4. QED
      BY <3>1, <3>3
  <2>8. QED
    BY <2>2, <2>7
<1>6. QED
  BY <1>2, <1>5

\* The shuffle orders the elements of its range anew.
LEMMA ShuffleRangeEffect ==
  ASSUME AllSound, NEW a \in Arrays, NEW start \in Requests, NEW end \in Requests,
         ShuffleRange(a, start, end)
  PROVE  \/ Kept /\ (ret' # "success" \/ start >= end)
         \/ /\ ret' = "success" /\ Live(a) /\ ~ arr[a].counted
            /\ start < end /\ end <= Size(arr[a])
            /\ \E t \in Seq(Values) :
                 /\ Len(t) = Len(arr[a].elems)
                 /\ Permuted(arr[a].elems, start + 1 .. end, t)
                 /\ Moves(a, t, arr[a].counted)
<1> DEFINE r == arr[a]
           s == arr[a].elems
           R == start + 1 .. end
<1>1. /\ Live(a) /\ Sound(r) /\ s \in Seq(Values) /\ UNCHANGED <<refs, held>>
      /\ Size(r) = Len(s) /\ Size(r) \in Nat /\ Size(r) <= r.capacity /\ ~ r.counted
  BY LiveSound DEF ShuffleRange, Sound
<1>2. start \in Nat /\ end \in Nat
  BY ElementsAssumption, Sizes
<1>3. CASE UNCHANGED arr /\ (ret' # "success" \/ start >= end)
  BY <1>1, <1>3 DEF Kept
<1>4. ASSUME end <= Size(r), start < end,
             NEW choice \in [start .. end - 1 -> start .. end - 1],
             arr' = [arr EXCEPT ![a].elems = Shuffled(@, start, end, choice)],
             Returns("success")
      PROVE  /\ ret' = "success" /\ start < end /\ end <= Size(r)
             /\ \E t \in Seq(Values) :
                  Len(t) = Len(s) /\ Permuted(s, R, t) /\ Moves(a, t, r.counted)
  <2> DEFINE t == Shuffled(s, start, end, choice)
  <2>1. DOMAIN s = 1 .. Size(r) /\ s = [i \in DOMAIN s |-> s[i]]
        /\ \A i \in DOMAIN s : s[i] \in Values
    BY <1>1, LenProperties, ElementOfSeq
  <2>2. R \subseteq DOMAIN s
    BY <1>1, <1>2, <1>4, <2>1
  <2>3. Permuted(s, R, t)
    BY <1>2, <1>4, <2>1, <2>2, ShuffledPermuted
  <2> HIDE DEF t
  <2>4. t \in [1 .. Size(r) -> Values]
    <3>1. PICK p \in [R -> R] :
            t = [i \in DOMAIN s |-> IF i \in R THEN s[p[i]] ELSE s[i]]
      BY <2>3 DEF Permuted
    <3> HIDE DEF R
    <3>2. \A i \in DOMAIN s : t[i] \in Values
      BY <2>1, <2>2, <3>1
    <3>3. QED
      BY <2>1, <3>1, <3>2
  <2>5. t \in Seq(Values) /\ Len(t) = Size(r)
    BY <1>1, <2>4, FunctionIsSeq
  <2>6. arr' = [arr EXCEPT ![a] = [arr[a] EXCEPT !.elems = t]] /\ ret' = "success"
    BY <1>4 DEF Returns, t
  <2>7. Moves(a, t, r.counted)
    BY <1>1, <2>5, <2>6, PutsElements DEF Moves
  <2>8. QED
    BY <1>1, <1>4, <2>3, <2>5, <2>6, <2>7
<1>5. CASE /\ end <= Size(r) /\ start < end /\ Returns("success")
           /\ \E choice \in [start .. end - 1 -> start .. end - 1] :
                arr' = [arr EXCEPT ![a].elems = Shuffled(@, start, end, choice)]
  BY <1>1, <1>4, <1>5
<1>6. \/ UNCHANGED arr /\ (ret' # "success" \/ start >= end)
      \/ /\ ~ (end > Size(r)) /\ start < end /\ Returns("success")
         /\ \E choice \in [start .. end - 1 -> start .. end - 1] :
              arr' = [arr EXCEPT ![a].elems = Shuffled(@, start, end, choice)]
  <2>1. /\ Returns("index") => ret' # "success"
        /\ Returns("runtime") => ret' # "success"
    BY DEF Returns
  <2>2. QED
    BY <2>1, Zenon DEF ShuffleRange
<1>7. QED
  BY <1>1, <1>2, <1>3, <1>5, <1>6

\* see_dynamic_array_get changes no array.
LEMMA GetEffect ==
  ASSUME NEW a \in Arrays, NEW pos, Get(a, pos)
  PROVE  \/ Kept
         \/ /\ ret' = "success" /\ UNCHANGED arr
            /\ pos < Size(arr[a])
            /\ LET v == arr[a].elems[pos + 1]
               IN  /\ arr[a].counted => held[v] < MaxHeld
                   /\ refs' = CopyElements(arr[a], refs, <<v>>)
                   /\ held' = CopyElements(arr[a], held, <<v>>)
BY DEF Get, Kept, Returns

\* The destruction gives up the array and its references.
LEMMA DestroyEffect ==
  ASSUME NEW a \in Arrays, Destroy(a)
  PROVE  /\ ret' = "success" /\ arr' = [arr EXCEPT ![a] = NoArray]
         /\ refs' = FreeElements(arr[a], refs, arr[a].elems) /\ UNCHANGED held
BY DEF Destroy, Returns

\* What a client does on its own changes no array.
LEMMA ClientEffect ==
  ASSUME \/ \E a \in Arrays : Refused(a)
         \/ \E v \in Values : Acquire(v) \/ Release(v)
         \/ ClearError
  PROVE  \/ Kept
         \/ /\ ret' = "success" /\ UNCHANGED arr
            /\ \E v \in Values :
                 \/ /\ refs' = [refs EXCEPT ![v] = @ + 1]
                    /\ held' = [held EXCEPT ![v] = @ + 1] /\ held[v] < MaxHeld
                 \/ /\ refs' = [refs EXCEPT ![v] = @ - 1]
                    /\ held' = [held EXCEPT ![v] = @ - 1] /\ held[v] > 0
BY DEF Kept, Refused, Acquire, Release, ClearError, Returns

-----------------------------------------------------------------------------
(* Every step leaves the memory sound, and a call that fails leaves all *)

Clean == ret' # "success" => Kept

\* All arrays stay sound when one of them is replaced by a sound one, or is gone.
LEMMA PutsSound ==
  ASSUME AllSound,
         \/ UNCHANGED arr
         \/ \E a \in Arrays : \/ \E s, kind : Puts(a, s, kind)
                              \/ arr' = [arr EXCEPT ![a] = NoArray]
  PROVE  AllSound'
<1>1. CASE UNCHANGED arr
  BY <1>1 DEF AllSound, Live, Sound, ArrayType, Size
<1>2. ASSUME NEW a \in Arrays, NEW r, Sound(r) \/ r = NoArray,
             arr' = [arr EXCEPT ![a] = r]
      PROVE  AllSound'
  <2>1. arr' \in [Arrays -> ArrayType \cup {NoArray}]
    BY <1>2 DEF AllSound, Sound
  <2>2. ASSUME NEW b \in Arrays, arr'[b] # NoArray PROVE Sound(arr'[b])
    BY <1>2, <2>2 DEF AllSound, Live
  <2>3. QED
    BY <2>1, <2>2 DEF AllSound, Live, Sound, ArrayType, Size
<1>3. QED
  BY <1>1, <1>2 DEF Puts

\* The operations on arrays keep all arrays sound, and fail without effect.
LEMMA ArraysStep ==
  ASSUME NoneShrunkEmpty, AllSound, Next PROVE AllSound' /\ Clean
<1>1. ASSUME Kept PROVE AllSound' /\ Clean
  BY <1>1, PutsSound DEF Kept, Clean
<1>2. ASSUME ret' = "success", NEW a \in Arrays, NEW s, NEW kind, Puts(a, s, kind)
      PROVE  AllSound' /\ Clean
  BY <1>2, PutsSound DEF Clean
<1>3. ASSUME ret' = "success", UNCHANGED arr PROVE AllSound' /\ Clean
  BY <1>3, PutsSound DEF Clean
<1>4. ASSUME NEW a \in Arrays, NEW n \in Requests,
             \/ \E kind \in Kinds : New(a, n, kind)
             \/ ReserveCall(a, n) \/ Resize(a, n)
      PROVE  AllSound' /\ Clean
  <2>1. n \in SizeT
    BY ElementsAssumption DEF SizeT
  <2>2. CASE \E kind \in Kinds : New(a, n, kind)
    BY <1>1, <1>2, <2>1, <2>2, NewEffect, ElementsAssumption DEF Moves
  <2>3. CASE ReserveCall(a, n)
    BY <1>1, <1>2, <2>3, ReserveCallEffect DEF Moves
  <2>4. CASE Resize(a, n)
    BY <1>1, <1>2, <2>1, <2>4, ResizeEffect DEF Moves
  <2>5. QED
    BY <1>4, <2>2, <2>3, <2>4
<1>5. ASSUME NEW a \in Arrays, Destroy(a) PROVE AllSound' /\ Clean
  BY <1>5, DestroyEffect, PutsSound DEF Clean
<1>6. ASSUME NEW a \in Arrays, ShrinkToFit(a) PROVE AllSound' /\ Clean
  BY <1>1, <1>2, <1>6, ShrinkToFitEffect DEF Moves
<1>7. ASSUME NEW a \in Arrays, NEW v \in Values, Add(a, v) PROVE AllSound' /\ Clean
  BY <1>1, <1>2, <1>7, AddEffect
<1>8. ASSUME NEW a \in Arrays, NEW pos \in Requests, NEW v \in Values, Set(a, pos, v)
      PROVE  AllSound' /\ Clean
  BY <1>1, <1>2, <1>8, SetEffect
<1>9. ASSUME NEW a \in Arrays, NEW pos \in Requests, Get(a, pos)
      PROVE  AllSound' /\ Clean
  BY <1>1, <1>3, <1>9, GetEffect
<1>10. ASSUME NEW a \in Arrays, NEW pos \in Requests, NEW s \in Inserts,
              Insert(a, pos, s)
       PROVE  AllSound' /\ Clean
  BY <1>1, <1>2, <1>10, InsertEffect
<1>11. ASSUME NEW a \in Arrays, NEW b \in Arrays, Copy(a, b) PROVE AllSound' /\ Clean
  BY <1>1, <1>2, <1>11, CopyEffect
<1>12. ASSUME NEW a \in Arrays, NEW start \in Requests, NEW end \in Requests,
              ShuffleRange(a, start, end)
       PROVE  AllSound' /\ Clean
  BY <1>1, <1>2, <1>12, ShuffleRangeEffect DEF Moves
<1>13. ASSUME \/ \E a \in Arrays : Refused(a)
              \/ \E v \in Values : Acquire(v) \/ Release(v)
              \/ ClearError
       PROVE  AllSound' /\ Clean
  BY <1>1, <1>3, <1>13, ClientEffect
<1>14. QED
  BY <1>4, <1>5, <1>6, <1>7, <1>8, <1>9, <1>10, <1>11, <1>12, <1>13 DEF Next

\* see_stack_top and see_stack_pop go by the last position, which is one when
\* the stack is not empty, and past the end when it is: 0 - 1 wraps around.
LEMMA LastPosition ==
  ASSUME AllSound, NEW a \in Arrays, Live(a)
  PROVE  /\ LastPos(a) \in SizeT
         /\ IsEmpty(a) <=> Size(arr[a]) = 0
         /\ ~ IsEmpty(a) => LastPos(a) = Size(arr[a]) - 1
<1> DEFINE n == Size(arr[a])
<1>1. n \in Nat /\ n < SizeMod
  <2>1. Sound(arr[a])
    BY LiveSound
  <2>2. /\ n \in Nat /\ arr[a].capacity \in Nat /\ n <= arr[a].capacity
        /\ arr[a].capacity < SizeMod
    BY <2>1, CapacityBound
  <2>3. QED
    BY <2>2, Sizes
<1>2. CASE n = 0
  <2>1. LastPos(a) = SizeMod - 1
    BY <1>2, Sizes DEF LastPos
  <2>2. QED
    BY <1>2, <2>1, Sizes DEF SizeT, IsEmpty, PastTheEnd
<1>3. CASE n > 0
  <2>1. LastPos(a) = n - 1
    BY <1>1, <1>3, Sizes, Remainder DEF LastPos
  <2>2. QED
    BY <1>1, <1>3, <2>1, Sizes DEF SizeT, IsEmpty, PastTheEnd
<1>4. QED
  BY <1>1, <1>2, <1>3

\* So do those on stacks.
LEMMA StacksStep ==
  ASSUME NoneShrunkEmpty, AllSound, StackNext PROVE AllSound' /\ Clean
<1>1. ASSUME Kept PROVE AllSound' /\ Clean
  BY <1>1, PutsSound DEF Kept, Clean
<1>2. ASSUME ret' = "success", NEW a \in Arrays, NEW s, NEW kind, Puts(a, s, kind)
      PROVE  AllSound' /\ Clean
  BY <1>2, PutsSound DEF Clean
<1>3. ASSUME ret' = "success", UNCHANGED arr PROVE AllSound' /\ Clean
  BY <1>3, PutsSound DEF Clean
<1>4. ASSUME NEW a \in Arrays, StackNew(a) PROVE AllSound' /\ Clean
  <2>1. New(a, 0, FALSE)
    BY <1>4 DEF StackNew
  <2>2. QED
    BY <1>1, <1>2, <2>1, NewEffect, Sizes DEF Moves
<1>5. ASSUME NEW a \in Arrays, StackDestroy(a) PROVE AllSound' /\ Clean
  BY <1>5, DestroyEffect, PutsSound DEF Clean, StackDestroy
<1>6. ASSUME NEW a \in Arrays, NEW v \in Values, StackPush(a, v)
      PROVE  AllSound' /\ Clean
  BY <1>1, <1>2, <1>6, AddEffect DEF StackPush
<1>7. ASSUME NEW a \in Arrays, StackTop(a) PROVE AllSound' /\ Clean
  BY <1>1, <1>3, <1>7, GetEffect DEF StackTop, Kept
<1>8. ASSUME NEW a \in Arrays, StackPop(a) PROVE AllSound' /\ Clean
  <2>1. CASE UNCHANGED <<arr, refs, held>>
    BY <1>1, <2>1 DEF Kept
  <2>2. CASE Resize(a, LastPos(a))
    <3>1. LastPos(a) \in SizeT
      BY <1>8, LastPosition DEF StackPop
    <3>2. QED
      BY <1>1, <1>2, <2>2, <3>1, ResizeEffect DEF Moves
  <2>3. QED
    BY <1>8, <2>1, <2>2 DEF StackPop
<1>9. ASSUME NEW a \in Arrays, NEW b \in Arrays, StackCopy(a, b)
      PROVE  AllSound' /\ Clean
  BY <1>1, <1>2, <1>9, CopyEffect DEF StackCopy
<1>10. CASE (\E a \in Arrays : Refused(a)) \/ ClearError
  BY <1>1, <1>3, <1>10, ClientEffect
<1>11. QED
  BY <1>4, <1>5, <1>6, <1>7, <1>8, <1>9, <1>10 DEF StackNext

\* So does every step.
LEMMA StepSound ==
  ASSUME NoneShrunkEmpty, AllSound, [ContainersNext]_containervars
  PROVE  AllSound' /\ Clean
<1>1. CASE UNCHANGED containervars
  BY <1>1, PutsSound DEF containervars, vars, Clean, Kept
<1>2. CASE ContainersNext
  BY <1>2, ArraysStep, StacksStep DEF ContainersNext
<1>3. QED
  BY <1>1, <1>2

\* No array exists at first, and later ones are sound.
LEMMA AlwaysSound == ASSUME NoneShrunkEmpty PROVE ContainersSpec => []AllSound
<1>1. ContainersInit => AllSound
  BY DEF ContainersInit, StackInit, Init, AllSound, Live
<1>2. AllSound /\ [ContainersNext]_containervars => AllSound'
  BY StepSound
<1>3. QED
  BY <1>1, <1>2, PTL DEF ContainersSpec

-----------------------------------------------------------------------------
(* Theorems: memory and failures *)

\* No operation of SeeDynamicArray or SeeStack writes past the block that realloc
\* gave, however size_t wraps around (array_reserve, array_add, array_insert).
THEOREM ArraysStayInBlock ==
  ASSUME NoneShrunkEmpty PROVE ContainersSpec => []StaysInBlock
<1>1. AllSound => StaysInBlock
  <2>1. SUFFICES ASSUME AllSound, NEW a \in Arrays, Live(a)
                 PROVE  Size(arr[a]) * ElemSize <= arr[a].bytes
    BY DEF StaysInBlock
  <2>2. Sound(arr[a])
    BY <2>1, LiveSound
  <2>3. /\ Size(arr[a]) \in Nat /\ arr[a].capacity \in Nat
        /\ Size(arr[a]) <= arr[a].capacity
    BY <2>2, CapacityBound
  <2>4. QED
    BY <2>2, <2>3, Sizes, Times DEF Sound
<1>2. QED
  BY <1>1, AlwaysSound, PTL

\* The capacity of an array is what its block has room for (array_reserve,
\* array_shrink_to_fit).
THEOREM CapacitiesAllocated ==
  ASSUME NoneShrunkEmpty PROVE ContainersSpec => []CapacityIsAllocated
<1>1. AllSound => CapacityIsAllocated
  BY DEF AllSound, Sound, CapacityIsAllocated
<1>2. QED
  BY <1>1, AlwaysSound, PTL

\* A call that fails leaves every array and every count as it was.
THEOREM FailuresAreClean ==
  ASSUME NoneShrunkEmpty PROVE ContainersSpec => FailureIsClean
<1>1. AllSound /\ [ContainersNext]_containervars => [Clean]_vars
  BY StepSound
<1>2. ContainersSpec => [][Clean]_vars
  BY <1>1, AlwaysSound, PTL DEF ContainersSpec
<1>3. QED
  BY <1>2 DEF FailureIsClean, Clean, Kept

-----------------------------------------------------------------------------
(* The arrays are lists *)

\* An array that is there is the list of its elements.
LEMMA ListOfLive ==
  ASSUME AllSound, NEW a \in Arrays
  PROVE  /\ AllLists[a] = ListOf(a)
         /\ Live(a) => /\ ListOf(a) = arr[a].elems /\ ListOf(a) \in Seq(Values)
                       /\ ListOf(a) # NoArray
         /\ ~ Live(a) => ListOf(a) = NoArray
BY LiveSound, NoArrayAssumption DEF AllLists, ListOf

\* The list of an array changes with its elements.
LEMMA PutsList ==
  ASSUME AllSound, NEW a \in Arrays, NEW s, NEW kind, Puts(a, s, kind)
  PROVE  AllLists' = [AllLists EXCEPT ![a] = s]
<1>1. PICK r : Sound(r) /\ r.elems = s /\ arr' = [arr EXCEPT ![a] = r]
  BY DEF Puts
<1>2. arr'[a] = r /\ r # NoArray
  <2>1. arr'[a] = r /\ r \in ArrayType
    BY <1>1 DEF AllSound, Sound
  <2>2. QED
    BY <2>1, NoArrayAssumption
<1>3. \A b \in Arrays : b # a => arr'[b] = arr[b]
  BY <1>1 DEF AllSound
<1>4. \A b \in Arrays : ListOf(b)' = IF b = a THEN s ELSE AllLists[b]
  <2>1. ListOf(a)' = s
    BY <1>1, <1>2 DEF ListOf, Live
  <2>2. \A b \in Arrays : b # a => ListOf(b)' = ListOf(b)
    BY <1>3 DEF ListOf, Live
  <2>3. QED
    BY <2>1, <2>2 DEF AllLists
<1>5. QED
  BY <1>4 DEF AllLists

\* An array that is destroyed is no list any more.
LEMMA DestroyList ==
  ASSUME AllSound, NEW a \in Arrays, arr' = [arr EXCEPT ![a] = NoArray]
  PROVE  AllLists' = [AllLists EXCEPT ![a] = NoArray]
BY DEF AllSound, AllLists, ListOf, Live

\* The lists are those of the arrays.
LEMMA KeptList == ASSUME UNCHANGED arr PROVE AllLists' = AllLists
BY DEF AllLists, ListOf, Live

\* memmove and the copies put the new elements between the others.
LEMMA InsertedBetween ==
  ASSUME NEW r, Sound(r), NEW s \in Inserts, NEW pos \in 0 .. Size(r)
  PROVE  Inserted(r, pos, s) =
           SubSeq(r.elems, 1, pos) \o s \o SubSeq(r.elems, pos + 1, Len(r.elems))
<1> DEFINE e == r.elems
           n == Size(r)
           k == Len(s)
           left == SubSeq(e, 1, pos)
           right == SubSeq(e, pos + 1, n)
           t == Inserted(r, pos, s)
           ls == left \o s
           u == ls \o right
<1>1. /\ e \in Seq(Values) /\ n = Len(e) /\ n \in Nat /\ s \in Seq(Values)
      /\ k \in 0 .. MaxInsert /\ k \in Nat /\ pos \in Nat /\ pos <= n
  BY Fields, InsertsType, Sizes DEF Sound, Size
<1>2. \A i \in 1 .. n : e[i] \in Values
  BY <1>1, ElementOfSeq
<1>3. /\ t = [i \in 1 .. n + k |->
                IF i \in pos + 1 .. pos + k THEN s[i - pos]
                ELSE IF i > pos + k THEN e[i - k] ELSE e[i]]
      /\ t \in Seq(Values) /\ Len(t) = n + k
  BY <1>1, InsertedIs
<1>4. /\ left \in Seq(Values) /\ Len(left) = pos
      /\ \A i \in 1 .. pos : left[i] = e[i]
  <2>1. \A i \in 1 .. pos : e[i] \in Values
    BY <1>1, <1>2
  <2>2. /\ left \in Seq(Values) /\ Len(left) = IF 1 <= pos THEN pos - 1 + 1 ELSE 0
        /\ \A i \in 1 .. pos - 1 + 1 : left[i] = e[1 + i - 1]
    BY <1>1, <2>1, SubSeqProperties
  <2>3. QED
    BY <1>1, <2>2
<1>5. /\ right \in Seq(Values) /\ Len(right) = n - pos
      /\ \A i \in 1 .. n - pos : right[i] = e[pos + i]
  <2>1. \A i \in pos + 1 .. n : e[i] \in Values
    BY <1>1, <1>2
  <2>2. /\ right \in Seq(Values)
        /\ Len(right) = IF pos + 1 <= n THEN n - (pos + 1) + 1 ELSE 0
        /\ \A i \in 1 .. n - (pos + 1) + 1 : right[i] = e[(pos + 1) + i - 1]
    BY <1>1, <2>1, SubSeqProperties
  <2>3. QED
    BY <1>1, <2>2
<1> HIDE DEF left, right, n, k, e, t
<1>6. /\ ls \in Seq(Values) /\ Len(ls) = pos + k
      /\ \A i \in 1 .. pos + k : ls[i] = IF i <= pos THEN left[i] ELSE s[i - pos]
  BY <1>1, <1>4, ConcatProperties DEF k
<1> HIDE DEF ls
<1>7. /\ u \in Seq(Values) /\ Len(u) = (pos + k) + (n - pos)
      /\ \A i \in 1 .. (pos + k) + (n - pos) : u[i] =
           IF i <= pos + k THEN ls[i] ELSE right[i - (pos + k)]
  <2>1. /\ u \in Seq(Values) /\ Len(u) = Len(ls) + Len(right)
        /\ \A i \in 1 .. Len(ls) + Len(right) :
             u[i] = IF i <= Len(ls) THEN ls[i] ELSE right[i - Len(ls)]
    BY <1>5, <1>6, ConcatProperties, Zenon
  <2> HIDE DEF u
  <2>2. QED
    BY <2>1, <1>5, <1>6
<1> HIDE DEF u
<1>8. (pos + k) + (n - pos) = n + k
  BY <1>1
<1>9. \A i \in 1 .. n + k : t[i] = u[i]
  <2>1. SUFFICES ASSUME NEW i \in 1 .. n + k PROVE t[i] = u[i]
    OBVIOUS
  <2>2. CASE i <= pos
    <3>1. /\ i \in 1 .. pos /\ i \in 1 .. pos + k /\ i <= pos + k
          /\ i \in 1 .. (pos + k) + (n - pos)
          /\ ~ (i \in pos + 1 .. pos + k) /\ ~ (i > pos + k)
      BY <1>1, <1>8, <2>2
    <3>2. t[i] = e[i]
      BY <1>3, <3>1
    <3>3. u[i] = ls[i]
      BY <1>7, <3>1
    <3>4. ls[i] = left[i]
      BY <1>6, <2>2, <3>1
    <3>5. left[i] = e[i]
      BY <1>4, <3>1
    <3>6. QED
      BY <3>2, <3>3, <3>4, <3>5
  <2>3. CASE i > pos /\ i <= pos + k
    <3>1. i \in 1 .. pos + k /\ i \in pos + 1 .. pos + k /\ i \in 1 .. (pos + k) + (n - pos)
      BY <1>1, <1>8, <2>3
    <3>2. t[i] = s[i - pos]
      BY <1>3, <3>1
    <3>3. u[i] = ls[i]
      BY <1>7, <2>3, <3>1
    <3>4. ls[i] = s[i - pos]
      BY <1>1, <1>6, <2>3, <3>1
    <3>5. QED
      BY <3>2, <3>3, <3>4
  <2>4. CASE i > pos + k
    <3>1. i - (pos + k) \in 1 .. n - pos /\ pos + (i - (pos + k)) = i - k
      BY <1>1, <2>4
    <3>2. u[i] = right[i - (pos + k)]
      <4>1. i \in 1 .. (pos + k) + (n - pos) /\ ~ (i <= pos + k)
        BY <1>1, <1>8, <2>4
      <4>2. QED
        BY <1>7, <4>1
    <3>3. u[i] = e[i - k]
      BY <1>5, <3>1, <3>2
    <3>4. QED
      BY <1>1, <1>3, <2>4, <3>3
  <2>5. QED
    BY <1>1, <2>2, <2>3, <2>4
<1>10. t = u
  BY <1>3, <1>7, <1>8, <1>9, SeqEqual
<1>11. QED
  BY <1>1, <1>10 DEF t, u, ls, left, right, e, n, k

\* An array that only moves is the same list.
LEMMA SameList ==
  ASSUME AllSound, NEW a \in Arrays, NEW kind, Live(a), Puts(a, arr[a].elems, kind)
  PROVE  AllLists' = AllLists
<1>1. AllLists' = [AllLists EXCEPT ![a] = AllLists[a]]
  BY PutsList, ListOfLive
<1>2. QED
  BY <1>1 DEF AllLists

\* A call that fails is a step of Lists that leaves all lists alone.
LEMMA FailedLists == ASSUME ret' # "success", AllLists' = AllLists PROVE L!Next
BY DEF L!Next, L!Hidden

\* So is one that only concerns memory, or that the client makes on its own.
LEMMA HiddenLists ==
  ASSUME NEW name \in {"reserve", "shrink_to_fit", "get", "client"}, NEW args,
         Is(name, args), AllLists' = AllLists
  PROVE  L!Next
<1>1. call'[1] = name
  BY DEF Is
<1>2. QED
  BY <1>1 DEF L!Next, L!Hidden

\* A new array is a new list.
LEMMA NewLists ==
  ASSUME AllSound, NEW a \in Arrays, NEW n \in SizeT, NEW kind \in BOOLEAN,
         New(a, n, kind), Is("new", <<a>>)
  PROVE  L!Next
<1>1. CASE Kept /\ ret' # "success"
  BY <1>1, KeptList, FailedLists DEF Kept
<1>2. CASE ret' = "success" /\ ~ Live(a) /\ Puts(a, <<>>, kind)
  <2>1. L!Make(a)
    BY <1>2, PutsList, ListOfLive DEF L!Make, L!Exists, Is, L!Is
  <2>2. QED
    BY <1>2, <2>1 DEF L!Next, L!Success
<1>3. QED
  BY <1>1, <1>2, NewEffect DEF Moves

\* Destroying an array is a step of Lists.
LEMMA DestroyLists ==
  ASSUME AllSound, NEW a \in Arrays, Destroy(a), Is("destroy", <<a>>) PROVE L!Next
<1>1. Live(a) /\ arr' = [arr EXCEPT ![a] = NoArray] /\ ret' = "success"
  BY DEF Destroy, Returns
<1>2. L!Destroy(a)
  BY <1>1, DestroyList, ListOfLive DEF L!Destroy, L!Exists, Is, L!Is
<1>3. QED
  BY <1>1, <1>2 DEF L!Next, L!Success

\* Adding an element is a step of Lists.
LEMMA AddLists ==
  ASSUME AllSound, NEW a \in Arrays, NEW v \in Values, Add(a, v), Is("add", <<a, v>>)
  PROVE  L!Next
<1>1. CASE Kept /\ ret' # "success"
  BY <1>1, KeptList, FailedLists DEF Kept
<1>2. CASE /\ ret' = "success" /\ Live(a)
           /\ Puts(a, Append(arr[a].elems, v), arr[a].counted)
  <2>1. L!Append1(a, v)
    BY <1>2, PutsList, ListOfLive DEF L!Append1, L!Exists, Is, L!Is
  <2>2. QED
    BY <1>2, <2>1 DEF L!Next, L!Success
<1>3. QED
  BY <1>1, <1>2, AddEffect

\* Setting an element is one, a position past the end included.
LEMMA SetLists ==
  ASSUME AllSound, NEW a \in Arrays, NEW pos \in Requests, NEW v \in Values,
         Set(a, pos, v), Is("set", <<a, pos, v>>)
  PROVE  L!Next
<1>1. /\ Live(a) /\ ret' = "success" /\ pos \in Nat
      /\ AllLists[a] = arr[a].elems /\ AllLists[a] # NoArray
      /\ AllLists[a] \in Seq(Values) /\ Size(arr[a]) = Len(AllLists[a])
  BY ListOfLive, LiveSound, ElementsAssumption, Sizes DEF Set, Returns
<1>2. CASE Kept /\ pos >= Size(arr[a])
  <2>1. AllLists' = AllLists /\ ~ (pos < Len(AllLists[a]))
    BY <1>1, <1>2, KeptList, LenProperties DEF Kept
  <2>2. L!Replace(a, pos, v)
    BY <1>1, <2>1 DEF L!Replace, L!Exists, Is, L!Is
  <2>3. QED
    BY <1>1, <2>2 DEF L!Next, L!Success
<1>3. CASE /\ pos + 1 \in 1 .. Len(arr[a].elems)
           /\ Puts(a, [arr[a].elems EXCEPT ![pos + 1] = v], arr[a].counted)
  <2>1. pos < Len(AllLists[a])
    BY <1>1, <1>3
  <2>2. AllLists' = [AllLists EXCEPT ![a][pos + 1] = v]
    BY <1>1, <1>3, PutsList
  <2>3. L!Replace(a, pos, v)
    BY <1>1, <2>1, <2>2 DEF L!Replace, L!Exists, Is, L!Is
  <2>4. QED
    BY <1>1, <2>3 DEF L!Next, L!Success
<1>4. QED
  BY <1>2, <1>3, SetEffect

\* Only array_shrink makes a list shorter; array_grow changes none.
LEMMA ResizeLists ==
  ASSUME AllSound, NEW a \in Arrays, NEW n \in SizeT, Resize(a, n),
         Is("resize", <<a, n>>)
  PROVE  L!Next
<1>1. CASE Kept /\ ret' # "success"
  BY <1>1, KeptList, FailedLists DEF Kept
<1>2. ASSUME ret' = "success", L!Resize(a, n) PROVE L!Next
  BY <1>2 DEF L!Next, L!Success, SizeT
<1>3. CASE /\ ret' = "success" /\ Live(a) /\ n > Len(arr[a].elems)
           /\ Puts(a, arr[a].elems, arr[a].counted)
  <2>1. AllLists[a] = arr[a].elems /\ AllLists[a] # NoArray
    BY <1>3, ListOfLive
  <2>2. AllLists' = AllLists
    BY <1>3, SameList
  <2>3. L!Resize(a, n)
    BY <1>3, <2>1, <2>2 DEF L!Resize, L!Exists, Is, L!Is
  <2>4. QED
    BY <1>2, <1>3, <2>3
<1>4. CASE /\ ret' = "success" /\ Live(a) /\ n \in 0 .. Len(arr[a].elems)
           /\ Puts(a, SubSeq(arr[a].elems, 1, n), arr[a].counted)
  <2>1. AllLists[a] = arr[a].elems /\ AllLists[a] # NoArray
    BY <1>4, ListOfLive
  <2>2. AllLists' = [AllLists EXCEPT ![a] = SubSeq(@, 1, n)]
    BY <1>4, <2>1, PutsList
  <2>3. n <= Len(AllLists[a])
    BY <1>4, <2>1
  <2>4. L!Resize(a, n)
    BY <2>1, <2>2, <2>3 DEF L!Resize, L!Exists, Is, L!Is
  <2>5. QED
    BY <1>2, <1>4, <2>4
<1>5. QED
  BY <1>1, <1>3, <1>4, ResizeEffect DEF Moves

\* Inserting elements is a step of Lists.
LEMMA InsertLists ==
  ASSUME AllSound, NEW a \in Arrays, NEW pos \in Requests, NEW s \in Inserts,
         Insert(a, pos, s), Is("insert", <<a, pos, s>>)
  PROVE  L!Next
<1>1. CASE Kept /\ ret' # "success"
  BY <1>1, KeptList, FailedLists DEF Kept
<1>2. CASE /\ ret' = "success" /\ Live(a) /\ pos \in 0 .. Len(arr[a].elems)
           /\ Puts(a, Inserted(arr[a], pos, s), arr[a].counted)
  <2> DEFINE l == AllLists[a]
             t == SubSeq(l, 1, pos) \o s \o SubSeq(l, pos + 1, Len(l))
  <2>1. l = arr[a].elems /\ l # NoArray /\ pos \in 0 .. Len(l)
    BY <1>2, ListOfLive
  <2>2. Sound(arr[a]) /\ pos \in 0 .. Size(arr[a])
    BY <1>2, LiveSound
  <2>3. Inserted(arr[a], pos, s) = t
    BY <2>1, <2>2, InsertedBetween
  <2>4. AllLists' = [AllLists EXCEPT ![a] = t]
    BY <1>2, <2>3, PutsList
  <2>5. L!InsertAfter(a, pos, s)
    BY <2>1, <2>4 DEF L!InsertAfter, L!Exists, Is, L!Is
  <2>6. s \in UNION {[1 .. n -> Values] : n \in 0 .. MaxInsert}
    BY DEF Inserts
  <2>7. L!Success
    BY <1>2, <2>5, <2>6 DEF L!Success
  <2>8. QED
    BY <2>7 DEF L!Next
<1>3. QED
  BY <1>1, <1>2, InsertEffect

\* Copying an array is a step of Lists.
LEMMA CopyLists ==
  ASSUME AllSound, NEW a \in Arrays, NEW b \in Arrays, Copy(a, b),
         Is("copy", <<a, b>>)
  PROVE  L!Next
<1>1. CASE Kept /\ ret' # "success"
  BY <1>1, KeptList, FailedLists DEF Kept
<1>2. CASE /\ ret' = "success" /\ Live(a)
           /\ Puts(b, arr[a].elems, arr[a].counted)
  <2>1. L!Duplicate(a, b)
    BY <1>2, PutsList, ListOfLive DEF L!Duplicate, L!Exists, Is, L!Is
  <2>2. QED
    BY <1>2, <2>1 DEF L!Next, L!Success
<1>3. QED
  BY <1>1, <1>2, CopyEffect

\* Shuffling a range is a step of Lists.
LEMMA ShuffleLists ==
  ASSUME AllSound, NEW a \in Arrays, NEW start \in Requests, NEW end \in Requests,
         ShuffleRange(a, start, end), Is("shuffle_range", <<a, start, end>>)
  PROVE  L!Next
<1> DEFINE s == arr[a].elems
           R == start + 1 .. end
<1>1. /\ Live(a) /\ start \in Nat /\ end \in Nat
      /\ AllLists[a] = s /\ AllLists[a] # NoArray
  BY ListOfLive, ElementsAssumption, Sizes DEF ShuffleRange
<1>2. ASSUME ret' = "success", L!Shuffle(a, start, end) PROVE L!Next
  BY <1>2 DEF L!Next, L!Success
<1>3. CASE Kept /\ ret' # "success"
  BY <1>3, KeptList, FailedLists DEF Kept
<1>4. CASE Kept /\ start >= end /\ ret' = "success"
  <2>1. AllLists' = AllLists /\ ~ (start < end)
    BY <1>1, <1>4, KeptList DEF Kept
  <2>2. L!Shuffle(a, start, end)
    BY <1>1, <2>1 DEF L!Shuffle, L!Exists, Is, L!Is
  <2>3. QED
    BY <1>2, <1>4, <2>2
<1>5. ASSUME ret' = "success", start < end, end <= Size(arr[a]), NEW t \in Seq(Values),
             Permuted(s, R, t), Puts(a, t, arr[a].counted)
      PROVE  L!Next
  <2>1. s \in Seq(Values) /\ Size(arr[a]) = Len(s) /\ Len(s) \in Nat
    BY <1>1, LiveSound
  <2>2. R \subseteq DOMAIN s
    BY <1>1, <1>5, <2>1, LenProperties
  <2>3. AllLists' = [AllLists EXCEPT ![a] = t]
    BY <1>5, PutsList
  <2> HIDE DEF R
  <2>4. PICK p \in [R -> R] :
          /\ \A i, j \in R : p[i] = p[j] => i = j
          /\ t = [i \in DOMAIN s |-> IF i \in R THEN s[p[i]] ELSE s[i]]
    BY <1>5 DEF Permuted
  <2>5. AllLists' = [AllLists EXCEPT ![a] =
                       [i \in DOMAIN @ |-> IF i \in R THEN @[p[i]] ELSE @[i]]]
    BY <1>1, <2>3, <2>4
  <2>6. L!Rearrange(a, R)
    BY <1>1, <2>2, <2>4, <2>5 DEF L!Rearrange
  <2>7. L!Shuffle(a, start, end)
    BY <1>1, <1>5, <2>6 DEF L!Shuffle, L!Exists, Is, L!Is, R
  <2>8. QED
    BY <1>2, <1>5, <2>7
<1>6. QED
  BY <1>3, <1>4, <1>5, ShuffleRangeEffect DEF Moves

\* Each operation on an array is one on its list, or leaves all lists alone.
LEMMA ArraysAreLists == ASSUME NoneShrunkEmpty, AllSound, Next PROVE L!Next
<1>1. ASSUME NEW a \in Arrays, NEW n \in Requests, NEW kind \in Kinds,
             New(a, n, kind), Is("new", <<a>>)
      PROVE  L!Next
  <2>1. n \in SizeT /\ kind \in BOOLEAN
    BY ElementsAssumption DEF SizeT
  <2>2. QED
    BY <1>1, <2>1, NewLists
<1>2. ASSUME NEW a \in Arrays, NEW n \in Requests,
             ReserveCall(a, n), Is("reserve", <<a, n>>)
      PROVE  L!Next
  <2>1. AllLists' = AllLists
    BY <1>2, KeptList, SameList, ReserveCallEffect DEF Kept, Moves
  <2>2. QED
    BY <1>2, <2>1, HiddenLists
<1>3. ASSUME NEW a \in Arrays, NEW n \in Requests, Resize(a, n), Is("resize", <<a, n>>)
      PROVE  L!Next
  <2>1. n \in SizeT
    BY ElementsAssumption DEF SizeT
  <2>2. QED
    BY <1>3, <2>1, ResizeLists
<1>4. ASSUME NEW a \in Arrays, Destroy(a), Is("destroy", <<a>>) PROVE L!Next
  BY <1>4, DestroyLists
<1>5. ASSUME NEW a \in Arrays, ShrinkToFit(a), Is("shrink_to_fit", <<a>>) PROVE L!Next
  <2>1. AllLists' = AllLists
    BY <1>5, KeptList, SameList, ShrinkToFitEffect DEF Kept, Moves
  <2>2. QED
    BY <1>5, <2>1, HiddenLists
<1>6. ASSUME NEW a \in Arrays, Refused(a) PROVE L!Next
  <2>1. ret' # "success" /\ AllLists' = AllLists
    BY <1>6, KeptList DEF Refused, Returns
  <2>2. QED
    BY <2>1, FailedLists
<1>7. ASSUME NEW a \in Arrays, NEW v \in Values, Add(a, v), Is("add", <<a, v>>)
      PROVE  L!Next
  BY <1>7, AddLists
<1>8. ASSUME NEW a \in Arrays, NEW pos \in Requests, NEW v \in Values,
             Set(a, pos, v), Is("set", <<a, pos, v>>)
      PROVE  L!Next
  BY <1>8, SetLists
<1>9. ASSUME NEW a \in Arrays, NEW pos \in Requests, Get(a, pos), Is("get", <<a, pos>>)
      PROVE  L!Next
  <2>1. AllLists' = AllLists
    BY <1>9, KeptList, GetEffect DEF Kept
  <2>2. QED
    BY <1>9, <2>1, HiddenLists
<1>10. ASSUME NEW a \in Arrays, NEW pos \in Requests, NEW s \in Inserts,
              Insert(a, pos, s), Is("insert", <<a, pos, s>>)
       PROVE  L!Next
  BY <1>10, InsertLists
<1>11. ASSUME NEW a \in Arrays, NEW b \in Arrays, Copy(a, b), Is("copy", <<a, b>>)
       PROVE  L!Next
  BY <1>11, CopyLists
<1>12. ASSUME NEW a \in Arrays, NEW start \in Requests, NEW end \in Requests,
              ShuffleRange(a, start, end), Is("shuffle_range", <<a, start, end>>)
       PROVE  L!Next
  BY <1>12, ShuffleLists
<1>13. ASSUME (\E v \in Values : Acquire(v) \/ Release(v)) \/ ClearError, OnItsOwn
       PROVE  L!Next
  <2>1. AllLists' = AllLists
    BY <1>13, KeptList DEF Acquire, Release, ClearError
  <2>2. QED
    BY <1>13, <2>1, HiddenLists DEF OnItsOwn
<1>14. QED
  BY <1>1, <1>2, <1>3, <1>4, <1>5, <1>6, <1>7, <1>8, <1>9, <1>10, <1>11, <1>12, <1>13
     DEF Next

\* The same for stacks.
LEMMA StacksAreLists == ASSUME NoneShrunkEmpty, AllSound, StackNext PROVE L!Next
<1>1. ASSUME NEW a \in Arrays, StackNew(a), Is("new", <<a>>) PROVE L!Next
  <2>1. New(a, 0, FALSE) /\ 0 \in SizeT
    BY <1>1, Sizes DEF StackNew
  <2>2. QED
    BY <1>1, <2>1, NewLists
<1>2. ASSUME NEW a \in Arrays, StackDestroy(a), Is("destroy", <<a>>) PROVE L!Next
  BY <1>2, DestroyLists DEF StackDestroy
<1>3. ASSUME NEW a \in Arrays, StackTop(a), Is("get", <<a, LastPos(a)>>) PROVE L!Next
  <2>1. AllLists' = AllLists
    BY <1>3, KeptList, GetEffect DEF StackTop, Kept
  <2>2. QED
    BY <1>3, <2>1, HiddenLists
<1>4. ASSUME NEW a \in Arrays, StackPop(a), Is("resize", <<a, LastPos(a)>>)
      PROVE  L!Next
  <2>1. CASE Resize(a, LastPos(a))
    <3>1. LastPos(a) \in SizeT
      BY <1>4, LastPosition DEF StackPop
    <3>2. QED
      BY <1>4, <2>1, <3>1, ResizeLists
  <2>2. CASE Returns("index") /\ UNCHANGED arr
    BY <2>2, KeptList, FailedLists DEF Returns
  <2>3. QED
    BY <1>4, <2>1, <2>2 DEF StackPop
<1>5. ASSUME NEW a \in Arrays, Refused(a) PROVE L!Next
  <2>1. ret' # "success" /\ AllLists' = AllLists
    BY <1>5, KeptList DEF Refused, Returns
  <2>2. QED
    BY <2>1, FailedLists
<1>6. ASSUME NEW a \in Arrays, NEW v \in Values, StackPush(a, v), Is("add", <<a, v>>)
      PROVE  L!Next
  BY <1>6, AddLists DEF StackPush
<1>7. ASSUME NEW a \in Arrays, NEW b \in Arrays, StackCopy(a, b), Is("copy", <<a, b>>)
      PROVE  L!Next
  BY <1>7, CopyLists DEF StackCopy
<1>8. ASSUME ClearError, OnItsOwn PROVE L!Next
  <2>1. AllLists' = AllLists
    BY <1>8, KeptList DEF ClearError
  <2>2. QED
    BY <1>8, <2>1, HiddenLists DEF OnItsOwn
<1>9. QED
  BY <1>1, <1>2, <1>3, <1>4, <1>5, <1>6, <1>7, <1>8 DEF StackNext

\* SeeDynamicArray and SeeStack implement the lists their clients think of: each
\* call that succeeds does to its list what its name and arguments say (a resize to
\* more elements and a set past the end excepted), and no reallocation, failed call
\* or wrapped size loses, doubles or reorders an element.
THEOREM ArraysImplementLists ==
  ASSUME NoneShrunkEmpty PROVE ContainersSpec => ImplementsLists
<1>1. ContainersInit => L!Init
  BY DEF ContainersInit, StackInit, Init, L!Init, AllLists, ListOf, Live
<1>2. AllSound /\ [ContainersNext]_containervars => [L!Next]_(L!vars)
  <2>1. SUFFICES ASSUME AllSound, [ContainersNext]_containervars
                 PROVE  [L!Next]_(L!vars)
    OBVIOUS
  <2>2. CASE UNCHANGED containervars
    <3>1. AllLists' = AllLists /\ ret' = ret /\ call' = call
      BY <2>2, KeptList DEF containervars, vars
    <3>2. QED
      BY <3>1 DEF L!vars
  <2>3. CASE ContainersNext
    BY <2>1, <2>3, ArraysAreLists, StacksAreLists DEF ContainersNext
  <2>4. QED
    BY <2>1, <2>2, <2>3
<1>3. QED
  BY <1>1, <1>2, AlwaysSound, PTL DEF ContainersSpec, ImplementsLists, L!Spec

-----------------------------------------------------------------------------
(* Counting elements *)

\* Two sets with a one-to-one map between them have as many elements.
LEMMA ByBijection ==
  ASSUME NEW S, NEW T, IsFiniteSet(S), NEW f \in [S -> T],
         \A i, j \in S : f[i] = f[j] => i = j,
         \A t \in T : \E i \in S : f[i] = t
  PROVE  IsFiniteSet(T) /\ Cardinality(T) = Cardinality(S)
<1>1. f \in Bijection(S, T)
  BY DEF Bijection, Injection, Surjection, IsInjective
<1>2. ExistsBijection(S, T)
  BY <1>1 DEF ExistsBijection
<1>3. QED
  BY <1>2, FS_Bijection

\* A union of two sets that have nothing in common.
LEMMA DisjointUnion ==
  ASSUME NEW S, NEW T, IsFiniteSet(S), IsFiniteSet(T), S \cap T = {}
  PROVE  /\ IsFiniteSet(S \cup T)
         /\ Cardinality(S \cup T) = Cardinality(S) + Cardinality(T)
         /\ Cardinality(S) \in Nat /\ Cardinality(T) \in Nat
<1>1. Cardinality(S) \in Nat /\ Cardinality(T) \in Nat /\ Cardinality({}) = 0
  BY FS_CardinalityType, FS_EmptySet
<1>2. /\ IsFiniteSet(S \cup T)
      /\ Cardinality(S \cup T) =
           Cardinality(S) + Cardinality(T) - Cardinality(S \cap T)
  BY FS_Union, Zenon
<1>3. Cardinality(S \cap T) = 0
  BY <1>1, Zenon
<1>4. QED
  BY <1>1, <1>2, <1>3

\* Where v occurs in s.
Places(s, v) == {i \in DOMAIN s : s[i] = v}

\* The places of a value in a sequence can be counted.
LEMMA PlacesFinite ==
  ASSUME NEW s \in Seq(Values), NEW v
  PROVE  /\ IsFiniteSet(Places(s, v)) /\ Occurs(s, v) = Cardinality(Places(s, v))
         /\ Occurs(s, v) \in Nat
<1>1. DOMAIN s = 1 .. Len(s) /\ Len(s) \in Nat
  BY LenProperties
<1>2. IsFiniteSet(DOMAIN s)
  BY <1>1, FS_Interval
<1>3. IsFiniteSet(Places(s, v))
  BY <1>2, FS_Subset DEF Places
<1>4. QED
  BY <1>3, FS_CardinalityType DEF Occurs, Places

\* Nothing occurs in the empty sequence.
LEMMA OccursInNone == ASSUME NEW v PROVE Occurs(<<>>, v) = 0
<1>1. {i \in DOMAIN <<>> : <<>>[i] = v} = {}
  OBVIOUS
<1>2. QED
  BY <1>1, FS_EmptySet DEF Occurs

\* One element occurs once.
LEMMA OccursInOne ==
  ASSUME NEW u \in Values, NEW v
  PROVE  Occurs(<<u>>, v) = IF u = v THEN 1 ELSE 0
<1>1. {i \in DOMAIN <<u>> : <<u>>[i] = v} = IF u = v THEN {1} ELSE {}
  OBVIOUS
<1>2. QED
  BY <1>1, FS_EmptySet, FS_Singleton DEF Occurs

\* t is e with the k elements of s after the first pos ones.
Between(t, e, s, pos, n, k) ==
  \A i \in 1 .. n + k :
    t[i] = IF i \in pos + 1 .. pos + k THEN s[i - pos]
           ELSE IF i > pos + k THEN e[i - k] ELSE e[i]

\* Elements added between the others.
LEMMA OccursInserted ==
  ASSUME NEW n \in Nat, NEW k \in Nat, NEW pos \in 0 .. n, NEW v,
         NEW e \in Seq(Values), Len(e) = n, NEW s \in Seq(Values), Len(s) = k,
         NEW t \in Seq(Values), Len(t) = n + k,
         Between(t, e, s, pos, n, k)
  PROVE  Occurs(t, v) = Occurs(e, v) + Occurs(s, v)
<1> DEFINE A == Places(e, v)
           B == Places(s, v)
           C == {i \in Places(t, v) : i \in pos + 1 .. pos + k}
           D == {i \in Places(t, v) : i \notin pos + 1 .. pos + k}
           f == [i \in B |-> i + pos]
           g == [i \in A |-> IF i <= pos THEN i ELSE i + k]
<1>1. /\ DOMAIN e = 1 .. n /\ DOMAIN s = 1 .. k /\ DOMAIN t = 1 .. n + k
  BY LenProperties
<1> USE DEF Between
<1>2. IsFiniteSet(A) /\ IsFiniteSet(B)
  BY PlacesFinite
<1>3. IsFiniteSet(C) /\ Cardinality(C) = Cardinality(B)
  <2>1. f \in [B -> C]
    <3>1. SUFFICES ASSUME NEW i \in B PROVE i + pos \in C
      OBVIOUS
    <3>2. i \in 1 .. k /\ s[i] = v
      BY <1>1 DEF Places
    <3>3. /\ i + pos \in pos + 1 .. pos + k /\ i + pos \in 1 .. n + k
          /\ (i + pos) - pos = i
      BY <3>2
    <3>4. t[i + pos] = v
      BY <3>2, <3>3
    <3>5. QED
      BY <1>1, <3>3, <3>4 DEF Places
  <2>2. \A i, j \in B : f[i] = f[j] => i = j
    BY <1>1 DEF Places
  <2>3. ASSUME NEW j \in C PROVE \E i \in B : f[i] = j
    <3>1. j \in 1 .. n + k /\ j \in pos + 1 .. pos + k /\ t[j] = v
      BY <1>1 DEF Places
    <3>2. j - pos \in 1 .. k /\ (j - pos) + pos = j
      BY <3>1
    <3>3. s[j - pos] = v
      BY <3>1
    <3>4. j - pos \in B
      BY <1>1, <3>2, <3>3 DEF Places
    <3>5. QED
      BY <3>2, <3>4
  <2> HIDE DEF f, B, C
  <2>4. QED
    BY <1>2, <2>1, <2>2, <2>3, ByBijection
<1>4. IsFiniteSet(D) /\ Cardinality(D) = Cardinality(A)
  <2>1. g \in [A -> D]
    <3>1. SUFFICES ASSUME NEW i \in A PROVE g[i] \in D
      OBVIOUS
    <3>2. i \in 1 .. n /\ e[i] = v
      BY <1>1 DEF Places
    <3>3. CASE i <= pos
      <4>1. /\ g[i] = i /\ i \in 1 .. n + k /\ i \notin pos + 1 .. pos + k
            /\ ~ (i > pos + k)
        BY <3>2, <3>3
      <4>2. t[i] = v
        BY <3>2, <4>1
      <4>3. QED
        BY <1>1, <4>1, <4>2 DEF Places
    <3>4. CASE ~ (i <= pos)
      <4>1. /\ g[i] = i + k /\ i + k \in 1 .. n + k
            /\ i + k \notin pos + 1 .. pos + k
            /\ i + k > pos + k /\ (i + k) - k = i
        BY <3>2, <3>4
      <4>2. t[i + k] = v
        BY <3>2, <4>1
      <4>3. QED
        BY <1>1, <4>1, <4>2 DEF Places
    <3>5. QED
      BY <3>3, <3>4
  <2>2. \A i, j \in A : g[i] = g[j] => i = j
    BY <1>1 DEF Places
  <2>3. ASSUME NEW j \in D PROVE \E i \in A : g[i] = j
    <3>1. j \in 1 .. n + k /\ j \notin pos + 1 .. pos + k /\ t[j] = v
      BY <1>1 DEF Places
    <3>2. CASE j <= pos
      <4>1. j \in 1 .. n /\ e[j] = v
        BY <3>1, <3>2
      <4>2. j \in A /\ g[j] = j
        BY <1>1, <3>2, <4>1 DEF Places
      <4>3. QED
        BY <4>2
    <3>3. CASE ~ (j <= pos)
      <4>1. j > pos + k /\ j - k \in 1 .. n /\ ~ (j - k <= pos) /\ (j - k) + k = j
        BY <3>1, <3>3
      <4>2. e[j - k] = v
        BY <3>1, <4>1
      <4>3. j - k \in A /\ g[j - k] = j
        BY <1>1, <4>1, <4>2 DEF Places
      <4>4. QED
        BY <4>3
    <3>4. QED
      BY <3>2, <3>3
  <2> HIDE DEF g, A, D
  <2>4. QED
    BY <1>2, <2>1, <2>2, <2>3, ByBijection
<1>5. C \cap D = {} /\ C \cup D = Places(t, v)
  OBVIOUS
<1> HIDE DEF A, B, C, D
<1>6. Cardinality(C \cup D) = Cardinality(A) + Cardinality(B)
  <2>1. /\ Cardinality(C \cup D) = Cardinality(C) + Cardinality(D)
        /\ Cardinality(C) \in Nat /\ Cardinality(D) \in Nat
    BY <1>3, <1>4, <1>5, DisjointUnion
  <2>2. QED
    BY <1>3, <1>4, <2>1
<1>7. QED
  BY <1>5, <1>6, PlacesFinite DEF A, B

\* A new last element.
LEMMA OccursAppended ==
  ASSUME NEW e \in Seq(Values), NEW u \in Values, NEW v
  PROVE  Occurs(Append(e, u), v) = Occurs(e, v) + Occurs(<<u>>, v)
<1> DEFINE n == Len(e)
           t == Append(e, u)
<1>1. /\ n \in Nat /\ t \in Seq(Values) /\ Len(t) = n + 1
      /\ \A i \in 1 .. n : t[i] = e[i]
      /\ t[n + 1] = u
  BY LenProperties, AppendProperties
<1>2. <<u>> \in Seq(Values) /\ Len(<<u>>) = 1 /\ <<u>>[1] = u
  OBVIOUS
<1> DEFINE s == <<u>>
<1> HIDE DEF s, t
<1>3. Between(t, e, s, n, n, 1)
  BY <1>1, <1>2 DEF s, Between
<1> DEFINE k == 1
<1>4. /\ n \in Nat /\ k \in Nat /\ n \in 0 .. n /\ Len(e) = n
      /\ s \in Seq(Values) /\ Len(s) = k /\ t \in Seq(Values) /\ Len(t) = n + k
      /\ Between(t, e, s, n, n, k)
  BY <1>1, <1>2, <1>3 DEF s
<1> HIDE DEF n, k
<1>5. Occurs(t, v) = Occurs(e, v) + Occurs(s, v)
  BY <1>4, OccursInserted
<1>6. QED
  BY <1>5 DEF s, t

\* One element in the place of another.
LEMMA OccursReplaced ==
  ASSUME NEW e \in Seq(Values), NEW p \in 1 .. Len(e), NEW u \in Values, NEW v
  PROVE  /\ Occurs([e EXCEPT ![p] = u], v)
              = Occurs(e, v) - Occurs(<<e[p]>>, v) + Occurs(<<u>>, v)
<1> DEFINE t == [e EXCEPT ![p] = u]
           Q == Places(e, v) \ {p}
<1>1. /\ p \in DOMAIN e /\ e[p] \in Values /\ DOMAIN t = DOMAIN e
      /\ \A i \in DOMAIN e : t[i] = IF i = p THEN u ELSE e[i]
  BY LenProperties, ElementOfSeq
<1>2. /\ IsFiniteSet(Places(e, v)) /\ Occurs(e, v) = Cardinality(Places(e, v))
      /\ Occurs(e, v) \in Nat
  BY PlacesFinite
<1>3. p \in Places(e, v) <=> e[p] = v
  BY <1>1 DEF Places
<1>4. /\ IsFiniteSet(Q) /\ Cardinality(Q) \in Nat
      /\ Cardinality(Q) = IF e[p] = v THEN Occurs(e, v) - 1 ELSE Occurs(e, v)
  <2>1. /\ IsFiniteSet(Q)
        /\ Cardinality(Q) = IF p \in Places(e, v) THEN Cardinality(Places(e, v)) - 1
                            ELSE Cardinality(Places(e, v))
    BY <1>2, FS_RemoveElement
  <2>2. Cardinality(Q) \in Nat
    BY <2>1, FS_CardinalityType
  <2>3. QED
    BY <1>2, <1>3, <2>1, <2>2
<1>5. Places(t, v) = IF u = v THEN Q \cup {p} ELSE Q
  BY <1>1 DEF Places
<1>6. Occurs(t, v) = Cardinality(Places(t, v))
  BY DEF Occurs, Places
<1>7. p \notin Q
  OBVIOUS
<1> HIDE DEF Q, t
<1>8. Cardinality(Q \cup {p}) = Cardinality(Q) + 1
  BY <1>4, <1>7, FS_AddElement
<1>9. Occurs(t, v) = IF u = v THEN Cardinality(Q) + 1 ELSE Cardinality(Q)
  BY <1>5, <1>6, <1>8
<1>10. /\ Occurs(<<e[p]>>, v) = IF e[p] = v THEN 1 ELSE 0
       /\ Occurs(<<u>>, v) = IF u = v THEN 1 ELSE 0
  BY <1>1, OccursInOne
<1>11. QED
  BY <1>2, <1>4, <1>9, <1>10 DEF t

-----------------------------------------------------------------------------
(* Every reference is counted *)

\* The cells of an array r that variable a designates, and their number.
CellsIn(a, r, v) ==
  {c \in {a} \X SizeT : /\ r # NoArray /\ r.counted
                        /\ c[2] \in DOMAIN r.elems /\ r.elems[c[2]] = v}
CountIn(r, v) == IF r # NoArray /\ r.counted THEN Occurs(r.elems, v) ELSE 0

\* What the counts must be, as an inductive invariant.
Counted ==
  /\ refs \in [Values -> Int] /\ held \in [Values -> Int]
  /\ ElementsCounted

\* The elements of a sound array are in its block, so size_t can number them.
LEMMA CellsInCounted ==
  ASSUME NEW a, NEW r, Sound(r) \/ r = NoArray, NEW v
  PROVE  /\ IsFiniteSet(CellsIn(a, r, v))
         /\ Cardinality(CellsIn(a, r, v)) = CountIn(r, v)
         /\ CountIn(r, v) \in Nat
<1>1. CASE ~ (r # NoArray /\ r.counted)
  <2>1. CellsIn(a, r, v) = {} /\ CountIn(r, v) = 0
    BY <1>1 DEF CellsIn, CountIn
  <2>2. QED
    BY <2>1, FS_EmptySet
<1>2. CASE r # NoArray /\ r.counted
  <2> DEFINE e == r.elems
             S == Places(e, v)
             T == CellsIn(a, r, v)
             f == [i \in S |-> <<a, i>>]
  <2>1. /\ e \in Seq(Values) /\ DOMAIN e = 1 .. Size(r) /\ Size(r) \in Nat
        /\ Size(r) < SizeMod
    <3>1. /\ Size(r) \in Nat /\ r.capacity \in Nat /\ Size(r) <= r.capacity
          /\ r.capacity < SizeMod /\ e \in Seq(Values)
      BY <1>2, CapacityBound, Fields DEF Sound
    <3>2. DOMAIN e = 1 .. Size(r)
      BY <3>1, LenProperties DEF Size
    <3>3. QED
      BY <3>1, <3>2, Sizes
  <2>2. DOMAIN e \subseteq SizeT
    BY <2>1, Sizes DEF SizeT
  <2>3. T = {<<a, i>> : i \in S}
    BY <1>2, <2>2 DEF CellsIn, Places
  <2>4. /\ IsFiniteSet(S) /\ CountIn(r, v) = Cardinality(S) /\ CountIn(r, v) \in Nat
    BY <1>2, <2>1, PlacesFinite DEF CountIn
  <2> HIDE DEF S, T
  <2>5. IsFiniteSet(T) /\ Cardinality(T) = Cardinality(S)
    <3>1. /\ f \in [S -> T] /\ \A i, j \in S : f[i] = f[j] => i = j
          /\ \A t \in T : \E i \in S : f[i] = t
      BY <2>3
    <3> HIDE DEF f
    <3>2. QED
      BY <2>4, <3>1, ByBijection
  <2>6. QED
    BY <2>4, <2>5 DEF T
<1>3. QED
  BY <1>1, <1>2

\* The cells that hold a value can be counted.
LEMMA CellsFinite ==
  ASSUME NEW v
  PROVE  /\ IsFiniteSet(Arrays \X SizeT) /\ IsFiniteSet(Cells(v))
         /\ Cardinality(Cells(v)) \in Int
<1>1. IsFiniteSet(SizeT)
  BY SizesAssumption, FS_Interval DEF SizeT
<1>2. IsFiniteSet(Arrays \X SizeT)
  BY <1>1, ElementsAssumption, FS_Product
<1>3. Cells(v) \subseteq Arrays \X SizeT
  BY DEF Cells
<1>4. IsFiniteSet(Cells(v))
  BY <1>2, <1>3, FS_Subset
<1>5. QED
  BY <1>2, <1>4, FS_CardinalityType

\* A step that changes one array changes the number of cells by what was there and
\* what is there now.
LEMMA CellsChange ==
  ASSUME AllSound, NEW a \in Arrays, NEW r, Sound(r) \/ r = NoArray,
         arr' = [arr EXCEPT ![a] = r], NEW v
  PROVE  /\ Cardinality(Cells(v)) \in Int
         /\ Cardinality(Cells(v)') =
              Cardinality(Cells(v)) - CountIn(arr[a], v) + CountIn(r, v)
<1> DEFINE Rest == {c \in Cells(v) : c[1] # a}
           Old == CellsIn(a, arr[a], v)
           New2 == CellsIn(a, r, v)
<1>1. Rest \subseteq Cells(v)
  OBVIOUS
<1>2. IsFiniteSet(Rest)
  BY <1>1, CellsFinite, FS_Subset
<1>3. Cells(v) = Rest \cup Old /\ Rest \cap Old = {}
  BY DEF Cells, CellsIn, Live
<1>4. Cells(v)' = Rest \cup New2 /\ Rest \cap New2 = {}
  <2>1. arr'[a] = r /\ \A b \in Arrays : b # a => arr'[b] = arr[b]
    BY DEF AllSound
  <2>2. QED
    BY <2>1 DEF Cells, CellsIn, Live
<1>5. /\ IsFiniteSet(Old) /\ Cardinality(Old) = CountIn(arr[a], v)
  BY CellsInCounted DEF AllSound, Live
<1>6. /\ IsFiniteSet(New2) /\ Cardinality(New2) = CountIn(r, v)
  BY CellsInCounted
<1> HIDE DEF Rest, Old, New2
<1>7. /\ Cardinality(Cells(v)) = Cardinality(Rest) + Cardinality(Old)
      /\ Cardinality(Rest) \in Nat /\ Cardinality(Old) \in Nat
  BY <1>2, <1>3, <1>5, DisjointUnion
<1>8. /\ Cardinality(Cells(v)') = Cardinality(Rest) + Cardinality(New2)
      /\ Cardinality(New2) \in Nat
  BY <1>2, <1>4, <1>6, DisjointUnion
<1>9. QED
  BY <1>5, <1>6, <1>7, <1>8

\* What is copied and freed, element by element.
LEMMA CopiedAndFreed ==
  ASSUME NEW r, NEW count \in [Values -> Int], NEW s \in Seq(Values)
  PROVE  /\ CopyElements(r, count, s) \in [Values -> Int]
         /\ FreeElements(r, count, s) \in [Values -> Int]
         /\ \A v \in Values :
              /\ CopyElements(r, count, s)[v]
                   = IF r.counted THEN count[v] + Occurs(s, v) ELSE count[v]
              /\ FreeElements(r, count, s)[v]
                   = IF r.counted THEN count[v] - Occurs(s, v) ELSE count[v]
<1>1. \A v \in Values : count[v] + Occurs(s, v) \in Int /\ count[v] - Occurs(s, v) \in Int
  <2>1. \A v \in Values : Occurs(s, v) \in Nat
    BY PlacesFinite
  <2>2. QED
    BY <2>1
<1>2. QED
  BY <1>1 DEF CopyElements, FreeElements

\* One array with new contents, and the counts to match.
LEMMA OneCounted ==
  ASSUME AllSound, Counted, NEW a \in Arrays, NEW r, Sound(r) \/ r = NoArray,
         arr' = [arr EXCEPT ![a] = r], refs' \in [Values -> Int], UNCHANGED held,
         \A v \in Values : refs'[v] = refs[v] - CountIn(arr[a], v) + CountIn(r, v)
  PROVE  Counted'
<1>1. \A v \in Values : refs[v] = held[v] + Cardinality(Cells(v))
  BY DEF Counted, ElementsCounted
<1>2. ASSUME NEW v \in Values PROVE refs'[v] = held[v] + Cardinality(Cells(v)')
  <2>1. /\ Cardinality(Cells(v)) \in Int
        /\ Cardinality(Cells(v)') =
             Cardinality(Cells(v)) - CountIn(arr[a], v) + CountIn(r, v)
    BY CellsChange, ZenonT(30)
  <2>2. CountIn(r, v) \in Nat /\ CountIn(arr[a], v) \in Nat
    BY CellsInCounted DEF AllSound, Live
  <2>3. held[v] \in Int
    BY DEF Counted
  <2>4. refs'[v] = refs[v] - CountIn(arr[a], v) + CountIn(r, v)
    OBVIOUS
  <2>5. QED
    BY <1>1, <2>1, <2>2, <2>3, <2>4
<1>3. QED
  BY <1>2 DEF Counted, ElementsCounted

\* One array changes, and the counts with it.
LEMMA PutsCounted ==
  ASSUME AllSound, Counted, NEW a \in Arrays, NEW s, NEW kind, Puts(a, s, kind),
         refs' \in [Values -> Int], UNCHANGED held,
         \A v \in Values : refs'[v] =
            refs[v] - CountIn(arr[a], v) + (IF kind THEN Occurs(s, v) ELSE 0)
  PROVE  Counted'
<1>1. PICK r : /\ Sound(r) /\ r.elems = s /\ r.counted = kind
               /\ arr' = [arr EXCEPT ![a] = r]
  BY DEF Puts
<1>2. r # NoArray
  BY <1>1, NoArrayAssumption DEF Sound
<1>3. \A v \in Values : CountIn(r, v) = IF kind THEN Occurs(s, v) ELSE 0
  BY <1>1, <1>2 DEF CountIn
<1>4. QED
  BY <1>1, <1>3, OneCounted

\* The memory alone changes.
LEMMA KeptCounted == ASSUME Counted, UNCHANGED <<arr, refs, held>> PROVE Counted'
BY DEF Counted, ElementsCounted, Cells, Live

\* An array that only moves keeps its references.
LEMMA SameCounted ==
  ASSUME AllSound, Counted, NEW a \in Arrays, Live(a),
         Moves(a, arr[a].elems, arr[a].counted)
  PROVE  Counted'
<1>1. arr[a].elems \in Seq(Values)
  BY LiveSound
<1>2. \A v \in Values : /\ CountIn(arr[a], v) \in Nat
                        /\ CountIn(arr[a], v) =
                             IF arr[a].counted THEN Occurs(arr[a].elems, v) ELSE 0
  <2>1. \A v \in Values : Occurs(arr[a].elems, v) \in Nat
    BY <1>1, PlacesFinite
  <2>2. QED
    BY <2>1 DEF CountIn, Live
<1>3. \A v \in Values : refs'[v] = refs[v] - CountIn(arr[a], v)
           + (IF arr[a].counted THEN Occurs(arr[a].elems, v) ELSE 0)
  BY <1>2 DEF Moves, Counted
<1>4. QED
  BY <1>3, PutsCounted DEF Moves, Counted

\* A new array has no references.
LEMMA NewCounted ==
  ASSUME AllSound, Counted, NEW a \in Arrays, NEW n \in SizeT, NEW kind \in BOOLEAN,
         New(a, n, kind)
  PROVE  Counted'
<1>1. CASE Kept
  BY <1>1, KeptCounted DEF Kept
<1>2. CASE ~ Live(a) /\ Moves(a, <<>>, kind)
  <2>1. \A v \in Values : CountIn(arr[a], v) = 0 /\ Occurs(<<>>, v) = 0
    BY <1>2, OccursInNone DEF CountIn, Live
  <2>2. \A v \in Values : refs'[v] =
            refs[v] - CountIn(arr[a], v) + (IF kind THEN Occurs(<<>>, v) ELSE 0)
    BY <1>2, <2>1 DEF Moves, Counted
  <2>3. QED
    BY <1>2, <2>2, PutsCounted DEF Moves, Counted
<1>3. QED
  BY <1>1, <1>2, NewEffect

\* The destruction drops a reference for each element.
LEMMA DestroyCounted ==
  ASSUME AllSound, Counted, NEW a \in Arrays, Destroy(a) PROVE Counted'
<1>1. /\ Live(a) /\ arr' = [arr EXCEPT ![a] = NoArray] /\ UNCHANGED held
      /\ refs' = FreeElements(arr[a], refs, arr[a].elems)
      /\ arr[a].elems \in Seq(Values) /\ refs \in [Values -> Int]
  BY LiveSound DEF Destroy, Counted
<1>2. /\ refs' \in [Values -> Int]
      /\ \A v \in Values : refs'[v] =
           IF arr[a].counted THEN refs[v] - Occurs(arr[a].elems, v) ELSE refs[v]
  BY <1>1, CopiedAndFreed
<1>3. \A v \in Values : Occurs(arr[a].elems, v) \in Nat
  BY <1>1, PlacesFinite
<1>4. \A v \in Values :
        refs'[v] = refs[v] - CountIn(arr[a], v) + CountIn(NoArray, v)
  BY <1>1, <1>2, <1>3 DEF CountIn, Live
<1>5. QED
  BY <1>1, <1>2, <1>4, OneCounted

\* New elements, copied, besides those that were there.
LEMMA MoreCounted ==
  ASSUME AllSound, Counted, NEW a \in Arrays, Live(a), NEW t, NEW s \in Seq(Values),
         Puts(a, t, arr[a].counted), UNCHANGED held,
         refs' = CopyElements(arr[a], refs, s),
         \A v \in Values : Occurs(t, v) = Occurs(arr[a].elems, v) + Occurs(s, v)
  PROVE  Counted'
<1>1. arr[a].elems \in Seq(Values) /\ refs \in [Values -> Int]
  BY LiveSound DEF Counted
<1>2. /\ refs' \in [Values -> Int]
      /\ \A v \in Values : refs'[v] =
           IF arr[a].counted THEN refs[v] + Occurs(s, v) ELSE refs[v]
  BY <1>1, CopiedAndFreed
<1>3. \A v \in Values : Occurs(arr[a].elems, v) \in Nat /\ Occurs(s, v) \in Nat
  BY <1>1, PlacesFinite
<1>4. \A v \in Values : refs'[v] =
         refs[v] - CountIn(arr[a], v) + (IF arr[a].counted THEN Occurs(t, v) ELSE 0)
  BY <1>1, <1>2, <1>3 DEF CountIn, Live
<1>5. QED
  BY <1>2, <1>4, PutsCounted

\* The client's references change and those of the elements with them.
LEMMA ClientCounted ==
  ASSUME Counted, UNCHANGED arr, refs' \in [Values -> Int], held' \in [Values -> Int],
         NEW more \in [Values -> Int],
         \A v \in Values : refs'[v] = refs[v] + more[v] /\ held'[v] = held[v] + more[v]
  PROVE  Counted'
<1>1. ASSUME NEW v \in Values PROVE refs'[v] = held'[v] + Cardinality(Cells(v)')
  <2>1. Cells(v)' = Cells(v)
    BY DEF Cells, Live
  <2>2. refs[v] = held[v] + Cardinality(Cells(v))
    BY DEF Counted, ElementsCounted
  <2>3. refs[v] \in Int /\ held[v] \in Int /\ more[v] \in Int
    BY DEF Counted
  <2> DEFINE c == Cardinality(Cells(v))
  <2>4. c \in Int
    BY CellsFinite
  <2> HIDE DEF c
  <2>5. QED
    BY <2>1, <2>2, <2>3, <2>4 DEF c
<1>2. QED
  BY <1>1 DEF Counted, ElementsCounted

\* Arrays of plain values have no references.
LEMMA DataCounted ==
  ASSUME AllSound, Counted, NEW a \in Arrays, NEW t, ~ arr[a].counted,
         Moves(a, t, arr[a].counted)
  PROVE  Counted'
<1>1. \A v \in Values : CountIn(arr[a], v) = 0
  BY DEF CountIn
<1>2. \A v \in Values : refs'[v] =
         refs[v] - CountIn(arr[a], v) + (IF arr[a].counted THEN Occurs(t, v) ELSE 0)
  BY <1>1 DEF Moves, Counted
<1>3. QED
  BY <1>2, PutsCounted DEF Moves, Counted

\* The whole of a sequence.
LEMMA WholeSeq ==
  ASSUME NEW s \in Seq(Values) PROVE SubSeq(s, 1, Len(s)) = s
<1> DEFINE n == Len(s)
           t == SubSeq(s, 1, n)
<1>1. n \in Nat /\ \A i \in 1 .. n : s[i] \in Values
  BY LenProperties, ElementOfSeq
<1>2. /\ t \in Seq(Values) /\ Len(t) = IF 1 <= n THEN n - 1 + 1 ELSE 0
      /\ \A i \in 1 .. n - 1 + 1 : t[i] = s[1 + i - 1]
  BY <1>1, SubSeqProperties
<1> HIDE DEF n, t
<1>3. Len(t) = n /\ \A i \in 1 .. n : t[i] = s[i]
  BY <1>1, <1>2
<1>4. QED
  BY <1>2, <1>3, SeqEqual DEF n, t

\* see_dynamic_array_add takes a reference for the new element.
LEMMA AddCounted ==
  ASSUME AllSound, Counted, NEW a \in Arrays, NEW v \in Values, Add(a, v)
  PROVE  Counted'
<1>1. CASE Kept
  BY <1>1, KeptCounted DEF Kept
<1>2. CASE /\ Live(a) /\ Puts(a, Append(arr[a].elems, v), arr[a].counted)
           /\ refs' = CopyElements(arr[a], refs, <<v>>) /\ UNCHANGED held
  <2>1. arr[a].elems \in Seq(Values) /\ <<v>> \in Seq(Values)
    BY <1>2, LiveSound
  <2>2. \A w \in Values : Occurs(Append(arr[a].elems, v), w)
                            = Occurs(arr[a].elems, w) + Occurs(<<v>>, w)
    BY <2>1, OccursAppended
  <2>3. QED
    BY <1>2, <2>1, <2>2, MoreCounted
<1>3. QED
  BY <1>1, <1>2, AddEffect

\* What is inserted occurs in addition to what was there.
LEMMA InsertedCounts ==
  ASSUME NEW r, Sound(r), NEW s \in Inserts, NEW pos \in 0 .. Size(r), NEW v
  PROVE  Occurs(Inserted(r, pos, s), v) = Occurs(r.elems, v) + Occurs(s, v)
<1> DEFINE e == r.elems
           n == Size(r)
           k == Len(s)
           t == Inserted(r, pos, s)
<1>1. /\ e \in Seq(Values) /\ Len(e) = n /\ n \in Nat
      /\ s \in Seq(Values) /\ k \in 0 .. MaxInsert /\ k \in Nat /\ Len(s) = k
  BY Fields, InsertsType, Sizes DEF Sound, Size
<1>2. /\ t = [i \in 1 .. n + k |->
                IF i \in pos + 1 .. pos + k THEN s[i - pos]
                ELSE IF i > pos + k THEN e[i - k] ELSE e[i]]
      /\ t \in Seq(Values) /\ Len(t) = n + k
  BY <1>1, InsertedIs
<1>3. pos \in 0 .. n
  OBVIOUS
<1> HIDE DEF e, n, k, t
<1>4. Between(t, e, s, pos, n, k)
  BY <1>2 DEF Between
<1>5. Occurs(t, v) = Occurs(e, v) + Occurs(s, v)
  BY <1>1, <1>2, <1>3, <1>4, OccursInserted
<1>6. QED
  BY <1>5 DEF e, t

\* see_dynamic_array_insert takes a reference for each new element.
LEMMA InsertCounted ==
  ASSUME AllSound, Counted, NEW a \in Arrays, NEW pos \in Requests,
         NEW s \in Inserts, Insert(a, pos, s)
  PROVE  Counted'
<1>1. CASE Kept
  BY <1>1, KeptCounted DEF Kept
<1>2. CASE /\ Live(a) /\ pos \in 0 .. Len(arr[a].elems)
           /\ Puts(a, Inserted(arr[a], pos, s), arr[a].counted)
           /\ refs' = CopyElements(arr[a], refs, s) /\ UNCHANGED held
  <2>1. Sound(arr[a]) /\ pos \in 0 .. Size(arr[a]) /\ s \in Seq(Values)
    BY <1>2, LiveSound, InsertsType
  <2>2. \A v \in Values : Occurs(Inserted(arr[a], pos, s), v)
                            = Occurs(arr[a].elems, v) + Occurs(s, v)
    BY <2>1, InsertedCounts
  <2>3. QED
    BY <1>2, <2>1, <2>2, MoreCounted
<1>3. QED
  BY <1>1, <1>2, InsertEffect

\* The elements of t are those of e without old and with s.
Exchanged(t, e, old, s) ==
  \A v \in Values : Occurs(t, v) = Occurs(e, v) - Occurs(old, v) + Occurs(s, v)

\* Some elements are exchanged for others, and their references too.
LEMMA ReplacedCounted ==
  ASSUME AllSound, Counted, NEW a \in Arrays, Live(a), NEW t,
         NEW old \in Seq(Values), NEW s \in Seq(Values),
         Puts(a, t, arr[a].counted), UNCHANGED held,
         refs' = CopyElements(arr[a], FreeElements(arr[a], refs, old), s),
         Exchanged(t, arr[a].elems, old, s)
  PROVE  Counted'
<1> DEFINE r == arr[a]
           freed == FreeElements(r, refs, old)
<1>1. r.elems \in Seq(Values) /\ refs \in [Values -> Int]
  BY LiveSound DEF Counted
<1>2. freed \in [Values -> Int]
  BY <1>1, CopiedAndFreed
<1>3. \A v \in Values :
        freed[v] = IF r.counted THEN refs[v] - Occurs(old, v) ELSE refs[v]
  BY <1>1, CopiedAndFreed, ZenonT(30)
<1>4. refs' = CopyElements(r, freed, s)
  OBVIOUS
<1> HIDE DEF freed
<1>5. /\ CopyElements(r, freed, s) \in [Values -> Int]
      /\ \A v \in Values : CopyElements(r, freed, s)[v] =
           IF r.counted THEN freed[v] + Occurs(s, v) ELSE freed[v]
  BY <1>2, CopiedAndFreed
<1>6. \A v \in Values : /\ Occurs(r.elems, v) \in Nat /\ Occurs(s, v) \in Nat
                        /\ Occurs(old, v) \in Nat
  BY <1>1, PlacesFinite
<1>7. \A v \in Values : CountIn(r, v) = IF r.counted THEN Occurs(r.elems, v) ELSE 0
  BY DEF CountIn, Live
<1>8. ASSUME NEW v \in Values
      PROVE  refs'[v] = refs[v] - CountIn(r, v) + (IF r.counted THEN Occurs(t, v) ELSE 0)
  <2>1. refs[v] \in Int
    BY <1>1
  <2>2. Occurs(t, v) = Occurs(r.elems, v) - Occurs(old, v) + Occurs(s, v)
    BY DEF Exchanged
  <2>3. QED
    <3>1. refs'[v] = IF r.counted THEN freed[v] + Occurs(s, v) ELSE freed[v]
      BY <1>4, <1>5
    <3>2. freed[v] = IF r.counted THEN refs[v] - Occurs(old, v) ELSE refs[v]
      BY <1>3
    <3>3. CASE r.counted
      BY <1>6, <1>7, <2>1, <2>2, <3>1, <3>2, <3>3
    <3>4. CASE ~ r.counted
      BY <1>6, <1>7, <2>1, <2>2, <3>1, <3>2, <3>4
    <3>5. QED
      BY <3>3, <3>4
<1>9. QED
  BY <1>4, <1>5, <1>8, PutsCounted

\* see_dynamic_array_set drops the old reference and takes a new one.
LEMMA SetCounted ==
  ASSUME AllSound, Counted, NEW a \in Arrays, NEW pos \in Requests, NEW v \in Values,
         Set(a, pos, v)
  PROVE  Counted'
<1> DEFINE e == arr[a].elems
           t == [e EXCEPT ![pos + 1] = v]
           old == <<e[pos + 1]>>
           s == <<v>>
<1>1. CASE Kept
  BY <1>1, KeptCounted DEF Kept
<1>2. CASE /\ Live(a) /\ pos + 1 \in 1 .. Len(e) /\ Puts(a, t, arr[a].counted)
           /\ refs' = CopyElements(arr[a], FreeElements(arr[a], refs, old), s)
           /\ UNCHANGED held
  <2>1. e \in Seq(Values)
    BY <1>2, LiveSound
  <2>2. e[pos + 1] \in Values
    BY <1>2, <2>1, ElementOfSeq
  <2>3. old \in Seq(Values) /\ s \in Seq(Values)
    BY <2>2
  <2>4. Exchanged(t, arr[a].elems, old, s)
    BY <1>2, <2>1, OccursReplaced DEF Exchanged
  <2>5. /\ Live(a) /\ Puts(a, t, arr[a].counted) /\ UNCHANGED held
        /\ refs' = CopyElements(arr[a], FreeElements(arr[a], refs, old), s)
    BY <1>2
  <2> HIDE DEF t, old, s
  <2>6. QED
    BY <2>3, <2>4, <2>5, ReplacedCounted
<1>3. QED
  BY <1>1, <1>2, SetEffect

\* The copies are counted before the old contents of b are freed, so b may be a.
LEMMA CopyCounted ==
  ASSUME AllSound, Counted, NEW a \in Arrays, NEW b \in Arrays, Copy(a, b)
  PROVE  Counted'
<1> DEFINE r == arr[a]
           e == arr[a].elems
           copied == CopyElements(r, refs, e)
<1>1. CASE Kept
  BY <1>1, KeptCounted DEF Kept
<1>2. CASE /\ Live(a) /\ Puts(b, e, r.counted) /\ UNCHANGED held
           /\ refs' = IF Live(b) THEN FreeElements(arr[b], copied, arr[b].elems)
                      ELSE copied
  <2>1. e \in Seq(Values) /\ refs \in [Values -> Int]
    BY <1>2, LiveSound DEF Counted
  <2>2. /\ copied \in [Values -> Int]
        /\ \A v \in Values : copied[v] =
             IF r.counted THEN refs[v] + Occurs(e, v) ELSE refs[v]
    BY <2>1, CopiedAndFreed
  <2> HIDE DEF copied
  <2>3. /\ refs' \in [Values -> Int]
        /\ \A v \in Values : refs'[v] = copied[v] - CountIn(arr[b], v)
    <3>1. CASE Live(b)
      <4>1. arr[b].elems \in Seq(Values)
        BY <3>1, LiveSound
      <4>2. /\ refs' \in [Values -> Int]
            /\ \A v \in Values : refs'[v] =
                 IF arr[b].counted THEN copied[v] - Occurs(arr[b].elems, v)
                 ELSE copied[v]
        BY <1>2, <2>2, <3>1, <4>1, CopiedAndFreed
      <4>3. QED
        BY <2>2, <3>1, <4>2 DEF CountIn, Live
    <3>2. CASE ~ Live(b)
      BY <1>2, <2>2, <3>2 DEF CountIn, Live
    <3>3. QED
      BY <3>1, <3>2
  <2>4. \A v \in Values : Occurs(e, v) \in Nat /\ CountIn(arr[b], v) \in Nat
    BY <2>1, PlacesFinite, CellsInCounted DEF AllSound, Live
  <2>5. ASSUME NEW v \in Values
        PROVE  refs'[v] = refs[v] - CountIn(arr[b], v)
                            + (IF r.counted THEN Occurs(e, v) ELSE 0)
    <3>1. refs[v] \in Int
      BY <2>1
    <3>2. QED
      BY <2>2, <2>3, <2>4, <3>1
  <2>6. QED
    BY <1>2, <2>3, <2>5, PutsCounted
<1>3. QED
  BY <1>1, <1>2, CopyEffect

\* The client's copy is the client's.
LEMMA GetCounted ==
  ASSUME AllSound, Counted, NEW a \in Arrays, NEW pos \in SizeT, Get(a, pos), Live(a)
  PROVE  Counted'
<1> DEFINE v == arr[a].elems[pos + 1]
<1>1. CASE Kept
  BY <1>1, KeptCounted DEF Kept
<1>2. CASE /\ UNCHANGED arr /\ pos < Size(arr[a])
           /\ refs' = CopyElements(arr[a], refs, <<v>>)
           /\ held' = CopyElements(arr[a], held, <<v>>)
  <2>1. v \in Values
    <3>1. /\ arr[a].elems \in Seq(Values) /\ Size(arr[a]) = Len(arr[a].elems)
          /\ Size(arr[a]) \in Nat
      BY LiveSound
    <3>2. pos + 1 \in 1 .. Len(arr[a].elems)
      BY <1>2, <3>1, Sizes DEF SizeT
    <3>3. QED
      BY <3>1, <3>2, ElementOfSeq
  <2> HIDE DEF v
  <2>2. /\ <<v>> \in Seq(Values)
        /\ refs \in [Values -> Int] /\ held \in [Values -> Int]
    BY <2>1 DEF Counted
  <2>3. /\ refs' \in [Values -> Int] /\ held' \in [Values -> Int]
        /\ \A w \in Values :
             /\ refs'[w] = IF arr[a].counted THEN refs[w] + Occurs(<<v>>, w) ELSE refs[w]
             /\ held'[w] = IF arr[a].counted THEN held[w] + Occurs(<<v>>, w) ELSE held[w]
    BY <1>2, <2>2, CopiedAndFreed, ZenonT(30)
  <2> DEFINE more == [w \in Values |-> IF arr[a].counted THEN Occurs(<<v>>, w) ELSE 0]
  <2>4. \A w \in Values : Occurs(<<v>>, w) \in Nat
    BY <2>2, PlacesFinite
  <2>5. /\ more \in [Values -> Int]
        /\ \A w \in Values : refs'[w] = refs[w] + more[w] /\ held'[w] = held[w] + more[w]
    BY <2>2, <2>3, <2>4
  <2> HIDE DEF more
  <2>6. QED
    BY <1>2, <2>3, <2>5, ClientCounted
<1>3. QED
  BY <1>1, <1>2, GetEffect

\* Data is not counted.
LEMMA ShuffleCounted ==
  ASSUME AllSound, Counted, NEW a \in Arrays, NEW start \in Requests,
         NEW end \in Requests, ShuffleRange(a, start, end)
  PROVE  Counted'
<1>1. CASE Kept
  BY <1>1, KeptCounted DEF Kept
<1>2. ASSUME NEW t, ~ arr[a].counted, Moves(a, t, arr[a].counted) PROVE Counted'
  BY <1>2, DataCounted
<1>3. QED
  BY <1>1, <1>2, ShuffleRangeEffect

\* No reference is lost with the elements that array_shrink cuts off.
LEMMA ResizeCounted ==
  ASSUME NoneFreedByAddress, AllSound, Counted, NEW a \in Arrays, NEW n \in SizeT,
         Resize(a, n)
  PROVE  Counted'
<1> DEFINE r == arr[a]
<1>1. CASE Kept
  BY <1>1, KeptCounted DEF Kept
<1>2. CASE Live(a) /\ Moves(a, r.elems, r.counted)
  BY <1>2, SameCounted
<1>3. CASE /\ Live(a) /\ n \in 0 .. Len(r.elems)
           /\ Moves(a, SubSeq(r.elems, 1, n), r.counted)
           /\ r.counted /\ n < Size(r) => "free address" \in Corners
  <2>1. /\ r.elems \in Seq(Values) /\ Size(r) = Len(r.elems) /\ Size(r) \in Nat
        /\ r.counted \in BOOLEAN
    BY <1>3, LiveSound
  <2>2. CASE ~ r.counted
    BY <1>3, <2>2, DataCounted
  <2>3. CASE n = Len(r.elems)
    <3>1. SubSeq(r.elems, 1, n) = r.elems
      BY <2>1, <2>3, WholeSeq
    <3>2. QED
      BY <1>3, <3>1, SameCounted
  <2>4. ~ (r.counted /\ n < Size(r))
    BY <1>3 DEF NoneFreedByAddress
  <2>5. n \in 0 .. Size(r)
    BY <1>3, <2>1
  <2>6. n < Size(r) \/ n = Len(r.elems)
    BY <2>1, <2>5
  <2>7. QED
    BY <2>1, <2>2, <2>3, <2>4, <2>6
<1>4. QED
  BY <1>1, <1>2, <1>3, ResizeEffect

\* A client's own references are counted with it.
LEMMA ClientsCounted ==
  ASSUME Counted,
         \/ \E a \in Arrays : Refused(a)
         \/ \E v \in Values : Acquire(v) \/ Release(v)
         \/ ClearError
  PROVE  Counted'
<1>1. CASE Kept
  BY <1>1, KeptCounted DEF Kept
<1>2. ASSUME UNCHANGED arr, NEW v \in Values, NEW d \in {-1, 1},
             refs' = [refs EXCEPT ![v] = @ + d], held' = [held EXCEPT ![v] = @ + d]
      PROVE  Counted'
  <2> DEFINE more == [w \in Values |-> IF w = v THEN d ELSE 0]
  <2>1. refs \in [Values -> Int] /\ held \in [Values -> Int]
    BY DEF Counted
  <2>2. /\ more \in [Values -> Int]
        /\ refs' \in [Values -> Int] /\ held' \in [Values -> Int]
        /\ \A w \in Values : refs'[w] = refs[w] + more[w] /\ held'[w] = held[w] + more[w]
    BY <1>2, <2>1
  <2> HIDE DEF more
  <2>3. QED
    BY <1>2, <2>2, ClientCounted
<1>3. ASSUME UNCHANGED arr, NEW v \in Values,
             \/ refs' = [refs EXCEPT ![v] = @ + 1] /\ held' = [held EXCEPT ![v] = @ + 1]
             \/ refs' = [refs EXCEPT ![v] = @ - 1] /\ held' = [held EXCEPT ![v] = @ - 1]
      PROVE  Counted'
  <2>1. CASE refs' = [refs EXCEPT ![v] = @ + 1] /\ held' = [held EXCEPT ![v] = @ + 1]
    BY <1>2, <1>3, <2>1
  <2>2. CASE refs' = [refs EXCEPT ![v] = @ - 1] /\ held' = [held EXCEPT ![v] = @ - 1]
    <3>1. refs[v] - 1 = refs[v] + (-1) /\ held[v] - 1 = held[v] + (-1)
      BY DEF Counted
    <3>2. /\ refs' = [refs EXCEPT ![v] = @ + (-1)]
          /\ held' = [held EXCEPT ![v] = @ + (-1)]
      BY <2>2, <3>1
    <3>3. QED
      BY <1>2, <1>3, <3>2
  <2>3. QED
    BY <1>3, <2>1, <2>2
<1>4. QED
  BY <1>1, <1>3, ClientEffect

\* Every operation keeps the count.
LEMMA ArraysCounted ==
  ASSUME NoneShrunkEmpty, NoneFreedByAddress, AllSound, Counted, Next PROVE Counted'
<1>1. ASSUME NEW a \in Arrays, NEW n \in Requests,
             \/ \E kind \in Kinds : New(a, n, kind)
             \/ ReserveCall(a, n) \/ Resize(a, n)
      PROVE  Counted'
  <2>1. n \in SizeT /\ Kinds \subseteq BOOLEAN
    BY ElementsAssumption DEF SizeT
  <2>2. CASE \E kind \in Kinds : New(a, n, kind)
    BY <2>1, <2>2, NewCounted
  <2>3. CASE ReserveCall(a, n)
    BY <2>3, ReserveCallEffect, SameCounted, KeptCounted DEF Kept
  <2>4. CASE Resize(a, n)
    BY <2>1, <2>4, ResizeCounted
  <2>5. QED
    BY <1>1, <2>2, <2>3, <2>4
<1>2. ASSUME NEW a \in Arrays, Destroy(a) PROVE Counted'
  BY <1>2, DestroyCounted
<1>3. ASSUME NEW a \in Arrays, ShrinkToFit(a) PROVE Counted'
  BY <1>3, ShrinkToFitEffect, SameCounted, KeptCounted DEF Kept
<1>4. ASSUME NEW a \in Arrays, NEW v \in Values, Add(a, v) PROVE Counted'
  BY <1>4, AddCounted
<1>5. ASSUME NEW a \in Arrays, NEW pos \in Requests, NEW v \in Values, Set(a, pos, v)
      PROVE  Counted'
  BY <1>5, SetCounted
<1>6. ASSUME NEW a \in Arrays, NEW pos \in Requests, Get(a, pos) PROVE Counted'
  <2>1. pos \in SizeT /\ Live(a)
    BY <1>6, ElementsAssumption DEF SizeT, Get
  <2>2. QED
    BY <1>6, <2>1, GetCounted
<1>7. ASSUME NEW a \in Arrays, NEW pos \in Requests, NEW s \in Inserts, Insert(a, pos, s)
      PROVE  Counted'
  BY <1>7, InsertCounted
<1>8. ASSUME NEW a \in Arrays, NEW b \in Arrays, Copy(a, b) PROVE Counted'
  BY <1>8, CopyCounted
<1>9. ASSUME NEW a \in Arrays, NEW start \in Requests, NEW end \in Requests,
             ShuffleRange(a, start, end)
      PROVE  Counted'
  BY <1>9, ShuffleCounted
<1>10. ASSUME \/ \E a \in Arrays : Refused(a)
              \/ \E v \in Values : Acquire(v) \/ Release(v)
              \/ ClearError
       PROVE  Counted'
  BY <1>10, ClientsCounted
<1>11. QED
  BY <1>1, <1>2, <1>3, <1>4, <1>5, <1>6, <1>7, <1>8, <1>9, <1>10 DEF Next

\* The operations on stacks keep the counts.
LEMMA StacksCounted ==
  ASSUME NoneFreedByAddress, AllSound, Counted, StackNext PROVE Counted'
<1>1. ASSUME UNCHANGED <<arr, refs, held>> PROVE Counted'
  BY <1>1, KeptCounted
<1>2. ASSUME NEW a \in Arrays, StackNew(a) PROVE Counted'
  <2>1. New(a, 0, FALSE) /\ 0 \in SizeT
    BY <1>2, Sizes DEF StackNew
  <2>2. QED
    BY <2>1, NewCounted
<1>3. ASSUME NEW a \in Arrays, StackDestroy(a) PROVE Counted'
  BY <1>3, DestroyCounted DEF StackDestroy
<1>4. ASSUME NEW a \in Arrays, StackTop(a) PROVE Counted'
  <2>1. Live(a) /\ LastPos(a) \in SizeT
    BY <1>4, LastPosition DEF StackTop
  <2>2. CASE Get(a, LastPos(a))
    BY <2>1, <2>2, GetCounted
  <2>3. QED
    BY <1>1, <1>4, <2>2 DEF StackTop
<1>5. ASSUME NEW a \in Arrays, StackPop(a) PROVE Counted'
  <2>1. Live(a) /\ LastPos(a) \in SizeT
    BY <1>5, LastPosition DEF StackPop
  <2>2. CASE Resize(a, LastPos(a))
    BY <2>1, <2>2, ResizeCounted
  <2>3. QED
    BY <1>1, <1>5, <2>2 DEF StackPop
<1>6. ASSUME NEW a \in Arrays, NEW v \in Values, StackPush(a, v) PROVE Counted'
  BY <1>6, AddCounted DEF StackPush
<1>7. ASSUME NEW a \in Arrays, NEW b \in Arrays, StackCopy(a, b) PROVE Counted'
  BY <1>7, CopyCounted DEF StackCopy
<1>8. ASSUME (\E a \in Arrays : Refused(a)) \/ ClearError PROVE Counted'
  BY <1>8, ClientsCounted
<1>9. QED
  BY <1>2, <1>3, <1>4, <1>5, <1>6, <1>7, <1>8 DEF StackNext

\* The counts are right at first, and every step keeps them right.
LEMMA AlwaysCounted ==
  ASSUME NoneShrunkEmpty, NoneFreedByAddress
  PROVE  ContainersSpec => []Counted
<1>1. ContainersInit => Counted
  <2>1. SUFFICES ASSUME ContainersInit PROVE Counted
    OBVIOUS
  <2>2. /\ arr = [a \in Arrays |-> NoArray]
        /\ refs = [v \in Values |-> 0] /\ held = [v \in Values |-> 0]
    BY <2>1 DEF ContainersInit, StackInit, Init
  <2>3. \A v \in Values : Cells(v) = {}
    BY <2>2 DEF Cells, Live
  <2>4. \A v \in Values : Cardinality(Cells(v)) = 0
    BY <2>3, FS_EmptySet
  <2>5. QED
    BY <2>2, <2>4 DEF Counted, ElementsCounted
<1>2. AllSound /\ Counted /\ [ContainersNext]_containervars => Counted'
  <2>1. SUFFICES ASSUME AllSound, Counted, [ContainersNext]_containervars PROVE Counted'
    OBVIOUS
  <2>2. CASE UNCHANGED containervars
    BY <2>1, <2>2, KeptCounted DEF containervars, vars
  <2>3. CASE ContainersNext
    BY <2>1, <2>3, ArraysCounted, StacksCounted DEF ContainersNext
  <2>4. QED
    BY <2>1, <2>2, <2>3
<1>3. QED
  BY <1>1, <1>2, AlwaysSound, PTL DEF ContainersSpec

\* Every element's reference count is what the client and the cells of all arrays
\* hold (array_set, array_insert, see_dynamic_array_copy, dynamic_array_destroy).
THEOREM ElementsAlwaysCounted ==
  ASSUME NoneShrunkEmpty, NoneFreedByAddress
  PROVE  ContainersSpec => []ElementsCounted
<1>1. Counted => ElementsCounted
  BY DEF Counted
<1>2. QED
  BY <1>1, AlwaysCounted, PTL

-----------------------------------------------------------------------------
(* Types *)

\* What a client sees: its own references, the last result and the error.
ClientType ==
  /\ held \in [Values -> 0 .. MaxHeld]
  /\ ret \in Codes
  /\ error \in BOOLEAN

\* A call returns one of the codes.
LEMMA ReturnsType ==
  ASSUME error \in BOOLEAN, NEW code \in Codes, Returns(code)
  PROVE  ret' \in Codes /\ error' \in BOOLEAN
BY DEF Returns, NewError

\* array_reserve and array_add succeed, or fail for want of memory.
LEMMA ReserveCodes ==
  /\ \A r, n : \A outcome \in Reserve(r, n) : outcome.code \in Codes
  /\ \A r : \A outcome \in Enlarged(r) : outcome.code \in Codes
<1>1. \A r, n : \A outcome \in Reserve(r, n) : outcome.code \in Codes
  BY DEF Reserve, Codes
<1>2. QED
  BY <1>1 DEF Enlarged, Codes

\* Every call answers with a code, whatever it does.
LEMMA CallsReturn ==
  ASSUME error \in BOOLEAN, ret \in Codes,
         [ContainersNext]_containervars
  PROVE  ret' \in Codes /\ error' \in BOOLEAN
<1>1. {"success", "invalid", "index", "runtime"} = Codes
  BY DEF Codes
<1>2. ASSUME \E code \in Codes : Returns(code) PROVE ret' \in Codes /\ error' \in BOOLEAN
  BY <1>2, ReturnsType
<1>3. ASSUME NEW a \in Arrays, NEW n, NEW kind, New(a, n, kind)
      PROVE  \E code \in Codes : Returns(code)
  BY <1>1, <1>3, ReserveCodes DEF New
<1>4. ASSUME NEW a \in Arrays, NEW n, ReserveCall(a, n) \/ Resize(a, n)
      PROVE  \E code \in Codes : Returns(code)
  BY <1>1, <1>4, ReserveCodes DEF ReserveCall, Resize, Shrink, Grow, Becomes
<1>5. ASSUME NEW a \in Arrays, Destroy(a) \/ ShrinkToFit(a) \/ Refused(a)
      PROVE  \E code \in Codes : Returns(code)
  BY <1>1, <1>5 DEF Destroy, ShrinkToFit, Refused
<1>6. ASSUME NEW a \in Arrays, NEW v, Add(a, v) PROVE \E code \in Codes : Returns(code)
  BY <1>1, <1>6, ReserveCodes DEF Add, Becomes
<1>7. ASSUME NEW a \in Arrays, NEW pos, NEW v, Set(a, pos, v)
      PROVE  ret' \in Codes /\ error' \in BOOLEAN
  BY <1>1, <1>2, <1>7 DEF Set, NewError
<1>8. ASSUME NEW a \in Arrays, NEW pos, Get(a, pos)
      PROVE  \E code \in Codes : Returns(code)
  BY <1>1, <1>8 DEF Get
<1>9. ASSUME NEW a \in Arrays, NEW pos, NEW s, Insert(a, pos, s)
      PROVE  \E code \in Codes : Returns(code)
  BY <1>1, <1>9, ReserveCodes DEF Insert, Becomes
<1>10. ASSUME NEW a \in Arrays, NEW b \in Arrays, Copy(a, b)
       PROVE  \E code \in Codes : Returns(code)
  BY <1>1, <1>10, ReserveCodes DEF Copy
<1>11. ASSUME NEW a \in Arrays, NEW start, NEW end, ShuffleRange(a, start, end)
       PROVE  \E code \in Codes : Returns(code)
  BY <1>1, <1>11 DEF ShuffleRange
<1>12. ASSUME (\E v \in Values : Acquire(v) \/ Release(v)) \/ ClearError
       PROVE  ret' \in Codes /\ error' \in BOOLEAN
  BY <1>1, <1>2, <1>12 DEF Acquire, Release, ClearError
<1>13. CASE UNCHANGED containervars
  BY <1>13 DEF containervars, vars
<1>14. CASE Next
  BY <1>14, <1>2, <1>3, <1>4, <1>5, <1>6, <1>7, <1>8, <1>9, <1>10, <1>11, <1>12 DEF Next
<1>15. CASE StackNext
  <2>1. ASSUME NEW a \in Arrays, StackTop(a) \/ StackPop(a)
        PROVE  \E code \in Codes : Returns(code)
    BY <1>1, <1>4, <1>8, <2>1 DEF StackTop, StackPop
  <2>2. QED
    BY <1>15, <1>2, <1>3, <1>5, <1>6, <1>10, <1>12, <2>1
    DEF StackNext, StackNew, StackDestroy, StackPush, StackCopy
<1>16. QED
  BY <1>13, <1>14, <1>15 DEF ContainersNext

\* The element that see_dynamic_array_get hands out is one more reference of the
\* client.
LEMMA GetHeld ==
  ASSUME AllSound, held \in [Values -> 0 .. MaxHeld], NEW a \in Arrays, NEW pos \in SizeT,
         Get(a, pos)
  PROVE  held' \in [Values -> 0 .. MaxHeld]
<1>1. CASE UNCHANGED held
  BY <1>1
<1>2. CASE held' # held
  <2> DEFINE v == arr[a].elems[pos + 1]
  <2>1. /\ pos < Size(arr[a])
        /\ arr[a].counted => held[v] < MaxHeld
        /\ held' = CopyElements(arr[a], held, <<v>>)
    BY <1>2 DEF Get
  <2>2. arr[a].counted /\ held' = [u \in Values |-> held[u] + Occurs(<<v>>, u)]
    BY <1>2, <2>1 DEF CopyElements
  <2>3. v \in Values
    <3>1. arr[a] \in ArrayType
      BY LiveSound DEF Get, Sound
    <3>2. arr[a].elems \in Seq(Values) /\ Size(arr[a]) \in Nat /\ pos \in Nat
      BY <3>1, Fields, Sizes DEF SizeT
    <3>3. pos + 1 \in 1 .. Len(arr[a].elems)
      BY <2>1, <3>2 DEF Size
    <3>4. QED
      BY <3>2, <3>3, ElementOfSeq
  <2> HIDE DEF v
  <2>4. ASSUME NEW u \in Values PROVE held[u] + Occurs(<<v>>, u) \in 0 .. MaxHeld
    <3>1. Occurs(<<v>>, u) = IF v = u THEN 1 ELSE 0
      BY <2>3, OccursInOne
    <3>2. held[u] \in 0 .. MaxHeld /\ (u = v => held[u] < MaxHeld)
      BY <2>1, <2>2
    <3>3. QED
      BY <3>1, <3>2, ElementsAssumption
  <2>5. QED
    BY <2>2, <2>4
<1>3. QED
  BY <1>1, <1>2

\* No other call gives the client references, and a client keeps to its bounds.
LEMMA HeldStep ==
  ASSUME AllSound, held \in [Values -> 0 .. MaxHeld], [ContainersNext]_containervars
  PROVE  held' \in [Values -> 0 .. MaxHeld]
<1>1. ASSUME UNCHANGED held PROVE held' \in [Values -> 0 .. MaxHeld]
  BY <1>1
<1>2. ASSUME NEW a \in Arrays, NEW pos \in SizeT, Get(a, pos)
      PROVE  held' \in [Values -> 0 .. MaxHeld]
  BY <1>2, GetHeld
<1>3. ASSUME NEW v \in Values, Acquire(v) \/ Release(v)
      PROVE  held' \in [Values -> 0 .. MaxHeld]
  <2>1. /\ held[v] \in 0 .. MaxHeld
        /\ \/ held[v] < MaxHeld /\ held' = [held EXCEPT ![v] = held[v] + 1]
           \/ held[v] > 0 /\ held' = [held EXCEPT ![v] = held[v] - 1]
    BY <1>3 DEF Acquire, Release
  <2>2. PICK k \in 0 .. MaxHeld : held' = [held EXCEPT ![v] = k]
    BY <2>1, ElementsAssumption
  <2>3. QED
    BY <2>2
<1>4. CASE UNCHANGED containervars
  BY <1>4 DEF containervars, vars
<1>5. CASE Next
  <2>1. Requests \subseteq SizeT
    BY ElementsAssumption DEF SizeT
  <2>2. \/ UNCHANGED held
        \/ \E a \in Arrays, pos \in Requests : Get(a, pos)
        \/ \E v \in Values : Acquire(v) \/ Release(v)
    BY <1>5
    DEF Next, New, ReserveCall, Resize, Destroy, ShrinkToFit, Refused, Add, Set, Insert,
        Copy, ShuffleRange, ClearError
  <2>3. QED
    BY <1>1, <1>2, <1>3, <2>1, <2>2
<1>6. CASE StackNext
  <2>1. \/ UNCHANGED held
        \/ \E a \in Arrays : Live(a) /\ Get(a, LastPos(a))
    BY <1>6
    DEF StackNext, StackNew, StackDestroy, StackPush, StackTop, StackPop, StackCopy, New,
        Resize, Destroy, Refused, Add, Copy, ClearError
  <2>2. QED
    BY <1>1, <1>2, <2>1, LastPosition
<1>7. QED
  BY <1>4, <1>5, <1>6 DEF ContainersNext

\* Arrays keep their types; above all no reference count goes below 0, since it is
\* the number of references there are.
THEOREM ContainerTypes ==
  ASSUME NoneShrunkEmpty, NoneFreedByAddress PROVE ContainersSpec => []TypeOK
<1>1. ContainersInit => ClientType
  <2>1. 0 \in 0 .. MaxHeld
    BY ElementsAssumption
  <2>2. QED
    BY <2>1 DEF ContainersInit, StackInit, Init, ClientType, Codes
<1>2. AllSound /\ ClientType /\ [ContainersNext]_containervars => ClientType'
  BY HeldStep, CallsReturn DEF ClientType
<1>3. AllSound /\ ClientType /\ Counted => TypeOK
  <2>1. SUFFICES ASSUME AllSound, ClientType, Counted PROVE TypeOK
    OBVIOUS
  <2>2. ASSUME NEW v \in Values PROVE refs[v] \in Nat
    <3>1. Cardinality(Cells(v)) \in Nat
      BY <2>1, CellsFinite, FS_CardinalityType
    <3>2. held[v] \in Nat
      BY <2>1, ElementsAssumption DEF ClientType
    <3>3. refs[v] = held[v] + Cardinality(Cells(v))
      BY <2>1 DEF Counted, ElementsCounted
    <3>4. QED
      BY <3>1, <3>2, <3>3
  <2>3. refs \in [Values -> Nat]
    BY <2>1, <2>2 DEF Counted
  <2>4. QED
    BY <2>1, <2>3 DEF AllSound, ClientType, TypeOK
<1>4. QED
  BY <1>1, <1>2, <1>3, AlwaysSound, AlwaysCounted, PTL DEF ContainersSpec

-----------------------------------------------------------------------------
(* Stacks *)

\* A sequence from its end.
LEMMA ReversedIs ==
  ASSUME NEW s \in Seq(Values)
  PROVE  /\ Reversed(s) \in Seq(Values) /\ Len(Reversed(s)) = Len(s)
         /\ \A i \in 1 .. Len(s) : Reversed(s)[i] = s[Len(s) + 1 - i]
         /\ Reversed(s) = <<>> <=> Len(s) = 0
<1> DEFINE n == Len(s)
<1>1. n \in Nat /\ \A i \in 1 .. n : s[i] \in Values
  BY LenProperties, ElementOfSeq
<1>2. \A i \in 1 .. n : n + 1 - i \in 1 .. n
  BY <1>1
<1>3. Reversed(s) = [i \in 1 .. n |-> s[n + 1 - i]]
  BY DEF Reversed
<1> HIDE DEF n
<1>4. Reversed(s) \in [1 .. n -> Values]
  BY <1>1, <1>2, <1>3
<1>5. Reversed(s) \in Seq(Values) /\ Len(Reversed(s)) = n
  BY <1>1, <1>4, FunctionIsSeq
<1>6. Reversed(s) = <<>> <=> n = 0
  BY <1>5, EmptySeq
<1>7. QED
  BY <1>3, <1>5, <1>6 DEF n

\* What is added at the end is on top.
LEMMA ReversedPush ==
  ASSUME NEW s \in Seq(Values), NEW v \in Values
  PROVE  Reversed(Append(s, v)) = <<v>> \o Reversed(s)
<1> DEFINE n == Len(s)
           t == Append(s, v)
           r == Reversed(s)
           q == <<v>> \o r
<1>1. n \in Nat /\ t \in Seq(Values) /\ Len(t) = n + 1
      /\ t[n + 1] = v /\ \A i \in 1 .. n : t[i] = s[i]
  BY LenProperties, AppendProperties
<1>2. /\ r \in Seq(Values) /\ Len(r) = n
      /\ \A i \in 1 .. n : r[i] = s[n + 1 - i]
  BY ReversedIs
<1> HIDE DEF n, t
<1>3. /\ Reversed(t) \in Seq(Values) /\ Len(Reversed(t)) = n + 1
      /\ \A i \in 1 .. n + 1 : Reversed(t)[i] = t[n + 2 - i]
  <2>1. \A i \in 1 .. n + 1 : (n + 1) + 1 - i = n + 2 - i
    BY <1>1
  <2>2. QED
    BY <1>1, <2>1, ReversedIs
<1>4. <<v>> \in Seq(Values) /\ Len(<<v>>) = 1 /\ <<v>>[1] = v
  OBVIOUS
<1> HIDE DEF r
<1>5. /\ q \in Seq(Values) /\ Len(q) = n + 1 /\ q[1] = v
      /\ \A i \in 2 .. n + 1 : q[i] = r[i - 1]
  BY <1>1, <1>2, <1>4, ConcatProperties
<1> HIDE DEF q
<1>6. ASSUME NEW i \in 1 .. n + 1 PROVE Reversed(t)[i] = q[i]
  <2>1. CASE i = 1
    BY <1>1, <1>3, <1>5, <2>1
  <2>2. CASE i # 1
    <3>1. i - 1 \in 1 .. n /\ i \in 2 .. n + 1 /\ n + 2 - i \in 1 .. n
          /\ n + 1 - (i - 1) = n + 2 - i
      BY <1>1, <2>2
    <3>2. q[i] = s[n + 2 - i]
      BY <1>2, <1>5, <3>1
    <3>3. QED
      BY <1>1, <1>3, <3>1, <3>2
  <2>3. QED
    BY <2>1, <2>2
<1>7. Reversed(t) = q
  BY <1>3, <1>5, <1>6, SeqEqual
<1>8. QED
  BY <1>7 DEF t, q, r

\* What is cut off at the end was on top.
LEMMA ReversedPop ==
  ASSUME NEW s \in Seq(Values), Len(s) > 0
  PROVE  /\ Reversed(SubSeq(s, 1, Len(s) - 1)) = Tail(Reversed(s))
         /\ Head(Reversed(s)) = s[Len(s)]
<1> DEFINE n == Len(s)
           t == SubSeq(s, 1, n - 1)
           r == Reversed(s)
<1>1. n \in Nat /\ n > 0
  BY LenProperties
<1>2. t \in Seq(Values) /\ Len(t) = n - 1 /\ \A i \in 1 .. n - 1 : t[i] = s[i]
  <2> DEFINE k == n - 1
  <2>1. k \in Nat /\ \A i \in 1 .. k : s[i] \in Values /\ i \in Int
    BY <1>1, ElementOfSeq
  <2> HIDE DEF n, k
  <2>2. /\ SubSeq(s, 1, k) \in Seq(Values) /\ Len(SubSeq(s, 1, k)) = k
        /\ \A i \in 1 .. k : SubSeq(s, 1, k)[i] = s[i]
    BY <2>1, SubSeqProperties
  <2>3. QED
    BY <2>2 DEF k
<1>3. /\ r \in Seq(Values) /\ Len(r) = n /\ r # <<>>
      /\ \A i \in 1 .. n : r[i] = s[n + 1 - i]
  BY <1>1, ReversedIs
<1> HIDE DEF n, t, r
<1>4. /\ Reversed(t) \in Seq(Values) /\ Len(Reversed(t)) = n - 1
      /\ \A i \in 1 .. n - 1 : Reversed(t)[i] = t[n - i]
  <2>1. \A i \in Int : (n - 1) + 1 - i = n - i
    BY <1>1
  <2>2. QED
    BY <1>1, <1>2, ReversedIs, SMTT(30)
<1>5. /\ Tail(r) \in Seq(Values) /\ Len(Tail(r)) = n - 1
      /\ \A i \in 1 .. n - 1 : Tail(r)[i] = r[i + 1]
      /\ Head(r) = r[1]
  BY <1>1, <1>3, HeadTailProperties
<1>6. ASSUME NEW i \in 1 .. n - 1 PROVE Reversed(t)[i] = Tail(r)[i]
  <2>1. i + 1 \in 1 .. n /\ n - i \in 1 .. n - 1 /\ n + 1 - (i + 1) = n - i
    BY <1>1
  <2>2. QED
    BY <1>2, <1>3, <1>4, <1>5, <2>1, SMTT(30)
<1>7. Reversed(t) = Tail(r)
  BY <1>4, <1>5, <1>6, SeqEqual
<1>8. Head(r) = s[n]
  BY <1>1, <1>3, <1>5
<1>9. QED
  BY <1>7, <1>8 DEF n, t, r

\* The calls that make room tell of no error but that there is none.
LEMMA ReserveTells ==
  ASSUME NEW r, NEW n, NEW outcome \in Reserve(r, n)
  PROVE  outcome.code \in {"success", "runtime"}
BY DEF Reserve

\* A stack is the reversed list of its elements.
LEMMA StackOfLive ==
  ASSUME AllSound, use = "stacks", NEW a \in Arrays
  PROVE  /\ Live(a) => /\ AllStacks[a] = Reversed(arr[a].elems)
                       /\ arr[a].elems \in Seq(Values)
                       /\ AllStacks[a] # NoArray
                       /\ AllStacks[a] = <<>> <=> Size(arr[a]) = 0
         /\ ~ Live(a) => AllStacks[a] = NoArray
<1>1. use # "arrays"
  OBVIOUS
<1>2. AllStacks[a] = IF ~ Live(a) THEN NoArray ELSE Reversed(arr[a].elems)
  BY <1>1 DEF AllStacks, StackOf
<1>3. Live(a) => /\ arr[a].elems \in Seq(Values) /\ Size(arr[a]) = Len(arr[a].elems)
  BY LiveSound
<1>4. Live(a) => /\ Reversed(arr[a].elems) \in Seq(Values)
                 /\ Reversed(arr[a].elems) = <<>> <=> Size(arr[a]) = 0
  BY <1>3, ReversedIs
<1>5. QED
  BY <1>2, <1>3, <1>4, NoArrayAssumption

\* It changes with them.
LEMMA PutsStack ==
  ASSUME AllSound, use = "stacks", UNCHANGED use,
         NEW a \in Arrays, NEW s, NEW kind, Puts(a, s, kind)
  PROVE  AllStacks' = [AllStacks EXCEPT ![a] = Reversed(s)]
<1>1. PICK r : Sound(r) /\ r.elems = s /\ arr' = [arr EXCEPT ![a] = r]
  BY DEF Puts
<1>2. arr'[a] = r /\ r # NoArray /\ use # "arrays"
  BY <1>1, NoArrayAssumption DEF AllSound, Sound
<1>3. \A b \in Arrays : b # a => arr'[b] = arr[b]
  BY <1>1 DEF AllSound
<1>4. StackOf(a)' = Reversed(s)
  BY <1>1, <1>2 DEF StackOf, Live, Reversed
<1>5. \A b \in Arrays : b # a => StackOf(b)' = StackOf(b)
  BY <1>3 DEF StackOf, Live, Reversed
<1>6. QED
  BY <1>4, <1>5 DEF AllStacks

\* It stays the same with the arrays.
LEMMA KeptStacks ==
  ASSUME UNCHANGED <<arr, use>> PROVE AllStacks' = AllStacks
BY DEF AllStacks, StackOf, Live, Reversed

\* A call that fails without touching a stack.
LEMMA NothingHappens ==
  ASSUME UNCHANGED <<arr, use, out>>, use = "stacks",
         ret' \in {"success", "runtime", "invalid"}
  PROVE  Lifo!Nothing
BY KeptStacks DEF Lifo!Nothing, Answer

\* stack_top and stack_pop of an empty stack say so.
LEMMA EmptyTells ==
  ASSUME AllSound, use = "stacks", UNCHANGED <<arr, use, out>>, NEW a \in Arrays,
         Live(a), IsEmpty(a), Returns("index")
  PROVE  Lifo!Empty(a)
<1>1. AllStacks[a] = <<>>
  BY LastPosition, StackOfLive
<1>2. Answer' = "index"
  BY DEF Answer, Returns
<1>3. QED
  BY <1>1, <1>2, KeptStacks DEF Lifo!Empty

\* stack_push puts its element on top.
LEMMA PushLifo ==
  ASSUME AllSound, use = "stacks", UNCHANGED use, NEW a \in Arrays, NEW v \in Values,
         StackPush(a, v)
  PROVE  Lifo!Nothing \/ Lifo!Push(a, v)
<1>1. Add(a, v) /\ UNCHANGED out /\ Live(a)
  BY DEF StackPush, Add
<1>2. ret' \in {"success", "runtime"}
  <2>1. \A outcome \in Enlarged(arr[a]) : outcome.code \in {"success", "runtime"}
    BY ReserveTells DEF Enlarged
  <2>2. QED
    BY <1>1, <2>1 DEF Add, Becomes, Returns
<1>3. CASE Kept
  BY <1>1, <1>2, <1>3, NothingHappens DEF Kept
<1>4. CASE ret' = "success" /\ Puts(a, Append(arr[a].elems, v), arr[a].counted)
  <2>1. /\ AllStacks' = [AllStacks EXCEPT ![a] = Reversed(Append(arr[a].elems, v))]
        /\ AllStacks[a] = Reversed(arr[a].elems) /\ AllStacks[a] # NoArray
        /\ arr[a].elems \in Seq(Values)
    BY <1>1, <1>4, PutsStack, StackOfLive
  <2>2. AllStacks' = [AllStacks EXCEPT ![a] = <<v>> \o AllStacks[a]]
    BY <2>1, ReversedPush
  <2>3. Answer' = "success"
    BY <1>4 DEF Answer
  <2>4. QED
    BY <1>1, <2>1, <2>2, <2>3 DEF Lifo!Push, Lifo!Exists
<1>5. QED
  BY <1>1, <1>3, <1>4, AddEffect

\* stack_pop takes the top away.
LEMMA PopLifo ==
  ASSUME AllSound, use = "stacks", UNCHANGED use, NEW a \in Arrays, StackPop(a)
  PROVE  Lifo!Empty(a) \/ Lifo!Pop(a)
<1>1. Live(a) /\ UNCHANGED out
  BY DEF StackPop
<1>2. CASE IsEmpty(a)
  BY <1>1, <1>2, EmptyTells DEF StackPop
<1>3. CASE ~ IsEmpty(a)
  <2> DEFINE e == arr[a].elems
             n == Size(arr[a])
  <2>1. /\ e \in Seq(Values) /\ n = Len(e) /\ n \in Nat /\ LastPos(a) = n - 1
        /\ n # 0 /\ Sound(arr[a]) /\ arr[a].capacity \in Nat /\ n <= arr[a].capacity
    BY <1>1, <1>3, LiveSound, LastPosition, CapacityBound
  <2>2. Resize(a, n - 1)
    BY <1>3, <2>1 DEF StackPop
  <2>3. Shrink(a, n - 1)
    BY <2>1, <2>2 DEF Resize
  <2>4. arr' = [arr EXCEPT ![a] = [arr[a] EXCEPT !.elems = SubSeq(e, 1, n - 1)]]
        /\ ret' = "success"
    BY <2>3 DEF Shrink, Returns
  <2>5. SubSeq(e, 1, n - 1) \in Seq(Values) /\ Len(SubSeq(e, 1, n - 1)) <= arr[a].capacity
    <3> DEFINE k == n - 1
    <3>1. k \in Nat /\ k <= arr[a].capacity /\ \A i \in 1 .. k : e[i] \in Values
      BY <2>1, ElementOfSeq
    <3> HIDE DEF e, n, k
    <3>2. SubSeq(e, 1, k) \in Seq(Values) /\ Len(SubSeq(e, 1, k)) = k
      BY <3>1, SubSeqProperties
    <3>3. QED
      BY <3>1, <3>2 DEF k
  <2>6. Puts(a, SubSeq(e, 1, n - 1), arr[a].counted)
    BY <1>1, <2>1, <2>4, <2>5, PutsElements
  <2>7. AllStacks' = [AllStacks EXCEPT ![a] = Reversed(SubSeq(e, 1, n - 1))]
    BY <2>6, PutsStack
  <2>8. Reversed(SubSeq(e, 1, n - 1)) = Tail(Reversed(e))
    BY <2>1, ReversedPop
  <2>9. AllStacks[a] = Reversed(e) /\ AllStacks[a] # NoArray /\ AllStacks[a] # <<>>
    BY <1>1, <2>1, StackOfLive
  <2>10. AllStacks' = [AllStacks EXCEPT ![a] = Tail(AllStacks[a])] /\ Answer' = "success"
    BY <2>4, <2>7, <2>8, <2>9 DEF Answer
  <2>11. QED
    BY <1>1, <2>9, <2>10 DEF Lifo!Pop, Lifo!Exists
<1>4. QED
  BY <1>2, <1>3

\* stack_top hands out the element that was pushed last.
LEMMA TopLifo ==
  ASSUME AllSound, use = "stacks", UNCHANGED use, NEW a \in Arrays, StackTop(a)
  PROVE  Lifo!Empty(a) \/ Lifo!Top(a)
<1>1. Live(a)
  BY DEF StackTop
<1>2. CASE IsEmpty(a)
  BY <1>1, <1>2, EmptyTells DEF StackTop
<1>3. CASE ~ IsEmpty(a)
  <2> DEFINE e == arr[a].elems
             n == Size(arr[a])
  <2>1. /\ e \in Seq(Values) /\ n = Len(e) /\ n \in Nat /\ LastPos(a) = n - 1 /\ n # 0
    BY <1>1, <1>3, LiveSound, LastPosition
  <2>2. /\ Get(a, n - 1)
        /\ out' = IF ret' = "success" THEN e[n - 1 + 1] ELSE out
    BY <1>3, <2>1 DEF StackTop
  <2>3. ret' = "success" /\ UNCHANGED arr
    <3>1. n = Size(arr[a])
      OBVIOUS
    <3> HIDE DEF n
    <3>2. ~ n - 1 >= n
      BY <2>1
    <3>3. QED
      BY <2>2, <3>1, <3>2, Zenon DEF Get, Returns
  <2>4. n - 1 + 1 = n /\ n > 0
    BY <2>1
  <2>5. AllStacks[a] = Reversed(e) /\ AllStacks[a] # NoArray /\ AllStacks[a] # <<>>
    BY <1>1, <2>1, StackOfLive
  <2>6. out' = Head(AllStacks[a])
    BY <2>1, <2>2, <2>3, <2>4, <2>5, ReversedPop
  <2>7. Answer' = "success" /\ AllStacks' = AllStacks
    BY <2>3, KeptStacks DEF Answer
  <2>8. QED
    BY <2>5, <2>6, <2>7 DEF Lifo!Top, Lifo!Exists
<1>4. QED
  BY <1>2, <1>3

\* see_stack_new makes an empty stack.
LEMMA NewLifo ==
  ASSUME AllSound, use = "stacks", UNCHANGED use, NEW a \in Arrays, StackNew(a)
  PROVE  Lifo!Nothing \/ Lifo!Make(a)
<1>1. New(a, 0, FALSE) /\ 0 \in SizeT /\ UNCHANGED out
  BY Sizes DEF StackNew
<1>2. ret' \in {"success", "runtime"}
  BY <1>1, ReserveTells DEF New, Returns
<1>3. CASE Kept
  BY <1>1, <1>2, <1>3, NothingHappens DEF Kept
<1>4. CASE ret' = "success" /\ ~ Live(a) /\ Puts(a, <<>>, FALSE)
  <2>1. AllStacks[a] = NoArray
    BY <1>4, StackOfLive
  <2>2. Reversed(<<>>) = <<>>
    BY ReversedIs, EmptySeq
  <2>3. AllStacks' = [AllStacks EXCEPT ![a] = <<>>] /\ Answer' = "success"
    BY <1>4, <2>2, PutsStack DEF Answer
  <2>4. QED
    BY <1>1, <2>1, <2>3 DEF Lifo!Make, Lifo!Exists
<1>5. QED
  BY <1>1, <1>3, <1>4, NewEffect DEF Moves

\* stack_copy makes a stack with the same elements.
LEMMA CopyLifo ==
  ASSUME AllSound, use = "stacks", UNCHANGED use, NEW a \in Arrays, NEW b \in Arrays,
         StackCopy(a, b)
  PROVE  Lifo!Nothing \/ Lifo!Make(b)
<1>1. Copy(a, b) /\ ~ Live(b) /\ UNCHANGED out /\ Live(a)
  BY DEF StackCopy, Copy
<1>2. ret' \in {"success", "runtime"}
  BY <1>1, ReserveTells DEF Copy, Returns
<1>3. CASE Kept
  BY <1>1, <1>2, <1>3, NothingHappens DEF Kept
<1>4. CASE ret' = "success" /\ Puts(b, arr[a].elems, arr[a].counted)
  <2>1. /\ AllStacks[b] = NoArray /\ AllStacks[a] # NoArray
        /\ AllStacks[a] = Reversed(arr[a].elems)
    BY <1>1, StackOfLive
  <2>2. AllStacks' = [AllStacks EXCEPT ![b] = AllStacks[a]] /\ Answer' = "success"
    BY <1>4, <2>1, PutsStack DEF Answer
  <2>3. QED
    BY <1>1, <2>1, <2>2 DEF Lifo!Make, Lifo!Exists
<1>5. QED
  BY <1>1, <1>3, <1>4, CopyEffect

\* stack_destroy makes an end of the stack.
LEMMA DestroyLifo ==
  ASSUME AllSound, use = "stacks", UNCHANGED use, NEW a \in Arrays, StackDestroy(a)
  PROVE  Lifo!Destroy(a)
<1>1. /\ Live(a) /\ UNCHANGED out /\ ret' = "success"
      /\ arr' = [arr EXCEPT ![a] = NoArray]
  BY DEF StackDestroy, Destroy, Returns
<1>2. AllStacks' = [AllStacks EXCEPT ![a] = NoArray]
  BY <1>1 DEF AllSound, AllStacks, StackOf, Live, Reversed
<1>3. AllStacks[a] # NoArray
  BY <1>1, StackOfLive
<1>4. QED
  BY <1>1, <1>2, <1>3 DEF Lifo!Destroy, Lifo!Exists, Answer

LifoVars == <<AllStacks, Answer, out>>

\* Every operation on stacks is a step of Lifo.
LEMMA StacksAreLifo ==
  ASSUME AllSound, use = "stacks", UNCHANGED use, StackNext
  PROVE  Lifo!Next \/ UNCHANGED LifoVars
<1>1. ASSUME NEW a \in Arrays, Refused(a), UNCHANGED out PROVE Lifo!Nothing
  BY <1>1, NothingHappens DEF Refused, Returns
<1>2. ASSUME ClearError, UNCHANGED out PROVE UNCHANGED LifoVars
  BY <1>2, KeptStacks DEF ClearError, LifoVars, Answer
<1>3. ASSUME NEW a \in Arrays, NEW v \in Values, StackPush(a, v) PROVE Lifo!Next
  BY <1>3, PushLifo DEF Lifo!Next
<1>4. ASSUME NEW a \in Arrays, NEW b \in Arrays, StackCopy(a, b) PROVE Lifo!Next
  BY <1>4, CopyLifo DEF Lifo!Next
<1>5. ASSUME NEW a \in Arrays,
             StackNew(a) \/ StackDestroy(a) \/ StackTop(a) \/ StackPop(a)
      PROVE  Lifo!Next
  BY <1>5, NewLifo, DestroyLifo, TopLifo, PopLifo DEF Lifo!Next
<1>6. QED
  BY <1>1, <1>2, <1>3, <1>4, <1>5 DEF StackNext, Lifo!Next

\* Arrays that are no stacks are none of Lifo's.
LEMMA ArraysHidden ==
  ASSUME use = "arrays", UNCHANGED <<use, out>> PROVE UNCHANGED LifoVars
BY DEF LifoVars, AllStacks, StackOf, Answer

\* The array, used through its end, is a stack: last in, first out, the top readable,
\* and SEE_INDEX_ERROR the answer to an empty stack and to nothing else, although the
\* test for it wraps around below 0 (stack_push, stack_top, stack_pop, stack_copy).
THEOREM StacksImplementLifo ==
  ASSUME NoneShrunkEmpty PROVE ContainersSpec => ImplementsLifo
<1>1. ContainersInit => Lifo!Init
  <2>1. SUFFICES ASSUME ContainersInit PROVE Lifo!Init
    OBVIOUS
  <2>2. \A a \in Arrays : ~ Live(a)
    BY <2>1 DEF ContainersInit, StackInit, Init, Live
  <2>3. AllStacks = [a \in Arrays |-> NoArray]
    BY <2>2 DEF AllStacks, StackOf
  <2>4. Answer = "success" /\ out = NoArray
    BY <2>1 DEF ContainersInit, StackInit, Init, Answer
  <2>5. QED
    BY <2>3, <2>4 DEF Lifo!Init
<1>2. AllSound /\ use \in {"arrays", "stacks"} /\ [ContainersNext]_containervars
        => [Lifo!Next]_Lifo!vars
  <2>1. SUFFICES ASSUME AllSound, use \in {"arrays", "stacks"},
                        [ContainersNext]_containervars
                 PROVE  Lifo!Next \/ UNCHANGED LifoVars
    BY DEF Lifo!vars, LifoVars
  <2>2. CASE UNCHANGED containervars
    BY <2>2, KeptStacks DEF containervars, vars, LifoVars, Answer
  <2>3. CASE ContainersNext /\ use = "arrays"
    BY <2>3, ArraysHidden DEF ContainersNext
  <2>4. CASE ContainersNext /\ use = "stacks"
    BY <2>1, <2>4, StacksAreLifo DEF ContainersNext
  <2>5. QED
    BY <2>1, <2>2, <2>3, <2>4
<1>3. ContainersSpec => [](use \in {"arrays", "stacks"})
  <2>1. ContainersInit => use \in {"arrays", "stacks"}
    BY DEF ContainersInit
  <2>2. use \in {"arrays", "stacks"} /\ [ContainersNext]_containervars
          => (use \in {"arrays", "stacks"})'
    BY DEF ContainersNext, containervars
  <2>3. QED
    BY <2>1, <2>2, PTL DEF ContainersSpec
<1>4. QED
  BY <1>1, <1>2, <1>3, AlwaysSound, PTL DEF ContainersSpec, ImplementsLifo, Lifo!Spec
=============================================================================
