------------------------------ MODULE Containers ------------------------------
(***************************************************************************)
(* The containers as clients use them: as arrays, with the whole API of    *)
(* SeeDynamicArray, or as stacks, through SeeStack, which keeps the array  *)
(* to itself.                                                              *)
(***************************************************************************)
EXTENDS Stack

VARIABLE use        \* "arrays" or "stacks"; never changes

containervars == <<vars, out, use>>

ContainersInit == StackInit /\ use \in {"arrays", "stacks"}

ContainersNext ==
  /\ UNCHANGED use
  /\ \/ use = "arrays" /\ Next /\ UNCHANGED out
     \/ use = "stacks" /\ StackNext

ContainersSpec == ContainersInit /\ [][ContainersNext]_containervars

-----------------------------------------------------------------------------
(* Properties, besides those of DynamicArray, which stacks share *)

\* The stacks that the arrays are, the top first.
Reversed(s) == [i \in 1 .. Len(s) |-> s[Len(s) + 1 - i]]
StackOf(a) ==
  IF use = "arrays" \/ ~ Live(a) THEN NoArray ELSE Reversed(arr[a].elems)
AllStacks == [a \in Arrays |-> StackOf(a)]
Answer == IF use = "arrays" THEN "success" ELSE ret

\* The array, used through its end, is a stack: last in, first out, the top
\* readable, and "index" the answer to an empty stack and to nothing else.
Lifo == INSTANCE Lifo WITH
  Stacks <- Arrays,
  NoStack <- NoArray,
  lifo <- AllStacks,
  answer <- Answer,
  top <- out

ImplementsLifo == Lifo!Spec
=============================================================================
