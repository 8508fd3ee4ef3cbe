--------------------------------- MODULE Stack ---------------------------------
(***************************************************************************)
(* SeeStack (src/src/Stack.c): a stack is an instance that owns one        *)
(* SeeDynamicArray and keeps its elements there, the top at the end.  The  *)
(* operations are those of DynamicArray, called under a test for the empty *)
(* stack that wraps around below 0.                                        *)
(*                                                                         *)
(* arr[a] is the array of the stack that variable a designates.            *)
(***************************************************************************)
EXTENDS DynamicArray

VARIABLE out        \* what the last successful call of see_stack_top gave, or NoArray

-----------------------------------------------------------------------------
(* Changed forms of the operations below, for the mutation runs. *)

\* see_stack_top gives the element that was pushed first.
StackTopFirst(a) ==
  /\ Live(a) /\ ~ error
  /\ Size(arr[a]) > 0
  /\ Get(a, 0)
  /\ out' = arr[a].elems[1]

-----------------------------------------------------------------------------
PastTheEnd(pos, size) == pos > size

LastPos(a) == (Size(arr[a]) - 1) % SizeMod

IsEmpty(a) == PastTheEnd(LastPos(a), Size(arr[a]))

\* see_stack_new: calloc for the stack may fail, or its array.
StackNew(a) == New(a, 0, FALSE) /\ UNCHANGED out

\* stack_destroy: the stack holds the only reference to its array.
StackDestroy(a) == Destroy(a) /\ UNCHANGED out

\* stack_push.
StackPush(a, v) == Add(a, v) /\ UNCHANGED out

\* stack_top.
StackTop(a) ==
  /\ Live(a) /\ ~ error
  /\ IF IsEmpty(a) THEN Returns("index") /\ UNCHANGED <<arr, refs, held, out>>
     ELSE /\ Get(a, LastPos(a))
          /\ out' = IF ret' = "success" THEN arr[a].elems[LastPos(a) + 1]
                    ELSE out

\* stack_pop.
StackPop(a) ==
  /\ Live(a) /\ ~ error
  /\ IF IsEmpty(a) THEN Returns("index") /\ UNCHANGED <<arr, refs, held>>
     ELSE Resize(a, LastPos(a))
  /\ UNCHANGED out

\* stack_copy: a new stack, whose empty array makes place for a copy.
StackCopy(a, b) == ~ Live(b) /\ Copy(a, b) /\ UNCHANGED out

StackInit == Init /\ out = NoArray

\* The calls are those that the stack makes of its array.
StackNext ==
  \/ \E a \in Arrays :
       \/ StackNew(a) /\ Is("new", <<a>>)
       \/ StackDestroy(a) /\ Is("destroy", <<a>>)
       \/ StackTop(a) /\ Is("get", <<a, LastPos(a)>>)
       \/ StackPop(a) /\ Is("resize", <<a, LastPos(a)>>)
       \/ Refused(a) /\ Is("refused", <<a>>) /\ UNCHANGED out
       \/ \E v \in Values : StackPush(a, v) /\ Is("add", <<a, v>>)
       \/ \E b \in Arrays : StackCopy(a, b) /\ Is("copy", <<a, b>>)
  \/ ClearError /\ OnItsOwn /\ UNCHANGED out
=============================================================================
