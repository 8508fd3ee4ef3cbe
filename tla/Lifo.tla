--------------------------------- MODULE Lifo ---------------------------------
(***************************************************************************)
(* What SeeStack promises: the elements come back in the reverse of the    *)
(* order in which they were pushed, an empty stack is told apart from a    *)
(* failing one, and a copy lives a life of its own.                        *)
(***************************************************************************)
EXTENDS Integers, Sequences

CONSTANTS Stacks, Values, NoStack

VARIABLES lifo,    \* lifo[a]: the elements of the stack, the top first
          answer,  \* the result of the last call
          top      \* what the last successful call of Top gave, or NoStack

vars == <<lifo, answer, top>>

Init ==
  /\ lifo = [a \in Stacks |-> NoStack]
  /\ answer = "success"
  /\ top = NoStack

Exists(a) == lifo[a] # NoStack

Push(a, v) ==
  /\ Exists(a)
  /\ lifo' = [lifo EXCEPT ![a] = <<v>> \o @]
  /\ answer' = "success"
  /\ UNCHANGED top

Pop(a) ==
  /\ Exists(a) /\ lifo[a] # <<>>
  /\ lifo' = [lifo EXCEPT ![a] = Tail(@)]
  /\ answer' = "success"
  /\ UNCHANGED top

Top(a) ==
  /\ Exists(a) /\ lifo[a] # <<>>
  /\ top' = Head(lifo[a])
  /\ answer' = "success"
  /\ UNCHANGED lifo

\* Top or Pop of an empty stack.
Empty(a) ==
  /\ lifo[a] = <<>>
  /\ answer' = "index"
  /\ UNCHANGED <<lifo, top>>

\* A stack appears, empty or as a copy; a stack is destroyed.
Make(a) ==
  /\ ~ Exists(a)
  /\ \/ lifo' = [lifo EXCEPT ![a] = <<>>]
     \/ \E b \in Stacks : Exists(b) /\ lifo' = [lifo EXCEPT ![a] = lifo[b]]
  /\ answer' = "success"
  /\ UNCHANGED top

Destroy(a) ==
  /\ Exists(a)
  /\ lifo' = [lifo EXCEPT ![a] = NoStack]
  /\ answer' = "success"
  /\ UNCHANGED top

\* Out of memory, or the caller still holds an error; or the error is cleared.
Nothing ==
  /\ answer' \in {"runtime", "invalid", "success"}
  /\ UNCHANGED <<lifo, top>>

Next ==
  \/ \E a \in Stacks :
       Pop(a) \/ Top(a) \/ Empty(a) \/ Make(a) \/ Destroy(a)
         \/ \E v \in Values : Push(a, v)
  \/ Nothing

Spec == Init /\ [][Next]_vars
=============================================================================
