-------------------------------- MODULE Lists --------------------------------
(***************************************************************************)
(* What SeeDynamicArray promises to its clients: each array is a finite    *)
(* list, and each call that succeeds does to it what its name and its      *)
(* arguments say.  Memory, capacity and reference counts do not appear     *)
(* here; a call that fails leaves every list alone.                        *)
(*                                                                         *)
(* Two things are left open: whether a list that is resized to more        *)
(* elements gets any, and whether set tells the caller that there is no    *)
(* such position.  The code does neither (see ResizeGivesSize and Set in   *)
(* DynamicArray).                                                          *)
(***************************************************************************)
EXTENDS Integers, Sequences

CONSTANTS Arrays, Values, NoArray,
          Requests,   \* bound: the sizes and positions that clients ask for
          SizeMod,    \* sizes and positions are numbers below this
          MaxInsert   \* bound: elements inserted at once

VARIABLES list,       \* list[a]: a sequence of values, or NoArray
          ret,        \* what the last call returned
          call        \* which call that was, with its arguments

vars == <<list, ret, call>>

Is(name, args) == call' = <<name, args>>
Exists(a) == list[a] # NoArray

Init ==
  /\ list = [a \in Arrays |-> NoArray]
  /\ ret = "success"
  /\ call = <<"client", <<>>>>

Make(a) ==
  /\ Is("new", <<a>>)
  /\ ~ Exists(a)
  /\ list' = [list EXCEPT ![a] = <<>>]

Destroy(a) ==
  /\ Is("destroy", <<a>>)
  /\ Exists(a)
  /\ list' = [list EXCEPT ![a] = NoArray]

Append1(a, v) ==
  /\ Is("add", <<a, v>>)
  /\ Exists(a)
  /\ list' = [list EXCEPT ![a] = Append(@, v)]

\* Positions are those of C, from 0.
Replace(a, pos, v) ==
  /\ Is("set", <<a, pos, v>>)
  /\ Exists(a)
  /\ IF pos < Len(list[a]) THEN list' = [list EXCEPT ![a][pos + 1] = v]
     ELSE UNCHANGED list

\* The elements of s come between the first pos elements and the others.
InsertAfter(a, pos, s) ==
  /\ Is("insert", <<a, pos, s>>)
  /\ Exists(a)
  /\ pos \in 0 .. Len(list[a])
  /\ list' = [list EXCEPT ![a] =
                SubSeq(@, 1, pos) \o s \o SubSeq(@, pos + 1, Len(@))]

\* The first n elements remain; if there are fewer, all do.
Resize(a, n) ==
  /\ Is("resize", <<a, n>>)
  /\ Exists(a)
  /\ \/ /\ n <= Len(list[a])
        /\ list' = [list EXCEPT ![a] = SubSeq(@, 1, n)]
     \/ /\ n > Len(list[a])
        /\ \/ UNCHANGED list
           \/ \E s \in [1 .. n - Len(list[a]) -> Values] :
                list' = [list EXCEPT ![a] = @ \o s]

Duplicate(a, b) ==
  /\ Is("copy", <<a, b>>)
  /\ Exists(a)
  /\ list' = [list EXCEPT ![b] = list[a]]

\* The elements at the positions in range change places among each other.
Rearrange(a, range) ==
  /\ range \subseteq DOMAIN list[a]
  /\ \E p \in [range -> range] :
       /\ \A i, j \in range : p[i] = p[j] => i = j
       /\ list' = [list EXCEPT ![a] =
            [i \in DOMAIN @ |-> IF i \in range THEN @[p[i]] ELSE @[i]]]

Shuffle(a, start, end) ==
  /\ Is("shuffle_range", <<a, start, end>>)
  /\ Exists(a)
  /\ IF start < end THEN Rearrange(a, start + 1 .. end) ELSE UNCHANGED list

\* Nothing is to be seen of these, nor of a call that fails.
Hidden ==
  /\ \/ call'[1] \in {"reserve", "shrink_to_fit", "get", "client"}
     \/ ret' # "success"
  /\ UNCHANGED list

Success ==
  /\ ret' = "success"
  /\ \E a \in Arrays :
       \/ Make(a) \/ Destroy(a)
       \/ \E v \in Values : Append1(a, v)
       \/ \E pos \in Requests, v \in Values : Replace(a, pos, v)
       \/ \E pos \in Requests,
             s \in UNION {[1 .. n -> Values] : n \in 0 .. MaxInsert} :
            InsertAfter(a, pos, s)
       \/ \E n \in 0 .. SizeMod - 1 : Resize(a, n)
       \/ \E b \in Arrays : Duplicate(a, b)
       \/ \E start, end \in Requests : Shuffle(a, start, end)

Next == Success \/ Hidden

Spec == Init /\ [][Next]_vars
=============================================================================
