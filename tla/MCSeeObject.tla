----------------------------- MODULE MCSeeObject -----------------------------
(* Small instance of SeeObject: two threads with two pointer variables each,
   and three instances, of which two own one member each, so that a chain of
   three (SeeMsgBuffer, SeeDynamicArray, SeeMsgPart) can be built and destroyed
   from either thread. *)
EXTENDS SeeObject, TLC

CONSTANTS t1, t2, buffer, array, part, a1, a2, b1, parts, element

MCThreads == {t1, t2}
MCObjects == {buffer, array, part}
MCSlots == {a1, a2, b1, parts, element}
MCOwner == (a1 :> t1) @@ (a2 :> t1) @@ (b1 :> t2)
              @@ (parts :> buffer) @@ (element :> array)
MCRank == (buffer :> 2) @@ (array :> 1) @@ (part :> 0)
=============================================================================
