----------------------------- MODULE MCContainers -----------------------------
(* Small instance of Containers: two arrays, or stacks, of at most three
   elements of two bytes each, in an address space of 16 bytes.  Of the
   requests, 8 elements are 0 bytes modulo 16, and 9 elements are 2. *)
EXTENDS Containers, TLC

CONSTANTS a, b, x, y

MCArrays == {a, b}
MCValues == {x, y}
MCRequests == {0, 1, 2, 3, 8, 9, 15}

\* No operation tells one array, or one value, from another.
Symmetry == Permutations(MCArrays) \cup Permutations(MCValues)

\* No action reads call.
MCView == <<arr, refs, held, ret, error, out, use>>
=============================================================================
