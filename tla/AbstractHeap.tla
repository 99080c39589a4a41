----------------------------- MODULE AbstractHeap -----------------------------
(***************************************************************************)
(* What any allocator for the kernel heap promises its callers: it hands   *)
(* out a region of the heap that is disjoint from every region handed out  *)
(* and not given back yet, or refuses; a region given back may be handed   *)
(* out again.                                                              *)
(***************************************************************************)
EXTENDS Integers

CONSTANTS HeapStart, HeapEnd, RequestSizes

VARIABLE held       \* <<first byte, length>> of each region handed out

\* Region r has no byte, and no start, in common with region s.
Apart(r, s) ==
    /\ r[1] # s[1]
    /\ r[1] + r[2] <= s[1] \/ s[1] + s[2] <= r[1]

Init == held = {}

Alloc(bytes) ==
    \E ptr \in HeapStart .. HeapEnd :
        /\ ptr + bytes <= HeapEnd
        /\ \A r \in held : Apart(<<ptr, bytes>>, r)
        /\ held' = held \cup {<<ptr, bytes>>}

Free(r) == held' = held \ {r}

Next ==
    \/ \E bytes \in RequestSizes : Alloc(bytes)
    \/ \E r \in held : Free(r)

Spec == Init /\ [][Next]_held
=============================================================================
