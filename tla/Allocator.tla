----------------------------- MODULE Allocator ------------------------------
(***************************************************************************)
(* What memory/memory.c promises to a caller of malloc and free, without   *)
(* blocks and lists: a piece of the heap that nobody else holds.  A malloc *)
(* that returns 0 changes nothing here.                                    *)
(***************************************************************************)
EXTENDS Integers

CONSTANTS HeapSize, Sizes

VARIABLE held    \* the pieces handed out: address and the size asked for

Disjoint(r, q) == r.ptr + r.size <= q.ptr \/ q.ptr + q.size <= r.ptr

Init == held = {}

Alloc(ptr, size) ==
  /\ ptr + size <= HeapSize
  /\ \A q \in held : Disjoint([ptr |-> ptr, size |-> size], q)
  /\ held' = held \cup {[ptr |-> ptr, size |-> size]}

Release(r) == held' = held \ {r}

Next ==
  \/ \E ptr \in 0 .. HeapSize - 1, size \in Sizes : Alloc(ptr, size)
  \/ \E r \in held : Release(r)

Spec == Init /\ [][Next]_held
=============================================================================
