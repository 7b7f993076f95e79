-------------------------------- MODULE Heap --------------------------------
(***************************************************************************)
(* The kernel's heap (memory/memory.c): a list of blocks, each a header    *)
(* with its bytes behind it, first fit with splitting, and a pass over the *)
(* whole list that merges free neighbours after every free.                *)
(*                                                                         *)
(* The headers lie in the heap itself; `blocks` maps the addresses where   *)
(* one is in use to its contents.  The loops of os_malloc and os_free walk *)
(* the list, and one iteration is one step; `call` holds their variables.  *)
(* `held` is what the callers know: the pointers they have, with the sizes *)
(* they asked for.  They free such a pointer once, and nothing else.       *)
(*                                                                         *)
(* Sizes stay so far below the largest int that rounding them up does not  *)
(* overflow; what malloc does beyond is not modelled.                      *)
(***************************************************************************)
EXTENDS Integers

CONSTANTS
  HeapSize,   \* sizeof(heap_area)
  Header,     \* sizeof(MemoryBlock)
  Align,      \* 8: sizes are multiples of it, but for the last block's
  Sizes       \* the sizes that callers ask for

ASSUME HeapAssumption ==
  /\ Header \in Nat \ {0} /\ Align \in Nat \ {0}
  /\ HeapSize \in Nat /\ HeapSize > Header
  /\ Sizes \subseteq Int

VARIABLES blocks, call, held
vars == <<blocks, call, held>>

Null == -1
Idle == [op |-> "none"]
Head == 0          \* the first header is at the start of heap_area

Block == [size: Nat, free: BOOLEAN, next: Nat \cup {Null}]
Uninitialised == [a \in {} |-> Null]
End(a) == a + Header + blocks[a].size

Init ==
  /\ blocks = Uninitialised
  /\ call = Idle
  /\ held = {}

(* The definitions called Mutant... are no part of the model: each stands   *)
(* for a plausible bug in the definition that follows it, and shows, put in *)
(* its place, that a property notices.                                      *)
(* Here: rounding goes down.                                                *)
MutantAlign8(size) == (size \div Align) * Align

Align8(size) == ((size + Align - 1) \div Align) * Align

(* memory_init                                                              *)
OneBlock ==
  [a \in {Head} |-> [size |-> HeapSize - Header, free |-> TRUE, next |-> Null]]

-----------------------------------------------------------------------------
(* os_malloc.  A size that is not positive is answered with 0 at once, and  *)
(* nothing changes.                                                         *)
BeginMalloc(size) ==
  /\ call = Idle
  /\ size > 0
  /\ blocks' = IF blocks = Uninitialised THEN OneBlock ELSE blocks
  /\ call' = [op |-> "malloc", size |-> size, request |-> Align8(size),
              current |-> Head]
  /\ UNCHANGED held

(* Mistake: an exact fit is passed over.                                    *)
MutantFits(a) == blocks[a].free /\ blocks[a].size > call.request

Fits(a) == blocks[a].free /\ blocks[a].size >= call.request

SkipBlock ==
  /\ call.op = "malloc" /\ call.current # Null
  /\ ~Fits(call.current)
  /\ call' = [call EXCEPT !.current = blocks[@].next]
  /\ UNCHANGED <<blocks, held>>

WorthSplitting(a) == blocks[a].size >= call.request + Header + Align

(* Mistake: the rest is as long as if it had no header.                     *)
MutantSplit(a, rest) ==
  [b \in DOMAIN blocks \cup {rest} |->
     IF b = rest
     THEN [size |-> blocks[a].size - call.request, free |-> TRUE,
           next |-> blocks[a].next]
     ELSE IF b = a THEN [size |-> call.request, free |-> FALSE, next |-> rest]
     ELSE blocks[b]]

Split(a, rest) ==
  [b \in DOMAIN blocks \cup {rest} |->
     IF b = rest
     THEN [size |-> blocks[a].size - call.request - Header, free |-> TRUE,
           next |-> blocks[a].next]
     ELSE IF b = a THEN [size |-> call.request, free |-> FALSE, next |-> rest]
     ELSE blocks[b]]

TakeBlock ==
  LET a == call.current IN
  /\ call.op = "malloc" /\ a # Null
  /\ Fits(a)
  /\ blocks' = IF WorthSplitting(a) THEN Split(a, a + Header + call.request)
               ELSE [blocks EXCEPT ![a].free = FALSE]
  /\ held' = held \cup {[ptr |-> a + Header, size |-> call.size]}
  /\ call' = Idle

MallocFails ==
  /\ call.op = "malloc" /\ call.current = Null
  /\ call' = Idle
  /\ UNCHANGED <<blocks, held>>

-----------------------------------------------------------------------------
(* Mistake: merging starts at the block that is freed.                      *)
MutantBeginFree(r) ==
  /\ call = Idle
  /\ r \in held
  /\ blocks' = [blocks EXCEPT ![r.ptr - Header].free = TRUE]
  /\ held' = held \ {r}
  /\ call' = [op |-> "free", current |-> r.ptr - Header]

(* os_free                                                                  *)
BeginFree(r) ==
  /\ call = Idle
  /\ r \in held
  /\ blocks' = [blocks EXCEPT ![r.ptr - Header].free = TRUE]
  /\ held' = held \ {r}
  /\ call' = [op |-> "free", current |-> Head]

BothFree(a) ==
  blocks[a].next # Null /\ blocks[a].free /\ blocks[blocks[a].next].free

Merge(a) ==
  LET next == blocks[a].next IN
  [b \in DOMAIN blocks \ {next} |->
     IF b = a THEN [size |-> blocks[a].size + Header + blocks[next].size,
                    free |-> TRUE, next |-> blocks[next].next]
     ELSE blocks[b]]

MergeBlocks ==
  /\ call.op = "free"
  /\ BothFree(call.current)
  /\ blocks' = Merge(call.current)
  /\ UNCHANGED <<call, held>>

NextBlock ==
  /\ call.op = "free"
  /\ blocks[call.current].next # Null /\ ~BothFree(call.current)
  /\ call' = [call EXCEPT !.current = blocks[@].next]
  /\ UNCHANGED <<blocks, held>>

FreeReturns ==
  /\ call.op = "free"
  /\ blocks[call.current].next = Null
  /\ call' = Idle
  /\ UNCHANGED <<blocks, held>>

CallStep ==
  SkipBlock \/ TakeBlock \/ MallocFails \/ MergeBlocks \/ NextBlock \/ FreeReturns

Next ==
  \/ \E size \in Sizes : BeginMalloc(size)
  \/ \E r \in held : BeginFree(r)
  \/ CallStep

Spec == Init /\ [][Next]_vars

-----------------------------------------------------------------------------
(* Headers and pointers stay within the heap, and no size is negative.      *)
TypeOK ==
  /\ DOMAIN blocks \subseteq 0 .. HeapSize - 1
  /\ blocks \in [DOMAIN blocks -> Block]
  /\ held \subseteq [ptr: Nat, size: Sizes]
  /\ \/ call = Idle
     \/ call \in [op: {"malloc"}, size: Sizes, request: Nat,
                  current: DOMAIN blocks \cup {Null}]
     \/ call \in [op: {"free"}, current: DOMAIN blocks]

(* The list has all blocks in the order of their addresses, from the start  *)
(* of the heap to its end, without gaps and without overlaps: splitting and *)
(* merging lose no byte and use none twice.                                 *)
Tiled ==
  /\ blocks # Uninitialised => Head \in DOMAIN blocks
  /\ \A a \in DOMAIN blocks :
       IF blocks[a].next = Null THEN End(a) = HeapSize
       ELSE blocks[a].next = End(a) /\ End(a) \in DOMAIN blocks
  /\ \A a, b \in DOMAIN blocks : a < b => End(a) <= b

(* The pieces that callers hold are the blocks that are not free, each long *)
(* enough for the size asked for: none is given out twice, none is lost,    *)
(* and writing to one cannot reach a header.                                *)
HeldAreBlocks ==
  /\ \A r \in held :
       /\ r.ptr - Header \in DOMAIN blocks
       /\ ~blocks[r.ptr - Header].free
       /\ r.size \in 1 .. blocks[r.ptr - Header].size
  /\ \A r, q \in held : r.ptr = q.ptr => r = q
  /\ \A a \in DOMAIN blocks : ~blocks[a].free => \E r \in held : r.ptr = a + Header

(* Once os_free has returned no two neighbours are free: the heap does not  *)
(* fall to pieces, and with everything freed it is one block again.         *)
NoFreeNeighbours == call.op # "free" => \A a \in DOMAIN blocks : ~BothFree(a)

(* malloc returns 0 only if no free block is long enough.                   *)
FailsOnlyIfFull ==
  [][MallocFails => \A a \in DOMAIN blocks :
                      blocks[a].free => blocks[a].size < call.request]_vars

(* memory.c implements an allocator that hands out disjoint pieces.         *)
Abstract == INSTANCE Allocator
ImplementsAllocator == Abstract!Spec
=============================================================================
