----------------------------- MODULE HeapProof ------------------------------
(***************************************************************************)
(* The blocks of the heap always lie end to end from its start to its end, *)
(* what callers hold is exactly the blocks in use, free neighbours are     *)
(* merged, malloc fails only for want of room, and Heap implements         *)
(* Allocator: for every heap and header size, alignment and set of sizes.  *)
(*                                                                         *)
(* Two facts about the walks make it inductive.  Behind os_free's current  *)
(* block nothing is left to merge, and behind os_malloc's no block is      *)
(* long enough: both rest on Tiled, by which the next block is the first   *)
(* one beyond the current.                                                 *)
(***************************************************************************)
EXTENDS Heap, TLAPS

(* The list exists once a call has begun.                                   *)
ListExists == call # Idle => Head \in DOMAIN blocks

(* Free neighbours are left only where os_free has still to come.           *)
MergedBehind ==
  \A a \in DOMAIN blocks :
    BothFree(a) => call.op = "free" /\ call.current <= a

(* What is asked for fits into what is looked for, and os_malloc has passed *)
(* no block by that would do.                                               *)
TooShortBehind ==
  call.op = "malloc" =>
    /\ call.size \in 1 .. call.request
    /\ \A a \in DOMAIN blocks :
         call.current = Null \/ a < call.current => ~Fits(a)

IInv ==
  /\ TypeOK /\ Tiled /\ HeldAreBlocks
  /\ ListExists /\ MergedBehind /\ TooShortBehind

(* Rounding up never takes anything away.                                   *)
LEMMA Align8Rounds ==
  ASSUME NEW size \in Nat
  PROVE  Align8(size) \in Nat /\ Align8(size) >= size
<1>. DEFINE x == size + Align - 1
            q == x \div Align
<1>1. x \in Nat /\ Align \in Nat \ {0}
  BY HeapAssumption
<1>2. q \in Nat /\ x = q * Align + (x % Align) /\ x % Align \in 0 .. Align - 1
  BY <1>1
<1>3. q * Align \in Nat
  BY <1>1, <1>2
<1>. HIDE DEF q
<1>4. q * Align >= size
  BY <1>1, <1>2, <1>3
<1>. QED
  BY <1>3, <1>4 DEF Align8, q

(* A block ends within the heap, and its next one is the first beyond it.   *)
LEMMA BlockFacts ==
  ASSUME TypeOK, Tiled, NEW a \in DOMAIN blocks
  PROVE  /\ a \in Nat /\ blocks[a].size \in Nat /\ blocks[a].free \in BOOLEAN
         /\ blocks[a].next \in Nat \cup {Null}
         /\ End(a) \in Nat /\ a + Header <= End(a) /\ End(a) <= HeapSize
         /\ blocks[a].next # Null =>
              blocks[a].next = End(a) /\ blocks[a].next \in DOMAIN blocks
         /\ blocks[a].next = Null => End(a) = HeapSize
         /\ \A b \in DOMAIN blocks :
              b > a => blocks[a].next # Null /\ b >= blocks[a].next
<1>1. /\ a \in Nat /\ a < HeapSize
      /\ blocks[a] \in Block
  BY HeapAssumption DEF TypeOK
<1>2. /\ blocks[a].size \in Nat /\ blocks[a].free \in BOOLEAN
      /\ blocks[a].next \in Nat \cup {Null}
  BY <1>1 DEF Block
<1>3. End(a) \in Nat /\ a + Header <= End(a)
  BY <1>1, <1>2, HeapAssumption DEF End
<1>4. /\ blocks[a].next # Null =>
           blocks[a].next = End(a) /\ blocks[a].next \in DOMAIN blocks
      /\ blocks[a].next = Null => End(a) = HeapSize
  BY DEF Tiled
<1>5. \A b \in DOMAIN blocks : b \in Nat /\ b < HeapSize
  BY HeapAssumption DEF TypeOK
<1>6. \A b \in DOMAIN blocks : b > a => b >= End(a)
  BY <1>1, <1>3, <1>5 DEF Tiled
<1>. QED
  BY <1>1, <1>2, <1>3, <1>4, <1>5, <1>6, HeapAssumption

LEMMA InitIInv == Init => IInv
BY HeapAssumption
   DEF Init, IInv, TypeOK, Tiled, HeldAreBlocks, ListExists, MergedBehind,
       TooShortBehind, Uninitialised, Idle

(* A call of malloc starts with the list as it is, or with a new one.       *)
LEMMA BeginMallocPreserves ==
  ASSUME IInv, NEW size \in Sizes, BeginMalloc(size)
  PROVE  IInv'
<1>1. /\ size \in Nat \ {0} /\ Align8(size) \in Nat /\ size \in 1 .. Align8(size)
      /\ call' = [op |-> "malloc", size |-> size, request |-> Align8(size),
                  current |-> Head]
      /\ call = Idle /\ held' = held
  BY HeapAssumption, Align8Rounds DEF BeginMalloc
<1>2. CASE blocks = Uninitialised
  <2>1. blocks' = OneBlock
    BY <1>2 DEF BeginMalloc
  <2>2. held = {}
    BY <1>2 DEF IInv, HeldAreBlocks, Uninitialised
  <2>3. TypeOK'
    BY <1>1, <2>1, <2>2, HeapAssumption DEF TypeOK, OneBlock, Block, Head
  <2>4. Tiled'
    BY <2>1, HeapAssumption DEF Tiled, End, OneBlock, Head
  <2>5. HeldAreBlocks'
    BY <1>1, <2>1, <2>2 DEF HeldAreBlocks, OneBlock
  <2>6. ListExists' /\ MergedBehind'
    BY <2>1 DEF ListExists, MergedBehind, BothFree, OneBlock
  <2>7. TooShortBehind'
    BY <1>1, <2>1 DEF TooShortBehind, OneBlock, Head, Null
  <2>. QED
    BY <2>3, <2>4, <2>5, <2>6, <2>7 DEF IInv
<1>3. CASE blocks # Uninitialised
  <2>1. blocks' = blocks /\ Head \in DOMAIN blocks
    BY <1>3 DEF BeginMalloc, IInv, Tiled
  <2>2. TypeOK'
    BY <1>1, <2>1 DEF IInv, TypeOK
  <2>3. Tiled' /\ HeldAreBlocks' /\ ListExists'
    BY <1>1, <2>1 DEF IInv, Tiled, HeldAreBlocks, ListExists, End
  <2>4. MergedBehind'
    BY <1>1, <2>1 DEF IInv, MergedBehind, BothFree, Idle
  <2>5. TooShortBehind'
    <3>1. \A a \in DOMAIN blocks : ~(a < Head)
      BY HeapAssumption DEF IInv, TypeOK, Head
    <3>. QED
      BY <1>1, <2>1, <3>1 DEF TooShortBehind, Head, Null
  <2>. QED
    BY <2>2, <2>3, <2>4, <2>5 DEF IInv
<1>. QED
  BY <1>2, <1>3

(* What a call's variables are while it runs.                               *)
LEMMA MallocCall ==
  ASSUME IInv, call.op = "malloc"
  PROVE  /\ call \in [op: {"malloc"}, size: Sizes, request: Nat,
                      current: DOMAIN blocks \cup {Null}]
         /\ call # Idle
BY DEF IInv, TypeOK, Idle

LEMMA FreeCall ==
  ASSUME IInv, call.op = "free"
  PROVE  /\ call \in [op: {"free"}, current: DOMAIN blocks]
         /\ call # Idle
BY DEF IInv, TypeOK, Idle

LEMMA SkipBlockPreserves ==
  ASSUME IInv, SkipBlock
  PROVE  IInv'
<1>. DEFINE a == call.current
<1>1. /\ call \in [op: {"malloc"}, size: Sizes, request: Nat,
                   current: DOMAIN blocks \cup {Null}]
      /\ call # Idle /\ a \in DOMAIN blocks /\ ~Fits(a)
      /\ blocks' = blocks /\ held' = held
      /\ call' = [call EXCEPT !.current = blocks[a].next]
  BY MallocCall DEF SkipBlock
<1>2. TypeOK /\ Tiled
  BY DEF IInv
<1>3. blocks[a].next \in DOMAIN blocks \cup {Null}
  BY <1>1, <1>2, BlockFacts
<1>4. /\ call' \in [op: {"malloc"}, size: Sizes, request: Nat,
                    current: DOMAIN blocks \cup {Null}]
      /\ call'.current = blocks[a].next /\ call'.request = call.request
      /\ call'.size = call.size /\ call'.op = "malloc"
  BY <1>1, <1>3
<1>5. TypeOK'
  BY <1>1, <1>2, <1>4 DEF TypeOK
<1>6. Tiled' /\ HeldAreBlocks' /\ ListExists'
  BY <1>1 DEF IInv, Tiled, HeldAreBlocks, ListExists, End
<1>7. MergedBehind'
  BY <1>1 DEF IInv, MergedBehind, BothFree
<1>8. TooShortBehind'
  <2>1. ASSUME NEW b \in DOMAIN blocks, blocks[a].next = Null \/ b < blocks[a].next
        PROVE  ~Fits(b)
    <3>1. a \in Nat /\ b \in Nat /\ blocks[a].next \in Nat \cup {Null} /\ a # Null
      BY <1>1, <1>2, BlockFacts DEF Null
    <3>2. ~(b > a)
      BY <1>1, <1>2, <2>1, <3>1, BlockFacts
    <3>3. b = a \/ b < a
      BY <3>1, <3>2
    <3>. QED
      BY <1>1, <3>1, <3>3 DEF IInv, TooShortBehind
  <2>. QED
    BY <1>1, <1>4, <2>1 DEF IInv, TooShortBehind, Fits
<1>. QED
  BY <1>5, <1>6, <1>7, <1>8 DEF IInv

LEMMA MallocFailsPreserves ==
  ASSUME IInv, MallocFails
  PROVE  IInv'
<1>1. /\ call' = Idle /\ blocks' = blocks /\ held' = held /\ call # Idle
      /\ call.op = "malloc"
  BY MallocCall DEF MallocFails
<1>. QED
  BY <1>1 DEF IInv, TypeOK, Tiled, End, HeldAreBlocks, ListExists, MergedBehind,
              BothFree, TooShortBehind, Idle

(* The piece that is handed out, whether or not the block was split.        *)
LEMMA HandOut ==
  ASSUME IInv, TakeBlock, NEW newSize \in Nat, newSize >= call.request,
         \A b \in DOMAIN blocks : b \in DOMAIN blocks',
         \A b \in DOMAIN blocks \ {call.current} : blocks'[b] = blocks[b],
         ~blocks'[call.current].free, blocks'[call.current].size = newSize,
         \A b \in DOMAIN blocks' \ DOMAIN blocks : blocks'[b].free
  PROVE  HeldAreBlocks'
<1>. DEFINE a == call.current
            new == [ptr |-> a + Header, size |-> call.size]
<1>1. /\ call \in [op: {"malloc"}, size: Sizes, request: Nat,
                   current: DOMAIN blocks \cup {Null}]
      /\ a \in DOMAIN blocks /\ blocks[a].free
      /\ held' = held \cup {new}
  BY MallocCall DEF TakeBlock, Fits
<1>2. a \in Nat /\ Header \in Nat /\ held \subseteq [ptr: Nat, size: Sizes]
  BY <1>1, HeapAssumption, BlockFacts DEF IInv, TypeOK
<1>3. call.size \in 1 .. newSize
  BY <1>1, HeapAssumption DEF IInv, TooShortBehind, TakeBlock
<1>4. \A r \in held :
        /\ r.ptr - Header \in DOMAIN blocks \ {a}
        /\ ~blocks[r.ptr - Header].free
        /\ r.size \in 1 .. blocks[r.ptr - Header].size
  BY <1>1 DEF IInv, HeldAreBlocks
<1>5. \A r \in held : r.ptr # new.ptr
  BY <1>2, <1>4
<1>6. new.ptr - Header = a
  BY <1>2
<1>7. \A r \in held' :
        /\ r.ptr - Header \in DOMAIN blocks'
        /\ ~blocks'[r.ptr - Header].free
        /\ r.size \in 1 .. blocks'[r.ptr - Header].size
  BY <1>1, <1>3, <1>4, <1>6
<1>8. \A r, q \in held' : r.ptr = q.ptr => r = q
  BY <1>1, <1>5 DEF IInv, HeldAreBlocks
<1>9. \A b \in DOMAIN blocks' : ~blocks'[b].free => \E r \in held' : r.ptr = b + Header
  <2>1. ASSUME NEW b \in DOMAIN blocks', ~blocks'[b].free, b # a
        PROVE  \E r \in held : r.ptr = b + Header
    BY <2>1 DEF IInv, HeldAreBlocks
  <2>2. new \in held' /\ new.ptr = a + Header
    BY <1>1
  <2>. QED
    BY <1>1, <2>1, <2>2
<1>. QED
  BY <1>7, <1>8, <1>9 DEF HeldAreBlocks

LEMMA TakeWholeBlock ==
  ASSUME IInv, TakeBlock, ~WorthSplitting(call.current)
  PROVE  IInv'
<1>. DEFINE a == call.current
<1>1. /\ call \in [op: {"malloc"}, size: Sizes, request: Nat,
                   current: DOMAIN blocks \cup {Null}]
      /\ a \in DOMAIN blocks /\ Fits(a) /\ call' = Idle
      /\ blocks' = [blocks EXCEPT ![a].free = FALSE]
      /\ held' = held \cup {[ptr |-> a + Header, size |-> call.size]}
  BY MallocCall DEF TakeBlock
<1>2. /\ TypeOK /\ Tiled
      /\ blocks \in [DOMAIN blocks -> Block] /\ Header \in Nat
  BY HeapAssumption DEF IInv, TypeOK
<1>3. /\ a \in Nat /\ blocks[a] \in Block /\ blocks[a].size \in Nat
      /\ blocks[a].size >= call.request /\ blocks[a].free
  BY <1>1, <1>2, BlockFacts DEF Fits
<1>4. /\ DOMAIN blocks' = DOMAIN blocks
      /\ \A b \in DOMAIN blocks :
           /\ blocks'[b] \in Block
           /\ blocks'[b].size = blocks[b].size /\ blocks'[b].next = blocks[b].next
           /\ blocks'[b].free => blocks[b].free
      /\ \A b \in DOMAIN blocks \ {a} : blocks'[b] = blocks[b]
      /\ ~blocks'[a].free
  BY <1>1, <1>2 DEF Block
<1>5. TypeOK'
  <2>1. blocks' \in [DOMAIN blocks' -> Block]
    BY <1>1, <1>4
  <2>2. [ptr |-> a + Header, size |-> call.size] \in [ptr: Nat, size: Sizes]
    BY <1>1, <1>2, <1>3
  <2>. QED
    BY <1>1, <1>2, <1>4, <2>1, <2>2 DEF TypeOK
<1>6. Tiled'
  <2>1. \A b \in DOMAIN blocks : End(b)' = End(b)
    BY <1>4 DEF End
  <2>2. blocks' # Uninitialised /\ Head \in DOMAIN blocks'
    BY <1>1, <1>4 DEF IInv, Tiled, Uninitialised
  <2>. QED
    BY <1>2, <1>4, <2>1, <2>2 DEF Tiled
<1>7. HeldAreBlocks'
  <2>1. /\ blocks[a].size \in Nat /\ blocks[a].size >= call.request
        /\ \A b \in DOMAIN blocks : b \in DOMAIN blocks'
        /\ ~blocks'[a].free /\ blocks'[a].size = blocks[a].size
        /\ \A b \in DOMAIN blocks' \ DOMAIN blocks : blocks'[b].free
    BY <1>1, <1>3, <1>4
  <2>. QED
    BY <1>4, <2>1, HandOut
<1>8. ListExists' /\ TooShortBehind'
  BY <1>1 DEF ListExists, TooShortBehind, Idle
<1>9. MergedBehind'
  <2>1. \A b \in DOMAIN blocks : ~BothFree(b)
    BY <1>1 DEF IInv, MergedBehind
  <2>2. \A b \in DOMAIN blocks : blocks[b].next # Null => blocks[b].next \in DOMAIN blocks
    BY <1>2, BlockFacts
  <2>. QED
    BY <1>4, <2>1, <2>2 DEF MergedBehind, BothFree
<1>. QED
  BY <1>5, <1>6, <1>7, <1>8, <1>9 DEF IInv

LEMMA TakeAndSplit ==
  ASSUME IInv, TakeBlock, WorthSplitting(call.current)
  PROVE  IInv'
<1>. DEFINE a == call.current
            rest == a + Header + call.request
<1>1. /\ call \in [op: {"malloc"}, size: Sizes, request: Nat,
                   current: DOMAIN blocks \cup {Null}]
      /\ a \in DOMAIN blocks /\ Fits(a) /\ call' = Idle
      /\ blocks' = Split(a, rest)
      /\ held' = held \cup {[ptr |-> a + Header, size |-> call.size]}
  BY MallocCall DEF TakeBlock
<1>2. /\ TypeOK /\ Tiled
      /\ blocks \in [DOMAIN blocks -> Block]
      /\ Header \in Nat \ {0} /\ Align \in Nat \ {0} /\ HeapSize \in Nat
  BY HeapAssumption DEF IInv, TypeOK
<1>3. /\ a \in Nat /\ blocks[a].size \in Nat /\ blocks[a].free
      /\ blocks[a].next \in Nat \cup {Null}
      /\ call.request \in Nat /\ rest \in Nat
      /\ blocks[a].size - call.request - Header \in Nat
      /\ a < rest /\ rest < End(a) /\ End(a) <= HeapSize
  <2>1. /\ a \in Nat /\ blocks[a].size \in Nat /\ End(a) <= HeapSize
        /\ blocks[a].next \in Nat \cup {Null}
    BY <1>1, <1>2, BlockFacts
  <2>. QED
    BY <1>1, <1>2, <2>1 DEF WorthSplitting, Fits, End
<1>4. \A b \in DOMAIN blocks :
        /\ b \in Nat /\ blocks[b].size \in Nat /\ End(b) \in Nat
        /\ b > a => b >= End(a) /\ b > rest
        /\ b < a => End(b) <= a
        /\ blocks[b].next # Null =>
              blocks[b].next = End(b) /\ blocks[b].next \in DOMAIN blocks
        /\ blocks[b].next = Null => End(b) = HeapSize
  <2>1. \A b \in DOMAIN blocks :
          /\ b \in Nat /\ blocks[b].size \in Nat /\ End(b) \in Nat
          /\ blocks[b].next # Null =>
                blocks[b].next = End(b) /\ blocks[b].next \in DOMAIN blocks
          /\ blocks[b].next = Null => End(b) = HeapSize
    BY <1>2, BlockFacts
  <2>2. \A b \in DOMAIN blocks : (b > a => b >= End(a)) /\ (b < a => End(b) <= a)
    BY <1>1, <1>2, <2>1 DEF Tiled
  <2>. QED
    BY <1>1, <1>3, <2>1, <2>2
<1>5. rest \notin DOMAIN blocks
  BY <1>3, <1>4
<1>6. /\ DOMAIN blocks' = DOMAIN blocks \cup {rest}
      /\ \A b \in DOMAIN blocks \ {a} : blocks'[b] = blocks[b]
      /\ blocks'[a] = [size |-> call.request, free |-> FALSE, next |-> rest]
      /\ blocks'[rest] = [size |-> blocks[a].size - call.request - Header,
                          free |-> TRUE, next |-> blocks[a].next]
  BY <1>1, <1>5 DEF Split
<1>7. TypeOK'
  <2>1. \A b \in DOMAIN blocks' : blocks'[b] \in Block /\ b \in 0 .. HeapSize - 1
    <3>1. rest \in 0 .. HeapSize - 1
      BY <1>1, <1>2, <1>3, <1>4
    <3>2. blocks'[a] \in Block /\ blocks'[rest] \in Block
      BY <1>3, <1>6 DEF Block
    <3>. QED
      BY <1>2, <1>6, <3>1, <3>2 DEF TypeOK
  <2>2. blocks' \in [DOMAIN blocks' -> Block]
    BY <1>1, <1>6, <2>1 DEF Split
  <2>3. [ptr |-> a + Header, size |-> call.size] \in [ptr: Nat, size: Sizes]
    BY <1>1, <1>2, <1>3
  <2>. QED
    BY <1>1, <1>2, <2>1, <2>2, <2>3 DEF TypeOK
<1>8. Tiled'
  <2>. DEFINE E(b) == b + Header + blocks'[b].size
  <2>1. \A b \in DOMAIN blocks \ {a} : E(b) = End(b)
    BY <1>6 DEF End
  <2>2. E(a) = rest
    BY <1>1, <1>6
  <2>3. E(rest) = End(a)
    BY <1>2, <1>3, <1>6 DEF End
  <2>4. Head \in DOMAIN blocks'
    BY <1>1, <1>6 DEF IInv, Tiled, Uninitialised
  <2>5. \A b \in DOMAIN blocks' : E(b) = b + Header + blocks'[b].size
    OBVIOUS
  <2>. HIDE DEF E
  <2>6. \A b \in DOMAIN blocks' :
          IF blocks'[b].next = Null THEN E(b) = HeapSize
          ELSE blocks'[b].next = E(b) /\ E(b) \in DOMAIN blocks'
    <3>1. ASSUME NEW b \in DOMAIN blocks \ {a}
          PROVE  IF blocks'[b].next = Null THEN E(b) = HeapSize
                 ELSE blocks'[b].next = E(b) /\ E(b) \in DOMAIN blocks'
      BY <1>4, <1>6, <2>1
    <3>2. blocks'[a].next = E(a) /\ E(a) \in DOMAIN blocks' /\ E(a) # Null
      BY <1>3, <1>6, <2>2 DEF Null
    <3>3. IF blocks'[rest].next = Null THEN E(rest) = HeapSize
          ELSE blocks'[rest].next = E(rest) /\ E(rest) \in DOMAIN blocks'
      BY <1>1, <1>4, <1>6, <2>3
    <3>. QED
      BY <1>6, <3>1, <3>2, <3>3
  <2>7. \A b, c \in DOMAIN blocks' : b < c => E(b) <= c
    <3>1. ASSUME NEW b \in DOMAIN blocks, NEW c \in DOMAIN blocks, b < c
          PROVE  E(b) <= c
      <4>1. CASE b = a
        BY <1>1, <1>3, <1>4, <2>2, <3>1, <4>1
      <4>2. CASE b # a
        BY <1>2, <1>4, <2>1, <3>1, <4>2 DEF Tiled
      <4>. QED
        BY <4>1, <4>2
    <3>2. ASSUME NEW b \in DOMAIN blocks, b < rest
          PROVE  E(b) <= rest
      <4>1. CASE b = a
        BY <1>3, <2>2, <4>1
      <4>2. CASE b # a
        BY <1>1, <1>3, <1>4, <2>1, <3>2, <4>2
      <4>. QED
        BY <4>1, <4>2
    <3>3. ASSUME NEW c \in DOMAIN blocks, rest < c
          PROVE  E(rest) <= c
      BY <1>1, <1>3, <1>4, <2>3, <3>3
    <3>4. ~(rest < rest)
      BY <1>3
    <3>. QED
      BY <1>6, <3>1, <3>2, <3>3, <3>4
  <2>. QED
    BY <2>4, <2>5, <2>6, <2>7 DEF Tiled, End
<1>9. HeldAreBlocks'
  <2>1. /\ call.request \in Nat /\ call.request >= call.request
        /\ \A b \in DOMAIN blocks : b \in DOMAIN blocks'
        /\ ~blocks'[a].free /\ blocks'[a].size = call.request
        /\ \A b \in DOMAIN blocks' \ DOMAIN blocks : blocks'[b].free
    BY <1>3, <1>6
  <2>. QED
    BY <1>6, <2>1, HandOut
<1>10. ListExists' /\ TooShortBehind'
  BY <1>1 DEF ListExists, TooShortBehind, Idle
<1>11. MergedBehind'
  <2>1. \A b \in DOMAIN blocks : ~BothFree(b)
    BY <1>1 DEF IInv, MergedBehind
  <2>2. ASSUME NEW b \in DOMAIN blocks', blocks'[b].next # Null,
               blocks'[b].free, blocks'[blocks'[b].next].free
        PROVE  FALSE
    <3>1. b # a
      BY <1>6, <2>2
    <3>2. CASE b = rest
      BY <1>1, <1>3, <1>4, <1>6, <2>1, <2>2, <3>2 DEF BothFree
    <3>3. CASE b \in DOMAIN blocks \ {a}
      BY <1>4, <1>5, <1>6, <2>1, <2>2, <3>3 DEF BothFree
    <3>. QED
      BY <1>6, <3>1, <3>2, <3>3
  <2>. QED
    BY <2>2 DEF MergedBehind, BothFree
<1>. QED
  BY <1>7, <1>8, <1>9, <1>10, <1>11 DEF IInv

-----------------------------------------------------------------------------
LEMMA BeginFreePreserves ==
  ASSUME IInv, NEW r \in held, BeginFree(r)
  PROVE  IInv'
<1>. DEFINE a == r.ptr - Header
<1>1. /\ call = Idle /\ call' = [op |-> "free", current |-> Head]
      /\ blocks' = [blocks EXCEPT ![a].free = TRUE]
      /\ held' = held \ {r}
  BY DEF BeginFree
<1>2. /\ TypeOK /\ Tiled
      /\ blocks \in [DOMAIN blocks -> Block] /\ Header \in Nat
      /\ a \in DOMAIN blocks /\ r \in [ptr: Nat, size: Sizes]
      /\ Head \in DOMAIN blocks
  BY HeapAssumption DEF IInv, TypeOK, HeldAreBlocks, Tiled, Uninitialised
<1>3. /\ DOMAIN blocks' = DOMAIN blocks
      /\ \A b \in DOMAIN blocks :
           /\ blocks'[b] \in Block
           /\ blocks'[b].size = blocks[b].size /\ blocks'[b].next = blocks[b].next
      /\ \A b \in DOMAIN blocks \ {a} : blocks'[b] = blocks[b]
      /\ blocks'[a].free
  BY <1>1, <1>2 DEF Block
<1>4. TypeOK'
  <2>1. blocks' \in [DOMAIN blocks' -> Block]
    BY <1>1, <1>3
  <2>. QED
    BY <1>1, <1>2, <1>3, <2>1 DEF TypeOK
<1>5. Tiled'
  <2>1. \A b \in DOMAIN blocks : b + Header + blocks'[b].size = End(b)
    BY <1>3 DEF End
  <2>. QED
    BY <1>2, <1>3, <2>1 DEF Tiled, End
<1>6. HeldAreBlocks'
  <2>1. \A q \in held' : q \in held /\ q.ptr \in Nat /\ q.ptr - Header # a
    BY <1>1, <1>2 DEF IInv, TypeOK, HeldAreBlocks
  <2>2. \A q \in held' :
          /\ q.ptr - Header \in DOMAIN blocks'
          /\ ~blocks'[q.ptr - Header].free
          /\ q.size \in 1 .. blocks'[q.ptr - Header].size
    BY <1>3, <2>1 DEF IInv, HeldAreBlocks
  <2>3. \A q, p \in held' : q.ptr = p.ptr => q = p
    BY <2>1 DEF IInv, HeldAreBlocks
  <2>4. ASSUME NEW b \in DOMAIN blocks', ~blocks'[b].free
        PROVE  \E q \in held' : q.ptr = b + Header
    <3>1. b # a /\ b \in DOMAIN blocks /\ ~blocks[b].free /\ b \in Nat
      BY <1>2, <1>3, <2>4, BlockFacts
    <3>2. PICK q \in held : q.ptr = b + Header
      BY <3>1 DEF IInv, HeldAreBlocks
    <3>3. q # r
      BY <1>2, <3>1, <3>2
    <3>. QED
      BY <1>1, <3>2, <3>3
  <2>. QED
    BY <2>2, <2>3, <2>4 DEF HeldAreBlocks
<1>7. ListExists' /\ TooShortBehind'
  BY <1>1, <1>2, <1>3 DEF ListExists, TooShortBehind
<1>8. MergedBehind'
  <2>1. \A b \in DOMAIN blocks : Head <= b
    BY <1>2, BlockFacts DEF Head
  <2>. QED
    BY <1>1, <1>3, <2>1 DEF MergedBehind
<1>. QED
  BY <1>4, <1>5, <1>6, <1>7, <1>8 DEF IInv

LEMMA MergeBlocksPreserves ==
  ASSUME IInv, MergeBlocks
  PROVE  IInv'
<1>. DEFINE a == call.current
            next == blocks[a].next
<1>1. /\ call \in [op: {"free"}, current: DOMAIN blocks] /\ a \in DOMAIN blocks
      /\ BothFree(a) /\ blocks' = Merge(a)
      /\ call' = call /\ held' = held
  BY FreeCall DEF MergeBlocks
<1>2. /\ TypeOK /\ Tiled
      /\ blocks \in [DOMAIN blocks -> Block] /\ Header \in Nat \ {0}
  BY HeapAssumption DEF IInv, TypeOK
<1>3. /\ a \in Nat /\ next \in DOMAIN blocks /\ next \in Nat /\ next = End(a)
      /\ a < next /\ blocks[a].free /\ blocks[next].free
      /\ blocks[a].size \in Nat /\ blocks[next].size \in Nat
      /\ blocks[next].next \in Nat \cup {Null} /\ next # Null
  BY <1>1, <1>2, BlockFacts DEF BothFree
<1>4. \A b \in DOMAIN blocks :
        /\ b \in Nat /\ End(b) \in Nat
        /\ b > a => b >= next
        /\ b < a => End(b) <= a
        /\ b > next => End(next) <= b
        /\ blocks[b].next # Null =>
              blocks[b].next = End(b) /\ blocks[b].next \in DOMAIN blocks
        /\ blocks[b].next = Null => End(b) = HeapSize
  <2>1. \A b \in DOMAIN blocks :
          /\ b \in Nat /\ End(b) \in Nat
          /\ blocks[b].next # Null =>
                blocks[b].next = End(b) /\ blocks[b].next \in DOMAIN blocks
          /\ blocks[b].next = Null => End(b) = HeapSize
    BY <1>2, BlockFacts
  <2>. QED
    BY <1>1, <1>2, <1>3, <2>1 DEF Tiled
<1>5. /\ DOMAIN blocks' = DOMAIN blocks \ {next}
      /\ \A b \in DOMAIN blocks' \ {a} : blocks'[b] = blocks[b]
      /\ blocks'[a] = [size |-> blocks[a].size + Header + blocks[next].size,
                       free |-> TRUE, next |-> blocks[next].next]
      /\ a \in DOMAIN blocks'
  BY <1>1, <1>3 DEF Merge
<1>6. \A b \in DOMAIN blocks' \ {a} :
        b \in DOMAIN blocks /\ blocks[b].next # next
  <2>1. ASSUME NEW b \in DOMAIN blocks, b # a, b # next, blocks[b].next = next
        PROVE  FALSE
    <3>1. End(b) = next /\ b < End(b)
      BY <1>2, <1>3, <2>1, BlockFacts
    <3>. QED
      BY <1>1, <1>3, <1>4, <2>1, <3>1
  <2>. QED
    BY <1>5, <2>1
<1>7. TypeOK'
  <2>1. blocks'[a] \in Block
    BY <1>2, <1>3, <1>5 DEF Block
  <2>2. \A b \in DOMAIN blocks' : blocks'[b] \in Block
    BY <1>2, <1>5, <2>1
  <2>3. blocks' \in [DOMAIN blocks' -> Block]
    BY <1>1, <1>5, <2>2 DEF Merge
  <2>4. call \in [op: {"free"}, current: DOMAIN blocks']
    BY <1>1, <1>5
  <2>. QED
    BY <1>1, <1>2, <1>5, <2>3, <2>4 DEF TypeOK
<1>8. Tiled'
  <2>. DEFINE E(b) == b + Header + blocks'[b].size
  <2>1. \A b \in DOMAIN blocks' \ {a} : E(b) = End(b)
    BY <1>5 DEF End
  <2>2. E(a) = End(next)
    BY <1>2, <1>3, <1>5 DEF End
  <2>3. \A b \in DOMAIN blocks' : E(b) = b + Header + blocks'[b].size
    OBVIOUS
  <2>4. Head \in DOMAIN blocks'
    BY <1>1, <1>2, <1>3, <1>4, <1>5 DEF Tiled, Uninitialised, Head
  <2>. HIDE DEF E
  <2>5. \A b \in DOMAIN blocks' :
          IF blocks'[b].next = Null THEN E(b) = HeapSize
          ELSE blocks'[b].next = E(b) /\ E(b) \in DOMAIN blocks'
    <3>1. ASSUME NEW b \in DOMAIN blocks' \ {a}
          PROVE  IF blocks'[b].next = Null THEN E(b) = HeapSize
                 ELSE blocks'[b].next = E(b) /\ E(b) \in DOMAIN blocks'
      BY <1>4, <1>5, <1>6, <2>1
    <3>2. blocks[next].next # next
      BY <1>2, <1>3, BlockFacts
    <3>3. IF blocks'[a].next = Null THEN E(a) = HeapSize
          ELSE blocks'[a].next = E(a) /\ E(a) \in DOMAIN blocks'
      BY <1>3, <1>4, <1>5, <2>2, <3>2
    <3>. QED
      BY <3>1, <3>3
  <2>6. \A b, c \in DOMAIN blocks' : b < c => E(b) <= c
    <3>1. ASSUME NEW c \in DOMAIN blocks', a < c
          PROVE  E(a) <= c
      <4>1. c > next
        BY <1>3, <1>4, <1>5, <3>1
      <4>. QED
        BY <1>4, <1>5, <2>2, <3>1, <4>1
    <3>2. ASSUME NEW b \in DOMAIN blocks' \ {a}, NEW c \in DOMAIN blocks', b < c
          PROVE  E(b) <= c
      BY <1>2, <1>5, <2>1, <3>2 DEF Tiled
    <3>. QED
      BY <3>1, <3>2
  <2>. QED
    BY <2>3, <2>4, <2>5, <2>6 DEF Tiled, End
<1>9. HeldAreBlocks'
  <2>1. \A r \in held : r.ptr - Header # a /\ r.ptr - Header # next
    BY <1>3 DEF IInv, HeldAreBlocks
  <2>2. \A r \in held :
          /\ r.ptr - Header \in DOMAIN blocks'
          /\ blocks'[r.ptr - Header] = blocks[r.ptr - Header]
    BY <1>5, <2>1 DEF IInv, HeldAreBlocks
  <2>3. \A b \in DOMAIN blocks' : ~blocks'[b].free => b \in DOMAIN blocks /\ ~blocks[b].free
    BY <1>5
  <2>. QED
    BY <1>1, <2>2, <2>3 DEF IInv, HeldAreBlocks
<1>10. ListExists' /\ TooShortBehind'
  BY <1>1, <1>3, <1>4, <1>5 DEF IInv, ListExists, Tiled, Uninitialised, TooShortBehind, Head
<1>11. MergedBehind'
  <2>1. ASSUME NEW b \in DOMAIN blocks' \ {a}, BothFree(b)'
        PROVE  BothFree(b)
    BY <1>3, <1>4, <1>5, <1>6, <2>1 DEF BothFree
  <2>2. a <= a
    BY <1>3
  <2>. QED
    BY <1>1, <1>5, <2>1, <2>2 DEF IInv, MergedBehind
<1>. QED
  BY <1>7, <1>8, <1>9, <1>10, <1>11 DEF IInv

(* Once the last pair of free neighbours is behind os_free it can return.   *)
LEMMA NextBlockPreserves ==
  ASSUME IInv, NextBlock
  PROVE  IInv'
<1>. DEFINE a == call.current
<1>1. /\ call \in [op: {"free"}, current: DOMAIN blocks] /\ a \in DOMAIN blocks
      /\ ~BothFree(a) /\ blocks[a].next # Null
      /\ call' = [call EXCEPT !.current = blocks[a].next]
      /\ blocks' = blocks /\ held' = held
  BY FreeCall DEF NextBlock
<1>2. TypeOK /\ Tiled
  BY DEF IInv
<1>3. /\ blocks[a].next \in DOMAIN blocks
      /\ call' = [op |-> "free", current |-> blocks[a].next]
  BY <1>1, <1>2, BlockFacts
<1>4. TypeOK' /\ Tiled' /\ HeldAreBlocks' /\ ListExists' /\ TooShortBehind'
  BY <1>1, <1>2, <1>3
     DEF IInv, TypeOK, Tiled, End, HeldAreBlocks, ListExists, TooShortBehind,
         Uninitialised, Idle
<1>5. ASSUME NEW b \in DOMAIN blocks, BothFree(b)
      PROVE  blocks[a].next <= b
  <2>1. a <= b /\ a # b /\ a \in Nat /\ b \in Nat
    BY <1>1, <1>2, <1>5, BlockFacts DEF IInv, MergedBehind
  <2>. QED
    BY <1>1, <1>2, <2>1, BlockFacts
<1>6. MergedBehind'
  BY <1>1, <1>3, <1>5 DEF MergedBehind, BothFree
<1>. QED
  BY <1>4, <1>6 DEF IInv

LEMMA FreeReturnsPreserves ==
  ASSUME IInv, FreeReturns
  PROVE  IInv'
<1>1. /\ call \in [op: {"free"}, current: DOMAIN blocks]
      /\ call.current \in DOMAIN blocks /\ blocks[call.current].next = Null
      /\ call' = Idle /\ blocks' = blocks /\ held' = held
  BY FreeCall DEF FreeReturns
<1>2. TypeOK /\ Tiled
  BY DEF IInv
<1>3. \A b \in DOMAIN blocks : ~BothFree(b)
  <2>1. ASSUME NEW b \in DOMAIN blocks, BothFree(b)
        PROVE  FALSE
    <3>1. call.current <= b /\ call.current # b /\ call.current \in Nat /\ b \in Nat
      BY <1>1, <1>2, <2>1, BlockFacts DEF IInv, MergedBehind, BothFree
    <3>. QED
      BY <1>1, <1>2, <3>1, BlockFacts
  <2>. QED
    BY <2>1
<1>. QED
  BY <1>1, <1>2, <1>3
     DEF IInv, TypeOK, Tiled, End, HeldAreBlocks, ListExists, MergedBehind,
         BothFree, TooShortBehind, Idle

LEMMA NextIInv == IInv /\ [Next]_vars => IInv'
<1>. SUFFICES ASSUME IInv, [Next]_vars PROVE IInv'
  OBVIOUS
<1>1. CASE UNCHANGED vars
  BY <1>1 DEF vars, IInv, TypeOK, Tiled, End, HeldAreBlocks, ListExists,
              MergedBehind, BothFree, TooShortBehind, Fits
<1>2. CASE \E size \in Sizes : BeginMalloc(size)
  BY <1>2, BeginMallocPreserves
<1>3. CASE \E r \in held : BeginFree(r)
  BY <1>3, BeginFreePreserves
<1>4. CASE TakeBlock
  BY <1>4, TakeWholeBlock, TakeAndSplit
<1>5. CASE SkipBlock
  BY <1>5, SkipBlockPreserves
<1>6. CASE MallocFails
  BY <1>6, MallocFailsPreserves
<1>7. CASE MergeBlocks
  BY <1>7, MergeBlocksPreserves
<1>8. CASE NextBlock
  BY <1>8, NextBlockPreserves
<1>9. CASE FreeReturns
  BY <1>9, FreeReturnsPreserves
<1>. QED
  BY <1>1, <1>2, <1>3, <1>4, <1>5, <1>6, <1>7, <1>8, <1>9 DEF Next, CallStep

LEMMA SpecIInv == Spec => []IInv
<1>. QED
  BY InitIInv, NextIInv, PTL DEF Spec

-----------------------------------------------------------------------------
(* Headers and pointers stay within the heap, and no size is negative.      *)
THEOREM SpecTypeOK == Spec => []TypeOK
<1>1. IInv => TypeOK
  BY DEF IInv
<1>. QED
  BY <1>1, SpecIInv, PTL

(* Splitting and merging lose no byte of the heap and use none twice.       *)
THEOREM SpecTiled == Spec => []Tiled
<1>1. IInv => Tiled
  BY DEF IInv
<1>. QED
  BY <1>1, SpecIInv, PTL

(* What callers hold is exactly the blocks in use, each long enough.        *)
THEOREM SpecHeldAreBlocks == Spec => []HeldAreBlocks
<1>1. IInv => HeldAreBlocks
  BY DEF IInv
<1>. QED
  BY <1>1, SpecIInv, PTL

(* Between calls no two neighbours are free.                                *)
THEOREM SpecNoFreeNeighbours == Spec => []NoFreeNeighbours
<1>1. IInv => NoFreeNeighbours
  BY DEF IInv, MergedBehind, NoFreeNeighbours
<1>. QED
  BY <1>1, SpecIInv, PTL

(* malloc returns 0 only if no free block is long enough.                   *)
THEOREM SpecFailsOnlyIfFull == Spec => FailsOnlyIfFull
<1>1. ASSUME IInv, [Next]_vars
      PROVE  [MallocFails => \A a \in DOMAIN blocks :
                               blocks[a].free => blocks[a].size < call.request]_vars
  <2>1. SUFFICES ASSUME MallocFails, NEW a \in DOMAIN blocks, blocks[a].free
                 PROVE  blocks[a].size < call.request
    OBVIOUS
  <2>2. ~Fits(a)
    BY <1>1, <2>1 DEF IInv, TooShortBehind, MallocFails
  <2>3. blocks[a].size \in Nat /\ call.request \in Nat
    BY <1>1, <2>1, BlockFacts, MallocCall DEF IInv, MallocFails
  <2>. QED
    BY <2>1, <2>2, <2>3 DEF Fits
<1>. QED
  BY <1>1, SpecIInv, PTL DEF Spec, FailsOnlyIfFull

-----------------------------------------------------------------------------
(* The piece handed out overlaps none that is held: both lie within their   *)
(* blocks, and the blocks are tiled.                                        *)
LEMMA TakeBlockAllocates ==
  ASSUME IInv, TakeBlock
  PROVE  Abstract!Next
<1>. DEFINE a == call.current
            ptr == a + Header
            new == [ptr |-> ptr, size |-> call.size]
<1>1. /\ call \in [op: {"malloc"}, size: Sizes, request: Nat,
                   current: DOMAIN blocks \cup {Null}]
      /\ a \in DOMAIN blocks /\ blocks[a].free /\ blocks[a].size >= call.request
      /\ held' = held \cup {new}
  BY MallocCall DEF TakeBlock, Fits
<1>2. /\ TypeOK /\ Tiled /\ Header \in Nat \ {0} /\ HeapSize \in Nat
      /\ held \subseteq [ptr: Nat, size: Sizes] /\ Sizes \subseteq Int
  BY HeapAssumption DEF IInv, TypeOK
<1>3. /\ a \in Nat /\ blocks[a].size \in Nat /\ End(a) <= HeapSize
      /\ End(a) = a + Header + blocks[a].size
      /\ call.size \in Int /\ 1 <= call.size /\ call.size <= call.request
  BY <1>1, <1>2, BlockFacts DEF IInv, TooShortBehind, TakeBlock, End
<1>4. /\ ptr \in 0 .. HeapSize - 1 /\ ptr + call.size <= HeapSize
      /\ ptr + call.size <= End(a)
  BY <1>1, <1>2, <1>3
<1>5. ASSUME NEW q \in held
      PROVE  Abstract!Disjoint(new, q)
  <2>. DEFINE b == q.ptr - Header
  <2>1. /\ b \in DOMAIN blocks /\ ~blocks[b].free
        /\ q.size \in 1 .. blocks[b].size
        /\ q.ptr \in Nat
    BY <1>2 DEF IInv, HeldAreBlocks
  <2>2. b \in Nat /\ blocks[b].size \in Nat /\ End(b) = b + Header + blocks[b].size
    BY <1>2, <2>1, BlockFacts DEF End
  <2>3. q.ptr + q.size <= End(b) /\ b <= q.ptr /\ a <= ptr
    BY <1>2, <1>3, <2>1, <2>2
  <2>4. End(a) <= b \/ End(b) <= a
    BY <1>1, <1>2, <1>3, <2>1, <2>2 DEF Tiled
  <2>5. ptr + call.size <= q.ptr \/ q.ptr + q.size <= ptr
    BY <1>1, <1>2, <1>3, <1>4, <2>1, <2>2, <2>3, <2>4
  <2>. QED
    BY <2>5 DEF Abstract!Disjoint
<1>6. Abstract!Alloc(ptr, call.size)
  BY <1>1, <1>4, <1>5 DEF Abstract!Alloc
<1>. QED
  BY <1>1, <1>4, <1>6 DEF Abstract!Next

(* memory.c implements Allocator: the steps of the walks are stutters, the  *)
(* one that takes a block is Alloc, and the first of os_free is Release.    *)
THEOREM SpecImplementsAllocator == Spec => ImplementsAllocator
<1>1. Init => Abstract!Init
  BY DEF Init, Abstract!Init
<1>2. ASSUME IInv, [Next]_vars
      PROVE  [Abstract!Next]_held
  <2>1. CASE \E r \in held : BeginFree(r)
    BY <2>1 DEF BeginFree, Abstract!Next, Abstract!Release
  <2>2. CASE TakeBlock
    BY <1>2, <2>2, TakeBlockAllocates
  <2>3. CASE UNCHANGED held
    BY <2>3
  <2>. QED
    BY <1>2, <2>1, <2>2, <2>3
       DEF Next, CallStep, vars, BeginMalloc, SkipBlock, MallocFails,
           MergeBlocks, NextBlock, FreeReturns
<1>. QED
  BY <1>1, <1>2, SpecIInv, PTL DEF Spec, ImplementsAllocator, Abstract!Spec
=============================================================================
