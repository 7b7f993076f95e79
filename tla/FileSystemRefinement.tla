------------------------ MODULE FileSystemRefinement ------------------------
(***************************************************************************)
(* The chains of blocks of filesystem.c and fat.c implement the list of    *)
(* texts of FileStore.                                                     *)
(***************************************************************************)
EXTENDS FileSystem, FiniteSets

(* Where k links lead from block b; None once the chain has ended.          *)
Reached(b) ==
  LET visit[k \in 0 .. MaxBlocks] ==
        IF k = 0 THEN b
        ELSE IF visit[k - 1] \in Blocks THEN fat_table[visit[k - 1]]
        ELSE None
  IN  visit

ChainOf(b) == {Reached(b)[k] : k \in 0 .. MaxBlocks} \cap Blocks

(* A byte of a file, as read_file comes to it.                              *)
TextOf(entry) ==
  [i \in 1 .. entry.size |->
     data_blocks[Reached(entry.start_block)[(i - 1) \div BlockSize]]
                [(i - 1) % BlockSize]]

BlocksFor(n) == (n + BlockSize - 1) \div BlockSize

(* fat.c:5, "-1 --> free block", and fat.h:10, free_block "marking when the *)
(* block is freed": between calls, a block that is not free is in a file.   *)
FreeOrInAFile ==
  call = Idle =>
    Blocks = FreeBlocks \cup
               UNION {ChainOf(files[i].start_block) : i \in FileSlots}

-----------------------------------------------------------------------------
(* The mapping.  Directory slots are taken in order and never given back,   *)
(* so the used ones are a prefix.  The blocks of a write in progress count  *)
(* as free until it returns.                                                *)
entriesBar ==
  [i \in 1 .. MaxFiles - Cardinality(FreeSlots) |->
     [name |-> files[i - 1].name, text |-> TextOf(files[i - 1])]]

freeBar ==
  Cardinality(FreeBlocks)
    + (IF call.op = "write" THEN BlocksFor(call.bytes_written) ELSE 0)

Store == INSTANCE FileStore WITH entries <- entriesBar, free <- freeBar

(* Every step of filesystem.c is a step of FileStore or changes nothing it  *)
(* shows: in particular a write that fails half way leaves every text as it *)
(* was, although it has linked and filled blocks, a call for one file never *)
(* changes the text of another, and read returns what was last written.     *)
ImplementsFileStore == Store!Spec
=============================================================================
