----------------------------- MODULE FileSystem -----------------------------
(***************************************************************************)
(* The in-memory FAT file system (filesystem/filesystem.c over             *)
(* filesystem/fat.c).                                                      *)
(*                                                                         *)
(* write_file and read_file loop over the blocks of a file; one iteration  *)
(* is one step here, and `call` holds the local variables of the call that *)
(* is running.  A shell command runs to its end inside the keyboard        *)
(* interrupt, so there is at most one.  `reply` is the result of the last  *)
(* call that returned.                                                     *)
(*                                                                         *)
(* A name is whatever was typed; Stored[n] is what create_file keeps of it *)
(* (its first MAX_FILENAME - 1 characters).  free_block() has no caller in *)
(* the repository and is not a step of this module.                        *)
(***************************************************************************)
EXTENDS Integers, Sequences

CONSTANTS
  MaxBlocks,   \* MAX_BLOCKS
  BlockSize,   \* BLOCK_SIZE
  MaxFiles,    \* MAX_FILES
  Names,       \* the names given on the command line
  Stored,      \* the part of each name that fits in a file_entry
  NoName,      \* the empty name of a free file_entry
  Bytes,       \* the bytes of a text
  NUL,         \* the byte a block holds before anything is written to it
  Data         \* the texts given to write_file

ASSUME FileSystemAssumption ==
  /\ MaxBlocks \in Nat \ {0}
  /\ BlockSize \in Nat \ {0}
  /\ MaxFiles \in Nat \ {0}
  /\ Stored \in [Names -> Names]
  /\ NoName \notin Names
  /\ NUL \notin Bytes
  /\ Data \subseteq Seq(Bytes)

VARIABLES
  fat_table,     \* per block: Free, EndOfFile or the next block of its file
  data_blocks,
  files,         \* the directory
  call,          \* the call in progress and its local variables
  reply          \* what the last call returned

vars == <<fat_table, data_blocks, files, call, reply>>

Blocks == 0 .. MaxBlocks - 1
FileSlots == 0 .. MaxFiles - 1
Offsets == 0 .. BlockSize - 1
Free == -1
EndOfFile == -2
None == -1          \* "no block": the start of an empty file, a failed search

Entry == [name: Names \cup {NoName}, size: Nat, start_block: Blocks \cup {None}]
NoEntry == [name |-> NoName, size |-> 0, start_block |-> None]
Idle == [op |-> "none"]
Reply(op, name, ok, bytes) ==
  [op |-> op, name |-> name, ok |-> ok, bytes |-> bytes]

Init ==
  /\ fat_table = [b \in Blocks |-> Free]
  /\ data_blocks = [b \in Blocks |-> [i \in Offsets |-> NUL]]
  /\ files = [i \in FileSlots |-> NoEntry]
  /\ call = Idle
  /\ reply = Reply("none", NoName, TRUE, <<>>)

Lowest(i, S) == i \in S /\ \A j \in S : i <= j
FreeBlocks == {b \in Blocks : fat_table[b] = Free}
FreeSlots == {i \in FileSlots : files[i].name = NoName}
SlotsNamed(name) == {i \in FileSlots : files[i].name = name}

(* The call returns.                                                        *)
Return(ok, bytes) ==
  /\ call' = Idle
  /\ reply' = Reply(call.op, call.name, ok, bytes)

-----------------------------------------------------------------------------
(* create_file: the first empty slot; the name is cut to fit, and not       *)
(* looked up.                                                               *)
CreateFile(name) ==
  /\ call = Idle
  /\ \/ /\ FreeSlots = {}
        /\ reply' = Reply("create", name, FALSE, <<>>)
        /\ UNCHANGED files
     \/ \E i \in FreeSlots :
          /\ Lowest(i, FreeSlots)
          /\ files' = [files EXCEPT ![i] =
               [name |-> Stored[name], size |-> 0, start_block |-> None]]
          /\ reply' = Reply("create", name, TRUE, <<>>)
  /\ UNCHANGED <<fat_table, data_blocks, call>>

-----------------------------------------------------------------------------
(* write_file                                                               *)

BeginWrite(name, data) ==
  /\ call = Idle
  /\ \/ /\ SlotsNamed(name) = {}
        /\ reply' = Reply("write", name, FALSE, <<>>)
        /\ UNCHANGED call
     \/ \E i \in SlotsNamed(name) :
          /\ Lowest(i, SlotsNamed(name))
          /\ call' = [op |-> "write", name |-> name, file_index |-> i,
                      data |-> data, prev_block |-> None,
                      first_block |-> None, bytes_written |-> 0]
          /\ UNCHANGED reply
  /\ UNCHANGED <<fat_table, data_blocks, files>>

(* The bytes of block b after the copy loop: a last, partial block keeps    *)
(* what it held behind the end of the text.                                 *)
CopyInto(b) ==
  [i \in Offsets |-> IF call.bytes_written + i < Len(call.data)
                     THEN call.data[call.bytes_written + i + 1]
                     ELSE data_blocks[b][i]]

(* The definitions called Mutant... are no part of the model: each stands    *)
(* for a plausible bug in the definition that follows it, and shows, put in  *)
(* its place, that a property notices.                                       *)
(* Here: a whole block is counted as written.                                *)
MutantBytesAfterCopy == call.bytes_written + BlockSize

BytesAfterCopy ==
  IF call.bytes_written + BlockSize < Len(call.data)
  THEN call.bytes_written + BlockSize
  ELSE Len(call.data)

(* Mistake: the new block is not marked as taken.                           *)
MutantLink(b) ==
  [c \in Blocks |-> IF c = call.prev_block THEN b ELSE fat_table[c]]

(* allocate_block marks b as the end of a file, set_next_block hooks it to  *)
(* the block before it.                                                     *)
Link(b) ==
  [c \in Blocks |-> IF c = b THEN EndOfFile
                    ELSE IF c = call.prev_block THEN b
                    ELSE fat_table[c]]

WriteBlock ==
  /\ call.op = "write"
  /\ call.bytes_written < Len(call.data)
  /\ \E b \in FreeBlocks :
       /\ Lowest(b, FreeBlocks)
       /\ fat_table' = Link(b)
       /\ data_blocks' = [data_blocks EXCEPT ![b] = CopyInto(b)]
       /\ call' = [call EXCEPT
            !.first_block = IF @ = None THEN b ELSE @,
            !.prev_block = b,
            !.bytes_written = BytesAfterCopy]
  /\ UNCHANGED <<files, reply>>

(* Mistakes: a write that does not fit keeps what it could write; it tries  *)
(* again until there is room.                                               *)
MutantDiskFull ==
  /\ call.op = "write"
  /\ call.bytes_written < Len(call.data)
  /\ FreeBlocks = {}
  /\ files' = [files EXCEPT ![call.file_index].start_block = call.first_block,
                            ![call.file_index].size = call.bytes_written]
  /\ Return(FALSE, <<>>)
  /\ UNCHANGED <<fat_table, data_blocks>>
MutantDiskFullRetry ==
  /\ call.op = "write"
  /\ call.bytes_written < Len(call.data)
  /\ FreeBlocks = {}
  /\ UNCHANGED vars

(* allocate_block found no block: write_file returns -1 at once, and what   *)
(* it allocated so far stays allocated.                                     *)
DiskFull ==
  /\ call.op = "write"
  /\ call.bytes_written < Len(call.data)
  /\ FreeBlocks = {}
  /\ Return(FALSE, <<>>)
  /\ UNCHANGED <<fat_table, data_blocks, files>>

EndWrite ==
  /\ call.op = "write"
  /\ call.bytes_written = Len(call.data)
  /\ files' = [files EXCEPT
       ![call.file_index].start_block = call.first_block,
       ![call.file_index].size = Len(call.data)]
  /\ Return(TRUE, <<>>)
  /\ UNCHANGED <<fat_table, data_blocks>>

-----------------------------------------------------------------------------
(* read_file: whole blocks, to the end of the chain.                        *)

BeginRead(name) ==
  /\ call = Idle
  /\ \/ /\ SlotsNamed(name) = {}
        /\ reply' = Reply("read", name, FALSE, <<>>)
        /\ UNCHANGED call
     \/ \E i \in SlotsNamed(name) :
          /\ Lowest(i, SlotsNamed(name))
          /\ call' = [op |-> "read", name |-> name,
                      block |-> files[i].start_block, buffer |-> <<>>]
          /\ UNCHANGED reply
  /\ UNCHANGED <<fat_table, data_blocks, files>>

BlockBytes(b) == [i \in 1 .. BlockSize |-> data_blocks[b][i - 1]]

ReadBlock ==
  /\ call.op = "read"
  /\ call.block \notin {EndOfFile, Free}
  /\ call' = [call EXCEPT !.buffer = @ \o BlockBytes(call.block),
                          !.block = fat_table[@]]
  /\ UNCHANGED <<fat_table, data_blocks, files, reply>>

EndRead ==
  /\ call.op = "read"
  /\ call.block \in {EndOfFile, Free}
  /\ Return(TRUE, call.buffer)
  /\ UNCHANGED <<fat_table, data_blocks, files>>

-----------------------------------------------------------------------------
(* What is left of a call that has begun.                                   *)
CallStep == WriteBlock \/ DiskFull \/ EndWrite \/ ReadBlock \/ EndRead

Next ==
  \/ \E n \in Names : CreateFile(n) \/ BeginRead(n)
  \/ \E n \in Names, d \in Data : BeginWrite(n, d)
  \/ CallStep

Spec == Init /\ [][Next]_vars

-----------------------------------------------------------------------------
WriteCall ==
  [op: {"write"}, name: Names, file_index: FileSlots, data: Seq(Bytes),
   prev_block: Blocks \cup {None}, first_block: Blocks \cup {None},
   bytes_written: Nat]
ReadCall ==
  [op: {"read"}, name: Names, block: Blocks \cup {None, EndOfFile},
   buffer: Seq(Bytes \cup {NUL})]
ReplyType ==
  [op: {"none", "create", "write", "read"}, name: Names \cup {NoName},
   ok: BOOLEAN, bytes: Seq(Bytes \cup {NUL})]

(* Links stay within the disk, entries name blocks of it, a call in          *)
(* progress holds locals of the types of write_file or read_file.            *)
TypeOK ==
  /\ fat_table \in [Blocks -> Blocks \cup {Free, EndOfFile}]
  /\ data_blocks \in [Blocks -> [Offsets -> Bytes \cup {NUL}]]
  /\ files \in [FileSlots -> Entry]
  /\ call \in {Idle} \cup WriteCall \cup ReadCall
  /\ call.op = "write" => call.bytes_written <= Len(call.data)
  /\ reply \in ReplyType

(* The first blocks of the chains that a directory entry, or the write in    *)
(* progress, holds.                                                          *)
EntryHeads == {files[i].start_block : i \in FileSlots} \ {None}
WriteHead == IF call.op = "write" THEN {call.first_block} \ {None} ELSE {}

(* No block is in two chains, and no chain is circular.  Stated link by      *)
(* link: a chain runs upwards through allocated blocks, two links never      *)
(* meet in one block, no link leads into the head of a chain, and no two     *)
(* files, nor a file and the write in progress, have the same head.          *)
ChainsDisjoint ==
  /\ \A b \in Blocks : fat_table[b] \in Blocks =>
       fat_table[b] > b /\ fat_table[fat_table[b]] # Free
  /\ \A a, b \in Blocks :
       a # b /\ fat_table[a] = fat_table[b] => fat_table[a] \notin Blocks
  /\ \A h \in EntryHeads \cup WriteHead :
       fat_table[h] # Free /\ \A b \in Blocks : fat_table[b] # h
  /\ \A i, j \in FileSlots :
       i # j /\ files[i].start_block = files[j].start_block =>
         files[i].start_block = None
  /\ EntryHeads \cap WriteHead = {}

(* create_file does not look for its name, so two entries may have one name; *)
(* find_file stops at the first of them.  The other one never gets a byte.   *)
ShadowedStaysEmpty ==
  \A i, j \in FileSlots :
    i < j /\ files[i].name = files[j].name /\ files[i].name # NoName =>
      files[j].size = 0 /\ files[j].start_block = None

(* Every call returns: no read runs round a chain for ever.                  *)
CallReturns == (call # Idle) ~> (call = Idle)

(* README.md:139, "create <name>: Create a new empty file", of a call that   *)
(* has just returned 0: the name leads to a file, and it is empty.           *)
CreateMakesEmptyFile ==
  reply.op = "create" /\ reply.ok /\ call = Idle =>
    \E i \in SlotsNamed(reply.name) :
      Lowest(i, SlotsNamed(reply.name)) /\ files[i].size = 0
=============================================================================
