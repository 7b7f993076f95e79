--------------------------- MODULE FileSystemProof --------------------------
(***************************************************************************)
(* Proofs about filesystem/filesystem.c and filesystem/fat.c, for every    *)
(* disk size, block size, directory size and set of texts.                 *)
(*                                                                         *)
(* ChainsDisjoint is not inductive.  A link from the last block of a write *)
(* to the next one runs upwards only because allocate_block takes the      *)
(* lowest free block and nothing is ever freed, so that the free blocks    *)
(* are the upper end of the disk (BlocksPrefix).  ShadowedStaysEmpty needs *)
(* the same of the directory (SlotsPrefix), and that the write in progress *)
(* still writes to the first file of its name (FirstOfName).  The locals   *)
(* of a write are a chain or nothing (PrevAllocated): the first block of a *)
(* write is nobody's successor.                                            *)
(*                                                                         *)
(* That texts survive, and that read comes by them, needs to know where    *)
(* they are (DiskInv).  One call runs at a time and nothing is freed, so   *)
(* every text lies in neighbouring blocks, the ones of a write in progress *)
(* behind all files; no byte was ever written behind the free end; and a   *)
(* read has copied the blocks up to the one it has come to.                *)
(***************************************************************************)
EXTENDS FileShell, Induction

BlocksPrefix ==
  \A a, b \in Blocks : a < b /\ fat_table[a] = Free => fat_table[b] = Free

SlotsPrefix ==
  \A i, j \in FileSlots :
    i < j /\ files[i].name = NoName => files[j].name = NoName

PrevAllocated ==
  call.op = "write" =>
    /\ call.prev_block = None <=> call.first_block = None
    /\ call.prev_block # None => fat_table[call.prev_block] # Free

FirstOfName ==
  call.op = "write" => Lowest(call.file_index, SlotsNamed(call.name))

IInv ==
  /\ TypeOK
  /\ ChainsDisjoint
  /\ ShadowedStaysEmpty
  /\ BlocksPrefix
  /\ SlotsPrefix
  /\ PrevAllocated
  /\ FirstOfName

-----------------------------------------------------------------------------
(* The kinds of calls are told apart by op.                                 *)
LEMMA CallKinds ==
  ASSUME TypeOK
  PROVE  /\ call.op = "write" => call \in WriteCall
         /\ call.op = "read" => call \in ReadCall
         /\ call = Idle => call.op = "none"
  BY DEF TypeOK, Idle, WriteCall, ReadCall

LEMMA ReplyTyped ==
  ASSUME NEW op \in {"create", "write", "read"}, NEW n \in Names,
         NEW ok \in BOOLEAN, NEW bytes \in Seq(Bytes \cup {NUL})
  PROVE  Reply(op, n, ok, bytes) \in ReplyType
  BY DEF Reply, ReplyType

LEMMA NoBytes == <<>> \in Seq(Bytes \cup {NUL})
  OBVIOUS

(* None is no block.                                                        *)
LEMMA NoneIsNoBlock == None \notin Blocks /\ Free \notin Blocks /\ EndOfFile \notin Blocks
  BY FileSystemAssumption DEF None, Free, EndOfFile, Blocks

-----------------------------------------------------------------------------
LEMMA InitIInv == Init => IInv
<1> SUFFICES ASSUME Init PROVE IInv
  OBVIOUS
<1> USE FileSystemAssumption
<1>1. NoEntry \in Entry /\ NoEntry.name = NoName /\ NoEntry.start_block = None /\ NoEntry.size = 0
  BY DEF NoEntry, Entry
<1>2. call.op = "none"
  BY DEF Init, Idle
<1>3. reply \in ReplyType
  BY NoBytes DEF Init, Reply, ReplyType
<1>4. TypeOK
  BY <1>1, <1>2, <1>3 DEF Init, TypeOK
<1>5. EntryHeads = {} /\ WriteHead = {}
  BY <1>1, <1>2 DEF Init, EntryHeads, WriteHead
<1>6. ChainsDisjoint
  BY <1>1, <1>5, NoneIsNoBlock DEF Init, ChainsDisjoint
<1>7. QED
  BY <1>1, <1>2, <1>4, <1>6
  DEF Init, IInv, ShadowedStaysEmpty, BlocksPrefix, SlotsPrefix,
      PrevAllocated, FirstOfName

(* create_file takes the first empty slot: every later one is empty too, so *)
(* the new entry shadows nothing.                                           *)
LEMMA CreateFilePreserves ==
  ASSUME IInv, NEW n \in Names, CreateFile(n)
  PROVE  IInv'
<1> USE FileSystemAssumption
<1>1. UNCHANGED <<fat_table, data_blocks, call>> /\ call.op = "none"
  BY CallKinds DEF CreateFile, IInv
<1>2. ASSUME FreeSlots = {}, reply' = Reply("create", n, FALSE, <<>>),
             UNCHANGED files
      PROVE  IInv'
  <2>1. reply' \in ReplyType
    BY <1>2, ReplyTyped, NoBytes, Zenon
  <2>2. TypeOK'
    BY <1>1, <1>2, <2>1 DEF IInv, TypeOK
  <2>3. ChainsDisjoint'
    BY <1>1, <1>2 DEF IInv, ChainsDisjoint, EntryHeads, WriteHead
  <2>4. QED
    BY <1>1, <1>2, <2>2, <2>3
    DEF IInv, ShadowedStaysEmpty, BlocksPrefix, SlotsPrefix, PrevAllocated,
        FirstOfName
<1>3. ASSUME NEW i \in FreeSlots, Lowest(i, FreeSlots),
             files' = [files EXCEPT ![i] =
               [name |-> Stored[n], size |-> 0, start_block |-> None]],
             reply' = Reply("create", n, TRUE, <<>>)
      PROVE  IInv'
  <2> DEFINE new == [name |-> Stored[n], size |-> 0, start_block |-> None]
  <2>1. reply' \in ReplyType
    BY <1>3, ReplyTyped, NoBytes, Zenon
  <2>2. new \in Entry /\ new.name # NoName /\ new.size = 0 /\ new.start_block = None
    BY DEF Entry
  <2>3. i \in FileSlots /\ files[i].name = NoName
    BY DEF FreeSlots
  <2>4. files' = [files EXCEPT ![i] = new]
    BY <1>3
  <2> HIDE DEF new
  <2>5. /\ files' \in [FileSlots -> Entry]
        /\ files'[i] = new
        /\ \A j \in FileSlots \ {i} : files'[j] = files[j]
    BY <2>2, <2>3, <2>4 DEF IInv, TypeOK
  <2>6. \A j \in FileSlots : j < i => files[j].name # NoName
    BY <1>3, <2>3 DEF Lowest, FreeSlots, FileSlots
  <2>7. \A j \in FileSlots : i < j => files[j].name = NoName
    BY <2>3 DEF IInv, SlotsPrefix
  <2>8. TypeOK'
    BY <1>1, <2>1, <2>5 DEF IInv, TypeOK
  <2>9. EntryHeads' \subseteq EntryHeads /\ WriteHead' = WriteHead
    BY <1>1, <2>2, <2>3, <2>5 DEF EntryHeads, WriteHead
  <2>10. ChainsDisjoint'
    BY <1>1, <2>2, <2>5, <2>9 DEF IInv, ChainsDisjoint
  <2>11. ShadowedStaysEmpty'
    BY <2>2, <2>3, <2>5, <2>7 DEF IInv, ShadowedStaysEmpty, FileSlots
  <2>12. SlotsPrefix'
    BY <2>2, <2>3, <2>5, <2>6 DEF IInv, SlotsPrefix
  <2>13. QED
    BY <1>1, <2>8, <2>10, <2>11, <2>12
    DEF IInv, BlocksPrefix, PrevAllocated, FirstOfName
<1>4. QED
  BY <1>2, <1>3 DEF CreateFile

(* A search of the directory, and a call that may begin.                    *)
LEMMA BeginPreserves ==
  ASSUME IInv,
         \/ \E n \in Names, d \in Data : BeginWrite(n, d)
         \/ \E n \in Names : BeginRead(n)
  PROVE  IInv'
<1> USE FileSystemAssumption
<1>1. UNCHANGED <<fat_table, data_blocks, files>> /\ call.op = "none"
  BY CallKinds DEF BeginWrite, BeginRead, IInv
<1>2. ASSUME TypeOK', WriteHead' = {}, PrevAllocated', FirstOfName'
      PROVE  IInv'
  <2>1. EntryHeads' = EntryHeads
    BY <1>1 DEF EntryHeads
  <2>2. ChainsDisjoint'
    BY <1>1, <1>2, <2>1 DEF IInv, ChainsDisjoint
  <2>3. QED
    BY <1>1, <1>2, <2>2
    DEF IInv, ShadowedStaysEmpty, BlocksPrefix, SlotsPrefix
<1>3. ASSUME NEW op \in {"read", "write"}, NEW n \in Names,
             reply' = Reply(op, n, FALSE, <<>>), UNCHANGED call
      PROVE  IInv'
  <2>1. reply' \in ReplyType
    BY <1>3, ReplyTyped, NoBytes, Zenon
  <2>2. TypeOK'
    BY <1>1, <1>3, <2>1 DEF IInv, TypeOK
  <2>3. QED
    BY <1>1, <1>2, <1>3, <2>2 DEF WriteHead, PrevAllocated, FirstOfName
<1>4. ASSUME NEW n \in Names, NEW d \in Data, NEW i \in SlotsNamed(n),
             Lowest(i, SlotsNamed(n)),
             call' = [op |-> "write", name |-> n, file_index |-> i,
                      data |-> d, prev_block |-> None,
                      first_block |-> None, bytes_written |-> 0],
             UNCHANGED reply
      PROVE  IInv'
  <2>2. d \in Seq(Bytes) /\ Len(d) \in Nat /\ i \in FileSlots
    BY DEF SlotsNamed
  <2>3. call' \in WriteCall
    BY <1>4, <2>2 DEF WriteCall
  <2>4. /\ call'.bytes_written = 0
        /\ call'.data = d
        /\ call'.first_block = None
        /\ call'.prev_block = None
        /\ call'.file_index = i
        /\ call'.name = n
    BY <1>4
  <2>5. TypeOK'
    BY <1>1, <1>4, <2>2, <2>3, <2>4 DEF IInv, TypeOK
  <2>6. FirstOfName'
    BY <1>1, <1>4, <2>4 DEF FirstOfName, Lowest, SlotsNamed
  <2>7. QED
    BY <1>2, <2>4, <2>5, <2>6 DEF WriteHead, PrevAllocated
<1>5. ASSUME NEW n \in Names, NEW i \in SlotsNamed(n),
             call' = [op |-> "read", name |-> n,
                      block |-> files[i].start_block, buffer |-> <<>>],
             UNCHANGED reply
      PROVE  IInv'
  <2>2. i \in FileSlots /\ files[i].start_block \in Blocks \cup {None}
    BY DEF SlotsNamed, IInv, TypeOK, Entry
  <2>3. call' \in ReadCall /\ call'.op = "read"
    BY <1>5, <2>2, NoBytes DEF ReadCall
  <2>4. TypeOK'
    BY <1>1, <1>5, <2>3 DEF IInv, TypeOK
  <2>5. QED
    BY <1>2, <2>3, <2>4 DEF WriteHead, PrevAllocated, FirstOfName
<1>6. ASSUME NEW n \in Names, NEW d \in Data, BeginWrite(n, d)
      PROVE  IInv'
  <2>1. ASSUME reply' = Reply("write", n, FALSE, <<>>), UNCHANGED call
        PROVE  IInv'
    BY <1>3, <2>1, Zenon
  <2>2. QED
    BY <1>4, <1>6, <2>1, Zenon DEF BeginWrite
<1>7. ASSUME NEW n \in Names, BeginRead(n)
      PROVE  IInv'
  <2>1. ASSUME reply' = Reply("read", n, FALSE, <<>>), UNCHANGED call
        PROVE  IInv'
    BY <1>3, <2>1, Zenon
  <2>2. QED
    BY <1>5, <1>7, <2>1, Zenon DEF BeginRead
<1>8. QED
  BY <1>6, <1>7, Zenon

(* One block of a write.  The new block was free, so nothing pointed to it; *)
(* the block before it is allocated, hence below every free one.            *)
LEMMA WriteBlockPreserves ==
  ASSUME IInv, WriteBlock
  PROVE  IInv'
<1> USE FileSystemAssumption, NoneIsNoBlock
<1>1. PICK b \in FreeBlocks :
        /\ Lowest(b, FreeBlocks)
        /\ fat_table' = Link(b)
        /\ data_blocks' = [data_blocks EXCEPT ![b] = CopyInto(b)]
        /\ call' = [call EXCEPT
             !.first_block = IF @ = None THEN b ELSE @,
             !.prev_block = b,
             !.bytes_written = BytesAfterCopy]
  BY DEF WriteBlock
<1>2. /\ UNCHANGED <<files, reply>>
      /\ call \in WriteCall /\ call.op = "write"
      /\ call.bytes_written < Len(call.data)
  BY CallKinds DEF WriteBlock, IInv
<1>3. b \in Blocks /\ fat_table[b] = Free /\ fat_table \in [Blocks -> Blocks \cup {Free, EndOfFile}]
  BY DEF FreeBlocks, IInv, TypeOK
<1>4. \A c \in Blocks : c < b <=> fat_table[c] # Free
  BY <1>1, <1>3 DEF Lowest, FreeBlocks, Blocks, IInv, BlocksPrefix
<1>5. call.prev_block # None =>
        call.prev_block \in Blocks /\ call.prev_block < b
  BY <1>2, <1>4 DEF WriteCall, IInv, PrevAllocated
<1>6. /\ call.data \in Seq(Bytes) /\ Len(call.data) \in Nat
      /\ call.bytes_written \in Nat
      /\ call.first_block \in Blocks \cup {None}
      /\ call.prev_block \in Blocks \cup {None}
  BY <1>2 DEF WriteCall
<1>7. /\ call' \in WriteCall
      /\ call'.op = "write"
      /\ call'.data = call.data
      /\ call'.name = call.name
      /\ call'.file_index = call.file_index
      /\ call'.prev_block = b
      /\ call'.first_block = (IF call.first_block = None THEN b ELSE call.first_block)
      /\ call'.bytes_written = BytesAfterCopy
      /\ BytesAfterCopy \in Nat /\ BytesAfterCopy <= Len(call.data)
  <2>1. BytesAfterCopy \in Nat /\ BytesAfterCopy <= Len(call.data)
    BY <1>6 DEF BytesAfterCopy
  <2>2. QED
    BY <1>1, <1>2, <1>3, <1>6, <2>1 DEF WriteCall
<1>8. CopyInto(b) \in [Offsets -> Bytes \cup {NUL}]
  <2>1. ASSUME NEW i \in Offsets, call.bytes_written + i < Len(call.data)
        PROVE  call.data[call.bytes_written + i + 1] \in Bytes
    <3>1. call.bytes_written + i + 1 \in 1 .. Len(call.data)
      BY <1>6, <2>1 DEF Offsets
    <3>2. QED
      BY <1>6, <3>1, ElementOfSeq
  <2>2. ASSUME NEW i \in Offsets
        PROVE  data_blocks[b][i] \in Bytes \cup {NUL}
    BY <1>3 DEF IInv, TypeOK
  <2>3. QED
    BY <2>1, <2>2 DEF CopyInto
<1>9. /\ \A c \in Blocks : fat_table'[c] =
           (IF c = b THEN EndOfFile
            ELSE IF c = call.prev_block THEN b ELSE fat_table[c])
      /\ fat_table' \in [Blocks -> Blocks \cup {Free, EndOfFile}]
  BY <1>1, <1>3 DEF Link
<1>10. TypeOK'
  BY <1>1, <1>2, <1>3, <1>7, <1>8, <1>9 DEF IInv, TypeOK
<1>11. EndOfFile # Free /\ EndOfFile # b /\ b # Free
  BY <1>3 DEF EndOfFile, Free
<1>12. \A c \in Blocks : fat_table'[c] = Free <=> c # b /\ fat_table[c] = Free
  BY <1>3, <1>4, <1>5, <1>9, <1>11
<1>13. \A c \in Blocks : fat_table[c] # b
  BY <1>3 DEF IInv, ChainsDisjoint
<1>14. EntryHeads' = EntryHeads
  BY <1>2 DEF EntryHeads
<1>15. \A h \in EntryHeads \cup WriteHead : h \in Blocks /\ h # b
  <2>1. \A h \in EntryHeads : h \in Blocks
    BY DEF EntryHeads, IInv, TypeOK, Entry
  <2>2. \A h \in WriteHead : h \in Blocks
    BY <1>6 DEF WriteHead
  <2>3. QED
    BY <1>3, <2>1, <2>2 DEF IInv, ChainsDisjoint
<1>16. WriteHead' = WriteHead \/ WriteHead' = {b}
  BY <1>2, <1>3, <1>7 DEF WriteHead
<1>17. ChainsDisjoint'
  <2>1. ASSUME NEW c \in Blocks, fat_table'[c] \in Blocks
        PROVE  fat_table'[c] > c /\ fat_table'[fat_table'[c]] # Free
    <3>1. CASE c = call.prev_block
      BY <1>3, <1>5, <1>9, <1>11, <3>1, <2>1 DEF Blocks
    <3>2. CASE c # call.prev_block
      <4>1. fat_table'[c] = fat_table[c] /\ fat_table[c] \in Blocks
        BY <1>9, <1>11, <2>1, <3>2
      <4>2. QED
        BY <1>12, <1>13, <4>1 DEF IInv, ChainsDisjoint
    <3>3. QED
      BY <3>1, <3>2
  <2>2. ASSUME NEW a \in Blocks, NEW c \in Blocks, a # c,
               fat_table'[a] = fat_table'[c], fat_table'[a] \in Blocks
        PROVE  FALSE
    <3>1. a # b /\ c # b
      BY <1>9, <2>2
    <3>2. QED
      BY <1>9, <1>13, <2>2, <3>1 DEF IInv, ChainsDisjoint
  <2>3. ASSUME NEW h \in EntryHeads' \cup WriteHead'
        PROVE  fat_table'[h] # Free /\ \A c \in Blocks : fat_table'[c] # h
    <3>1. CASE h \in EntryHeads \cup WriteHead
      <4>1. h \in Blocks /\ h # b
        BY <1>15, <3>1
      <4>2. fat_table[h] # Free /\ \A c \in Blocks : fat_table[c] # h
        BY <3>1 DEF IInv, ChainsDisjoint
      <4>3. fat_table'[h] # Free
        BY <1>12, <4>1, <4>2
      <4>4. ASSUME NEW c \in Blocks
            PROVE  fat_table'[c] # h
        BY <1>9, <4>1, <4>2
      <4>5. QED
        BY <4>3, <4>4
    <3>2. CASE h \notin EntryHeads \cup WriteHead
      <4>1. h = b /\ WriteHead' # WriteHead
        BY <1>14, <1>16, <2>3, <3>2
      <4>2. call.prev_block = None
        BY <1>2, <1>7, <4>1 DEF WriteHead, IInv, PrevAllocated
      <4>3. \A c \in Blocks : c # call.prev_block
        BY <4>2
      <4>4. QED
        BY <1>3, <1>9, <1>11, <1>13, <4>1, <4>3
    <3>3. QED
      BY <3>1, <3>2
  <2>4. EntryHeads' \cap WriteHead' = {}
    BY <1>14, <1>15, <1>16 DEF IInv, ChainsDisjoint
  <2>5. \A i, j \in FileSlots :
          i # j /\ files'[i].start_block = files'[j].start_block =>
            files'[i].start_block = None
    BY <1>2 DEF IInv, ChainsDisjoint
  <2>6. QED
    BY <2>1, <2>2, <2>3, <2>4, <2>5 DEF ChainsDisjoint
<1>18. BlocksPrefix'
  BY <1>3, <1>4, <1>12 DEF BlocksPrefix, Blocks
<1>19. PrevAllocated' /\ FirstOfName'
  BY <1>2, <1>3, <1>7, <1>9, <1>11
  DEF IInv, PrevAllocated, FirstOfName, Lowest, SlotsNamed
<1>20. QED
  BY <1>2, <1>10, <1>17, <1>18, <1>19
  DEF IInv, ShadowedStaysEmpty, SlotsPrefix

(* A write commits: the chain it built becomes the file's.                  *)
LEMMA EndWritePreserves ==
  ASSUME IInv, EndWrite
  PROVE  IInv'
<1> USE FileSystemAssumption, NoneIsNoBlock
<1> DEFINE k == call.file_index
           f == call.first_block
<1>1. /\ UNCHANGED <<fat_table, data_blocks>>
      /\ call \in WriteCall /\ call.op = "write"
      /\ call' = Idle
      /\ reply' = Reply(call.op, call.name, TRUE, <<>>)
  BY CallKinds DEF EndWrite, Return, IInv
<1>2. /\ k \in FileSlots
      /\ f \in Blocks \cup {None}
      /\ Len(call.data) \in Nat
      /\ call.name \in Names
  BY <1>1 DEF WriteCall
<1>3. /\ files' \in [FileSlots -> Entry]
      /\ files'[k].start_block = f
      /\ files'[k].name = files[k].name
      /\ \A i \in FileSlots \ {k} : files'[i] = files[i]
  BY <1>2, ZenonT(40) DEF EndWrite, IInv, TypeOK, Entry
<1>4. call'.op = "none"
  BY <1>1 DEF Idle
<1>5. reply' \in ReplyType
  <2>1. "write" \in {"create", "write", "read"} /\ TRUE \in BOOLEAN
    OBVIOUS
  <2>2. reply' = Reply("write", call.name, TRUE, <<>>)
    BY <1>1, Zenon
  <2>3. QED
    BY <1>2, <2>1, <2>2, NoBytes, ReplyTyped, Zenon
<1>6. TypeOK'
  BY <1>1, <1>3, <1>4, <1>5 DEF IInv, TypeOK
<1>7. EntryHeads' \subseteq EntryHeads \cup WriteHead /\ WriteHead' = {}
  BY <1>1, <1>2, <1>3, <1>4 DEF EntryHeads, WriteHead
<1>8. \A i \in FileSlots : files[i].start_block = f => f = None
  BY <1>1 DEF IInv, ChainsDisjoint, EntryHeads, WriteHead
<1>9. ChainsDisjoint'
  <2>1. \A i, j \in FileSlots :
          i # j /\ files'[i].start_block = files'[j].start_block =>
            files'[i].start_block = None
    BY <1>2, <1>3, <1>8 DEF IInv, ChainsDisjoint
  <2>2. QED
    BY <1>1, <1>7, <2>1 DEF IInv, ChainsDisjoint
<1>10. ShadowedStaysEmpty'
  <2>1. \A i \in FileSlots : files[i].name = files[k].name => k <= i
    BY <1>1 DEF IInv, FirstOfName, Lowest, SlotsNamed
  <2>2. \A i \in FileSlots : files'[i].name = files[i].name
    BY <1>3
  <2>3. QED
    BY <1>2, <1>3, <2>1, <2>2 DEF IInv, ShadowedStaysEmpty, FileSlots
<1>11. SlotsPrefix'
  BY <1>3 DEF IInv, SlotsPrefix
<1>12. QED
  BY <1>1, <1>4, <1>6, <1>9, <1>10, <1>11
  DEF IInv, BlocksPrefix, PrevAllocated, FirstOfName

(* The disk is full, or a step of a read: no chain and no entry changes.    *)
LEMMA OtherStepsPreserve ==
  ASSUME IInv, DiskFull \/ ReadBlock \/ EndRead \/ UNCHANGED vars
  PROVE  IInv'
<1> USE FileSystemAssumption, NoneIsNoBlock
<1>1. UNCHANGED <<fat_table, data_blocks, files>>
  BY DEF DiskFull, ReadBlock, EndRead, vars
<1>2. ASSUME TypeOK', call'.op # "write"
      PROVE  IInv'
  <2>1. ChainsDisjoint'
    BY <1>1, <1>2 DEF IInv, ChainsDisjoint, EntryHeads, WriteHead
  <2>2. QED
    BY <1>1, <1>2, <2>1
    DEF IInv, ShadowedStaysEmpty, BlocksPrefix, SlotsPrefix, PrevAllocated,
        FirstOfName
<1>3. ASSUME NEW op \in {"write", "read"}, NEW ok \in BOOLEAN,
             NEW bytes \in Seq(Bytes \cup {NUL}),
             call.op = op, Return(ok, bytes)
      PROVE  IInv'
  <2>1. call.name \in Names
    BY <1>3, CallKinds DEF IInv, WriteCall, ReadCall
  <2>2. reply' = Reply(op, call.name, ok, bytes) /\ call' = Idle
    BY <1>3, Zenon DEF Return
  <2>3. reply' \in ReplyType
    BY <2>1, <2>2, ReplyTyped, Zenon
  <2>4. call'.op # "write" /\ TypeOK'
    BY <1>1, <2>2, <2>3 DEF IInv, TypeOK, Idle
  <2>5. QED
    BY <1>2, <2>4
<1>4. CASE DiskFull
  <2>1. FALSE \in BOOLEAN /\ call.op = "write" /\ Return(FALSE, <<>>)
    BY <1>4, Zenon DEF DiskFull
  <2>2. QED
    BY <1>3, <2>1, NoBytes, Zenon
<1>5. CASE EndRead
  <2>1. call.op = "read" /\ Return(TRUE, call.buffer)
    BY <1>5, Zenon DEF EndRead
  <2>2. call.buffer \in Seq(Bytes \cup {NUL})
    BY <2>1, CallKinds DEF IInv, ReadCall
  <2>3. QED
    BY <1>3, <2>1, <2>2, Zenon
<1>6. CASE ReadBlock
  <2>1. call \in ReadCall /\ call.op = "read"
    BY <1>6, CallKinds DEF ReadBlock, IInv
  <2> DEFINE b == call.block
  <2>2. b \in Blocks /\ call.buffer \in Seq(Bytes \cup {NUL})
    BY <1>6, <2>1 DEF ReadBlock, ReadCall, Free, None
  <2>3. BlockBytes(b) \in Seq(Bytes \cup {NUL})
    <3>1. \A i \in 1 .. BlockSize : i - 1 \in Offsets
      BY DEF Offsets
    <3>2. \A i \in 1 .. BlockSize : data_blocks[b][i - 1] \in Bytes \cup {NUL}
      BY <2>2, <3>1 DEF IInv, TypeOK
    <3>3. BlockBytes(b) \in [1 .. BlockSize -> Bytes \cup {NUL}]
      BY <3>2 DEF BlockBytes
    <3>4. QED
      BY <3>3, SeqDef
  <2>4. call.buffer \o BlockBytes(b) \in Seq(Bytes \cup {NUL})
    BY <2>2, <2>3, ConcatProperties
  <2>5. fat_table[b] \in Blocks \cup {None, EndOfFile}
    BY <2>2 DEF IInv, TypeOK, None, Free
  <2>6. call' \in ReadCall /\ call'.op = "read"
    BY <1>6, <2>1, <2>4, <2>5 DEF ReadBlock, ReadCall
  <2>7. TypeOK'
    BY <1>1, <1>6, <2>6 DEF ReadBlock, IInv, TypeOK
  <2>8. QED
    BY <1>2, <2>6, <2>7
<1>7. CASE UNCHANGED vars
  <2>1. TypeOK' /\ ChainsDisjoint'
    BY <1>7 DEF vars, IInv, TypeOK, ChainsDisjoint, EntryHeads, WriteHead
  <2>2. QED
    BY <1>7, <2>1
    DEF vars, IInv, ShadowedStaysEmpty, BlocksPrefix, SlotsPrefix,
        PrevAllocated, FirstOfName, Lowest, SlotsNamed
<1>8. QED
  BY <1>4, <1>5, <1>6, <1>7

-----------------------------------------------------------------------------
LEMMA NextPreservesIInv == IInv /\ [Next]_vars => IInv'
  BY CreateFilePreserves, BeginPreserves, WriteBlockPreserves,
     EndWritePreserves, OtherStepsPreserve
  DEF Next, CallStep

(* The inductive invariant holds throughout every behaviour of               *)
(* filesystem.c.                                                             *)
THEOREM SpecIInv == Spec => []IInv
  BY InitIInv, NextPreservesIInv, PTL DEF Spec

(* The tables of fat.c and filesystem.c hold what their types say.           *)
THEOREM SpecTypeOK == Spec => []TypeOK
<1>1. IInv => TypeOK
  BY DEF IInv
<1>2. QED
  BY <1>1, SpecIInv, PTL

(* No block of the disk is in two chains, and no chain is circular.          *)
THEOREM SpecChainsDisjoint == Spec => []ChainsDisjoint
<1>1. IInv => ChainsDisjoint
  BY DEF IInv
<1>2. QED
  BY <1>1, SpecIInv, PTL

(* A second file of the same name never gets a byte.                         *)
THEOREM SpecShadowedStaysEmpty == Spec => []ShadowedStaysEmpty
<1>1. IInv => ShadowedStaysEmpty
  BY DEF IInv
<1>2. QED
  BY <1>1, SpecIInv, PTL

-----------------------------------------------------------------------------
(* Whole blocks of bytes.                                                   *)
LEMMA Times ==
  ASSUME NEW s \in Nat \ {0}, NEW k \in Nat, NEW n \in Nat
  PROVE  /\ k * s \in Nat /\ n * s \in Nat
         /\ k < n => k * s + s <= n * s
         /\ k * s < n * s => k < n
         /\ (k + 1) * s = k * s + s
  OBVIOUS

LEMMA Divided ==
  ASSUME NEW s \in Nat \ {0}, NEW m \in Nat
  PROVE  /\ m \div s \in Nat
         /\ m % s \in 0 .. s - 1
         /\ m = (m \div s) * s + (m % s)
  OBVIOUS

LEMMA BlocksForBounds ==
  ASSUME NEW w \in Nat
  PROVE  /\ BlocksFor(w) \in Nat
         /\ w <= BlocksFor(w) * BlockSize
         /\ BlocksFor(w) * BlockSize < w + BlockSize
         /\ BlocksFor(w) = 0 <=> w = 0
<1>. DEFINE m == w + BlockSize - 1
            q == m \div BlockSize
            r == m % BlockSize
<1>1. /\ BlockSize \in Nat \ {0}
      /\ m \in Nat
  BY FileSystemAssumption
<1>2. q \in Nat /\ r \in 0 .. BlockSize - 1 /\ m = q * BlockSize + r
  BY <1>1, Divided
<1>3. BlocksFor(w) = q
  BY DEF BlocksFor
<1>4. q * BlockSize \in Nat
  BY <1>1, <1>2, Times
<1>5. w <= q * BlockSize /\ q * BlockSize < w + BlockSize
  BY <1>1, <1>2, <1>4
<1>6. q = 0 => q * BlockSize = 0
  BY <1>1
<1>7. q # 0 => q * BlockSize >= BlockSize
  BY <1>1, <1>2, Times, 0 \in Nat, 0 * BlockSize = 0
<1>. QED
  BY <1>1, <1>2, <1>3, <1>5, <1>6, <1>7

LEMMA BlocksForIs ==
  ASSUME NEW w \in Nat, NEW n \in Nat,
         w <= n * BlockSize, n * BlockSize < w + BlockSize
  PROVE  BlocksFor(w) = n
<1>1. BlockSize \in Nat \ {0}
  BY FileSystemAssumption
<1>2. PICK q \in Nat : q = BlocksFor(w)
  BY BlocksForBounds
<1>3. w <= q * BlockSize /\ q * BlockSize < w + BlockSize
  BY <1>2, BlocksForBounds
<1>4. q * BlockSize \in Nat /\ n * BlockSize \in Nat
  BY <1>1, Times
<1>5. q < n => q * BlockSize + BlockSize <= n * BlockSize
  BY <1>1, Times
<1>6. n < q => n * BlockSize + BlockSize <= q * BlockSize
  BY <1>1, Times
<1>. QED
  BY <1>1, <1>2, <1>3, <1>4, <1>5, <1>6

-----------------------------------------------------------------------------
(* What is on the disk.  A call allocates the lowest free block, one call   *)
(* runs at a time and nothing is freed, so the blocks of a text are         *)
(* neighbours: n blocks from h on.                                          *)
Texts == Data \cup {<<>>}

Extent(h, n) ==
  /\ h \in Blocks
  /\ h + n - 1 \in Blocks
  /\ fat_table[h + n - 1] = EndOfFile
  /\ \A k \in 0 .. n - 2 : fat_table[h + k] = h + k + 1

(* n blocks from h on hold the first w bytes of a text, and then NULs.      *)
Holds(h, n, text, w) ==
  \A k \in 0 .. n - 1, j \in Offsets :
    data_blocks[h + k][j] =
      IF k * BlockSize + j < w THEN text[k * BlockSize + j + 1] ELSE NUL

FileHolds(i, text) ==
  LET h == files[i].start_block
      n == BlocksFor(Len(text))
  IN  /\ files[i].size = Len(text)
      /\ h = None <=> text = <<>>
      /\ h # None => Extent(h, n) /\ Holds(h, n, text, Len(text))

FilesHold == \A i \in FileSlots : \E text \in Texts : FileHolds(i, text)

(* No byte was ever written to a free block.                                *)
FreeBlank == \A b \in FreeBlocks : \A j \in Offsets : data_blocks[b][j] = NUL

(* What a write has written lies behind all files and before all free       *)
(* blocks, and ends with a block unless the text ends.                      *)
WriteHolds ==
  call.op = "write" =>
    LET w == call.bytes_written
        n == BlocksFor(w)
        h == call.first_block
    IN  /\ call.data \in Data
        /\ h = None <=> w = 0
        /\ w < Len(call.data) => w = n * BlockSize
        /\ h # None =>
             /\ Extent(h, n) /\ Holds(h, n, call.data, w)
             /\ call.prev_block = h + n - 1
             /\ \A b \in Blocks : fat_table[b] = Free <=> h + n - 1 < b
             /\ \A i \in FileSlots : files[i].start_block # None =>
                  files[i].start_block + BlocksFor(files[i].size) <= h

(* A buffer holds the first k blocks of file i.                             *)
Copied(i, k, bytes) ==
  /\ Len(bytes) = k * BlockSize
  /\ \A m \in 0 .. k - 1, j \in Offsets :
       bytes[m * BlockSize + j + 1] = data_blocks[files[i].start_block + m][j]

(* A read has come to block k of the first file of the name.                *)
ReadHolds ==
  call.op = "read" =>
    \E i \in FileSlots, k \in Nat :
      LET h == files[i].start_block
          n == BlocksFor(files[i].size)
      IN  /\ Lowest(i, SlotsNamed(call.name))
          /\ k <= n
          /\ call.block = IF k < n THEN h + k
                          ELSE IF n = 0 THEN None ELSE EndOfFile
          /\ Copied(i, k, call.buffer)

(* The last answer, if it was to a read, is about the file as it is now.    *)
ReplyHolds ==
  call = Idle /\ reply.op = "read" =>
    IF reply.ok
    THEN \E i \in FileSlots :
           /\ Lowest(i, SlotsNamed(reply.name))
           /\ Copied(i, BlocksFor(files[i].size), reply.bytes)
    ELSE SlotsNamed(reply.name) = {}

DiskInv ==
  /\ IInv
  /\ FilesHold
  /\ FreeBlank
  /\ WriteHolds
  /\ ReadHolds
  /\ ReplyHolds

-----------------------------------------------------------------------------
LEMMA TextsTyped ==
  ASSUME NEW text \in Texts
  PROVE  text \in Seq(Bytes) /\ Len(text) \in Nat
<1>1. <<>> \in Seq(Bytes)
  OBVIOUS
<1>2. text \in Seq(Bytes)
  BY <1>1, FileSystemAssumption DEF Texts
<1>. QED
  BY <1>2

(* The chain of an extent is the extent.                                    *)
LEMMA ReachedInExtent ==
  ASSUME TypeOK, NEW h, NEW n \in Nat \ {0}, Extent(h, n)
  PROVE  \A k \in 0 .. n - 1 : Reached(h)[k] = h + k
<1>. DEFINE V == Blocks \cup {None, EndOfFile}
            step == [p \in V \X (1 .. MaxBlocks) |->
                       IF p[1] \in Blocks THEN fat_table[p[1]] ELSE None]
            Eqn(v) == v = [k \in 0 .. MaxBlocks |->
                             IF k = 0 THEN h
                             ELSE IF v[k - 1] \in Blocks
                                  THEN fat_table[v[k - 1]]
                             ELSE None]
<1>1. MaxBlocks \in Nat /\ h \in V /\ h \in Blocks
  BY FileSystemAssumption DEF Extent
<1>2. step \in [V \X (1 .. MaxBlocks) -> V]
  BY DEF TypeOK, Free, None
<1>3. PICK f : IsSeqFold(f, MaxBlocks, V, h, step)
  BY <1>1, <1>2, SeqFoldExists
<1>4. PICK v : v = [k \in 0 .. MaxBlocks |-> f[1 .. k]]
  OBVIOUS
<1>5. Eqn(Reached(h))
  <2>1. v[0] = h
    <3>1. 1 .. 0 = {} /\ 0 \in 0 .. MaxBlocks
      BY <1>1
    <3>. QED
      BY <1>3, <1>4, <3>1, Zenon DEF IsSeqFold
  <2>2. ASSUME NEW k \in 1 .. MaxBlocks
        PROVE  v[k] = IF v[k - 1] \in Blocks THEN fat_table[v[k - 1]]
                      ELSE None
    <3>1. f[1 .. k] = step[<<f[1 .. (k - 1)], k>>]
      BY <1>1, <1>2, <1>3, SeqFoldOfPrefix
    <3>2. f[1 .. (k - 1)] \in V
      <4>1. 1 .. (k - 1) \in SUBSET (1 .. MaxBlocks)
        BY <1>1
      <4>. QED
        BY <1>3, <4>1 DEF IsSeqFold
    <3>3. v[k] = f[1 .. k] /\ v[k - 1] = f[1 .. (k - 1)]
      BY <1>1, <1>4
    <3>. QED
      BY <3>1, <3>2, <3>3
  <2>3. Eqn(v)
    <3>1. ASSUME NEW k \in 0 .. MaxBlocks
          PROVE  v[k] = IF k = 0 THEN h
                        ELSE IF v[k - 1] \in Blocks THEN fat_table[v[k - 1]]
                        ELSE None
      <4>1. CASE k = 0
        BY <2>1, <4>1
      <4>2. CASE k # 0
        <5>1. k \in 1 .. MaxBlocks
          BY <1>1, <4>2
        <5>. QED
          BY <2>2, <4>2, <5>1, Zenon
      <4>. QED
        BY <4>1, <4>2
    <3>2. v = [k \in 0 .. MaxBlocks |-> v[k]]
      BY <1>4
    <3>. QED
      BY <3>1, <3>2, Zenon
  <2>. QED
    BY <2>3 DEF Reached
<1>6. \A k \in Nat : k \in {m \in Nat : m < n => Reached(h)[m] = h + m}
  <2>. DEFINE S == {m \in Nat : m < n => Reached(h)[m] = h + m}
  <2>1. 0 \in S
    BY <1>1, <1>5 DEF Blocks
  <2>2. ASSUME NEW m \in Nat, m \in S
        PROVE  m + 1 \in S
    <3>1. SUFFICES ASSUME m + 1 < n
                   PROVE  Reached(h)[m + 1] = h + (m + 1)
      OBVIOUS
    <3>2. Reached(h)[m] = h + m /\ m \in 0 .. n - 2
      BY <2>2, <3>1
    <3>3. m + 1 \in 0 .. MaxBlocks /\ h + m \in Blocks
      BY <1>1, <3>1 DEF Extent, Blocks
    <3>4. fat_table[h + m] = h + m + 1
      BY <3>2 DEF Extent
    <3>. QED
      BY <1>1, <1>5, <3>2, <3>3, <3>4 DEF Blocks
  <2>. HIDE DEF S
  <2>3. \A k \in Nat : k \in S
    BY <2>1, <2>2, InductionOnNat
  <2>. QED
    BY <2>3 DEF S
<1>. QED
  BY <1>6

(* The text of an entry is the text its blocks hold.                        *)
LEMMA TextOfHeld ==
  TypeOK => \A i \in FileSlots : \A text \in Texts :
              FileHolds(i, text) => TextOf(files[i]) = text
<1>. SUFFICES ASSUME TypeOK, NEW i \in FileSlots, NEW text \in Texts,
                     FileHolds(i, text)
              PROVE  TextOf(files[i]) = text
  OBVIOUS
<1>. DEFINE h == files[i].start_block
            n == BlocksFor(Len(text))
<1>1. text \in Seq(Bytes) /\ Len(text) \in Nat /\ BlockSize \in Nat \ {0}
  BY FileSystemAssumption, TextsTyped
<1>2. ASSUME NEW m \in 1 .. Len(text)
      PROVE  data_blocks[Reached(h)[(m - 1) \div BlockSize]]
                        [(m - 1) % BlockSize] = text[m]
  <2>1. PICK k, j : k = (m - 1) \div BlockSize /\ j = (m - 1) % BlockSize
    OBVIOUS
  <2>2. m - 1 \in Nat
    BY <1>1
  <2>3. /\ k \in Nat
        /\ j \in 0 .. BlockSize - 1
        /\ m - 1 = k * BlockSize + j
    BY <1>1, <2>1, <2>2, Divided
  <2>4. n \in Nat /\ Len(text) <= n * BlockSize
    BY <1>1, BlocksForBounds
  <2>5. k * BlockSize \in Nat /\ n * BlockSize \in Nat
    BY <1>1, <2>3, <2>4, Times
  <2>6. k * BlockSize < n * BlockSize
    BY <1>1, <2>3, <2>4, <2>5
  <2>7. k < n
    BY <1>1, <2>3, <2>4, <2>6, Times
  <2>8. h # None
    <3>1. text # <<>>
      BY <1>1
    <3>. QED
      BY <3>1 DEF FileHolds
  <2>9. Reached(h)[k] = h + k
    <3>1. Extent(h, n) /\ n \in Nat \ {0} /\ k \in 0 .. n - 1
      BY <2>3, <2>4, <2>7, <2>8 DEF FileHolds
    <3>. QED
      BY <3>1, ReachedInExtent
  <2>10. data_blocks[h + k][j] = text[k * BlockSize + j + 1]
    <3>1. k \in 0 .. n - 1 /\ j \in Offsets /\ k * BlockSize + j < Len(text)
      BY <1>1, <2>3, <2>4, <2>5, <2>7 DEF Offsets
    <3>. QED
      BY <2>8, <3>1 DEF FileHolds, Holds
  <2>11. k * BlockSize + j + 1 = m
    BY <1>1, <2>3, <2>5
  <2>. QED
    BY <2>1, <2>9, <2>10, <2>11, Zenon
<1>3. files[i].size = Len(text)
  BY DEF FileHolds
<1>4. TextOf(files[i]) = [m \in 1 .. Len(text) |-> text[m]]
  BY <1>2, <1>3, Zenon DEF TextOf
<1>. QED
  BY <1>1, <1>4

(* A buffer that holds all blocks of a file holds its text and NULs.        *)
LEMMA CopiedIsPadded ==
  ASSUME TypeOK, NEW i \in FileSlots, NEW text \in Texts, FileHolds(i, text),
         NEW bytes \in Seq(Bytes \cup {NUL}),
         Copied(i, BlocksFor(files[i].size), bytes)
  PROVE  bytes = Store!Padded(text)
<1>. DEFINE h == files[i].start_block
            n == BlocksFor(Len(text))
<1>1. text \in Seq(Bytes) /\ Len(text) \in Nat /\ BlockSize \in Nat \ {0}
  BY FileSystemAssumption, TextsTyped
<1>2. n \in Nat /\ Len(text) <= n * BlockSize /\ (n = 0 <=> Len(text) = 0)
  BY <1>1, BlocksForBounds
<1>3. n * BlockSize \in Nat
  BY <1>1, <1>2, Times
<1>4. Len(bytes) = n * BlockSize
  BY DEF FileHolds, Copied
<1>5. ASSUME NEW m \in 1 .. n * BlockSize
      PROVE  bytes[m] = IF m <= Len(text) THEN text[m] ELSE NUL
  <2>1. PICK k, j : k = (m - 1) \div BlockSize /\ j = (m - 1) % BlockSize
    OBVIOUS
  <2>2. m - 1 \in Nat
    BY <1>3
  <2>3. /\ k \in Nat
        /\ j \in 0 .. BlockSize - 1
        /\ m - 1 = k * BlockSize + j
    BY <1>1, <2>1, <2>2, Divided
  <2>4. k * BlockSize \in Nat
    BY <1>1, <2>3, Times
  <2>5. k * BlockSize < n * BlockSize
    BY <1>1, <1>3, <2>3, <2>4
  <2>6. k < n
    BY <1>1, <1>2, <2>3, <2>5, Times
  <2>7. h # None
    <3>1. n # 0
      BY <1>2, <2>3, <2>6
    <3>. QED
      BY <1>1, <1>2, <3>1 DEF FileHolds
  <2>8. k \in 0 .. n - 1 /\ j \in Offsets /\ k * BlockSize + j + 1 = m
    BY <1>1, <1>2, <2>3, <2>4, <2>6 DEF Offsets
  <2>9. bytes[k * BlockSize + j + 1] = data_blocks[h + k][j]
    BY <2>8 DEF Copied, FileHolds
  <2>10. data_blocks[h + k][j] = IF k * BlockSize + j < Len(text)
                                 THEN text[k * BlockSize + j + 1] ELSE NUL
    BY <2>7, <2>8 DEF FileHolds, Holds
  <2>11. k * BlockSize + j < Len(text) <=> m <= Len(text)
    BY <1>1, <2>3, <2>4
  <2>. QED
    BY <2>8, <2>9, <2>10, <2>11, Zenon
<1>6. bytes = [m \in 1 .. n * BlockSize |->
                 IF m <= Len(text) THEN text[m] ELSE NUL]
  <2>1. bytes = [m \in 1 .. n * BlockSize |-> bytes[m]]
    BY <1>4
  <2>. QED
    BY <1>5, <2>1, Zenon
<1>7. BlockSize * Store!BlocksFor(Len(text)) = n * BlockSize
  BY <1>1, <1>2 DEF Store!BlocksFor, BlocksFor
<1>. QED
  BY <1>6, <1>7, Zenon DEF Store!Padded

-----------------------------------------------------------------------------
LEMMA OpTells ==
  ASSUME TypeOK
  PROVE  /\ call = Idle <=> call.op = "none"
         /\ call.op = "write" => call \in WriteCall
         /\ call.op = "read" => call \in ReadCall
  BY DEF TypeOK, Idle, WriteCall, ReadCall

(* A step leaves the text of file i alone.                                  *)
KeepsText(i) ==
  \A text \in Texts : FileHolds(i, text) => FileHolds(i, text)'

(* The disk as it was.                                                      *)
LEMMA DiskUnchanged ==
  ASSUME FilesHold, FreeBlank, UNCHANGED <<fat_table, data_blocks, files>>
  PROVE  /\ FilesHold' /\ FreeBlank'
         /\ \A i \in FileSlots : KeepsText(i)
<1>1. \A i \in FileSlots : \A text \in Texts :
        FileHolds(i, text)' <=> FileHolds(i, text)
  BY DEF FileHolds, Extent, Holds
<1>. QED
  BY <1>1 DEF FilesHold, FreeBlank, FreeBlocks, KeepsText

LEMMA InitDiskInv == Init => DiskInv
<1> SUFFICES ASSUME Init PROVE DiskInv
  OBVIOUS
<1>1. call.op = "none" /\ reply.op = "none"
  BY DEF Init, Idle, Reply
<1>2. <<>> \in Texts /\ Len(<<>>) = 0
  BY DEF Texts
<1>3. FilesHold
  BY <1>2 DEF Init, FilesHold, FileHolds, NoEntry
<1>4. FreeBlank
  BY DEF Init, FreeBlank, FreeBlocks
<1>. QED
  BY <1>1, <1>3, <1>4, InitIInv
  DEF DiskInv, WriteHolds, ReadHolds, ReplyHolds

LEMMA CreateFileKeepsDisk ==
  ASSUME DiskInv, NEW n \in Names, CreateFile(n), IInv'
  PROVE  DiskInv'
<1>1. /\ UNCHANGED <<fat_table, data_blocks, call>>
      /\ call.op = "none"
      /\ reply'.op = "create"
  BY OpTells DEF CreateFile, Reply, DiskInv, IInv
<1>2. WriteHolds' /\ ReadHolds' /\ ReplyHolds'
  BY <1>1 DEF WriteHolds, ReadHolds, ReplyHolds
<1>3. FreeBlank'
  BY <1>1 DEF DiskInv, FreeBlank, FreeBlocks
<1>4. FilesHold'
  <2>1. CASE UNCHANGED files
    BY <1>1, <2>1, DiskUnchanged DEF DiskInv
  <2>2. ASSUME NEW k \in FreeSlots,
               files' = [files EXCEPT ![k] =
                 [name |-> Stored[n], size |-> 0, start_block |-> None]]
        PROVE  FilesHold'
    <3>1. k \in FileSlots /\ files \in [FileSlots -> Entry]
      BY DEF FreeSlots, DiskInv, IInv, TypeOK
    <3>2. /\ files'[k].size = 0 /\ files'[k].start_block = None
          /\ \A i \in FileSlots \ {k} : files'[i] = files[i]
      BY <2>2, <3>1
    <3>3. <<>> \in Texts /\ Len(<<>>) = 0
      BY DEF Texts
    <3>4. FileHolds(k, <<>>)'
      BY <3>2, <3>3 DEF FileHolds
    <3>5. \A i \in FileSlots \ {k} : \A text \in Texts :
            FileHolds(i, text) => FileHolds(i, text)'
      BY <1>1, <3>2 DEF FileHolds, Extent, Holds
    <3>. QED
      BY <3>3, <3>4, <3>5, Zenon DEF DiskInv, FilesHold
  <2>. QED
    BY <2>1, <2>2 DEF CreateFile
<1>. QED
  BY <1>2, <1>3, <1>4 DEF DiskInv

LEMMA BeginWriteKeepsDisk ==
  ASSUME DiskInv, NEW n \in Names, NEW d \in Data, BeginWrite(n, d), IInv'
  PROVE  DiskInv'
<1>1. UNCHANGED <<fat_table, data_blocks, files>> /\ call.op = "none"
  BY OpTells DEF BeginWrite, DiskInv, IInv
<1>2. FilesHold' /\ FreeBlank'
  BY <1>1, DiskUnchanged DEF DiskInv
<1>3. CASE UNCHANGED call /\ reply' = Reply("write", n, FALSE, <<>>)
  BY <1>1, <1>2, <1>3
  DEF DiskInv, WriteHolds, ReadHolds, ReplyHolds, Reply
<1>4. ASSUME NEW i,
             call' = [op |-> "write", name |-> n, file_index |-> i,
                      data |-> d, prev_block |-> None,
                      first_block |-> None, bytes_written |-> 0]
      PROVE  DiskInv'
  <2>1. /\ call'.op = "write" /\ call'.bytes_written = 0
        /\ call'.first_block = None /\ call'.data = d
        /\ call' # Idle
    BY <1>4 DEF Idle
  <2>2. BlocksFor(0) * BlockSize = 0
    BY FileSystemAssumption, BlocksForBounds
  <2>3. WriteHolds'
    BY <2>1, <2>2 DEF WriteHolds
  <2>. QED
    BY <1>2, <2>1, <2>3 DEF DiskInv, ReadHolds, ReplyHolds
<1>. QED
  BY <1>3, <1>4 DEF BeginWrite

LEMMA BeginReadKeepsDisk ==
  ASSUME DiskInv, NEW n \in Names, BeginRead(n), IInv'
  PROVE  DiskInv'
<1>1. UNCHANGED <<fat_table, data_blocks, files>> /\ call.op = "none"
  BY OpTells DEF BeginRead, DiskInv, IInv
<1>2. FilesHold' /\ FreeBlank'
  BY <1>1, DiskUnchanged DEF DiskInv
<1>3. CASE /\ SlotsNamed(n) = {}
           /\ UNCHANGED call
           /\ reply' = Reply("read", n, FALSE, <<>>)
  BY <1>1, <1>2, <1>3
  DEF DiskInv, WriteHolds, ReadHolds, ReplyHolds, Reply, SlotsNamed
<1>4. ASSUME NEW i \in SlotsNamed(n), Lowest(i, SlotsNamed(n)),
             call' = [op |-> "read", name |-> n,
                      block |-> files[i].start_block, buffer |-> <<>>]
      PROVE  DiskInv'
  <2>1. /\ call'.op = "read" /\ call'.name = n
        /\ call'.block = files[i].start_block
        /\ call'.buffer = <<>>
        /\ call' # Idle
    BY <1>4 DEF Idle
  <2>2. i \in FileSlots /\ files[i].start_block \in Int
    BY FileSystemAssumption
    DEF SlotsNamed, DiskInv, IInv, TypeOK, Entry, Blocks, None
  <2>3. PICK text \in Texts : FileHolds(i, text)
    BY <2>2 DEF DiskInv, FilesHold
  <2>4. PICK m \in Nat : m = BlocksFor(files[i].size)
    BY <2>3, TextsTyped, BlocksForBounds DEF FileHolds
  <2>5. m = 0 <=> files[i].start_block = None
    BY <2>3, <2>4, TextsTyped, BlocksForBounds DEF FileHolds
  <2>6. Copied(i, 0, <<>>)
    BY FileSystemAssumption DEF Copied
  <2>7. ReadHolds'
    <3>1. Copied(i, 0, call.buffer)'
      BY <1>1, <2>1, <2>6 DEF Copied
    <3>2. Lowest(i, SlotsNamed(call.name))'
      BY <1>1, <1>4, <2>1 DEF Lowest, SlotsNamed
    <3>3. /\ 0 <= m
          /\ files[i].start_block = IF 0 < m THEN files[i].start_block + 0
                                    ELSE IF m = 0 THEN None ELSE EndOfFile
      BY <2>2, <2>5
    <3>. QED
      BY <1>1, <2>1, <2>2, <2>4, <3>1, <3>2, <3>3 DEF ReadHolds
  <2>. QED
    BY <1>2, <2>1, <2>7 DEF DiskInv, WriteHolds, ReplyHolds
<1>. QED
  BY <1>3, <1>4 DEF BeginRead

LEMMA ExtentBlocks ==
  ASSUME TypeOK, NEW h, NEW n \in Nat \ {0}, Extent(h, n)
  PROVE  \A k \in 0 .. n - 1 : h + k \in Blocks /\ fat_table[h + k] # Free
<1>. SUFFICES ASSUME NEW k \in 0 .. n - 1
              PROVE  h + k \in Blocks /\ fat_table[h + k] # Free
  OBVIOUS
<1>1. h + k \in Blocks
  BY FileSystemAssumption DEF Extent, Blocks
<1>2. fat_table[h + k] = IF k = n - 1 THEN EndOfFile ELSE h + k + 1
  <2>1. h \in Nat /\ h + n - 1 = h + (n - 1)
    BY FileSystemAssumption DEF Extent, Blocks
  <2>2. CASE k = n - 1
    BY <2>1, <2>2, Zenon DEF Extent
  <2>3. CASE k # n - 1
    <3>1. k \in 0 .. n - 2
      BY <2>3
    <3>. QED
      BY <2>3, <3>1 DEF Extent
  <2>. QED
    BY <2>2, <2>3
<1>. QED
  BY <1>1, <1>2, FileSystemAssumption DEF EndOfFile, Free, Blocks

(* One block of a write: it lies behind the blocks of every file and next   *)
(* to the ones the write already has.                                       *)
LEMMA WriteBlockKeepsDisk ==
  ASSUME DiskInv, WriteBlock, IInv'
  PROVE  /\ DiskInv'
         /\ \A i \in FileSlots : KeepsText(i)
         /\ BlocksFor(call'.bytes_written) = BlocksFor(call.bytes_written) + 1
<1>1. PICK b \in FreeBlocks :
        /\ Lowest(b, FreeBlocks)
        /\ fat_table' = Link(b)
        /\ data_blocks' = [data_blocks EXCEPT ![b] = CopyInto(b)]
        /\ call' = [call EXCEPT
             !.first_block = IF @ = None THEN b ELSE @,
             !.prev_block = b,
             !.bytes_written = BytesAfterCopy]
  BY DEF WriteBlock
<1>2. /\ UNCHANGED <<files, reply>>
      /\ call \in WriteCall /\ call.op = "write"
      /\ call.bytes_written < Len(call.data)
  BY OpTells DEF WriteBlock, DiskInv, IInv
<1>3. /\ b \in Blocks /\ b \in Nat /\ b # None /\ fat_table[b] = Free
      /\ EndOfFile # Free /\ b # Free
      /\ \A c \in Blocks : c \in Nat
  BY FileSystemAssumption DEF FreeBlocks, Blocks, EndOfFile, Free, None
<1>4. \A c \in Blocks : c < b <=> fat_table[c] # Free
  BY <1>1, <1>3 DEF Lowest, FreeBlocks, Blocks, DiskInv, IInv, BlocksPrefix
<1>0. PICK w, h, p, d, n, w1 :
        /\ w = call.bytes_written
        /\ h = call.first_block
        /\ p = call.prev_block
        /\ d = call.data
        /\ n = BlocksFor(w)
        /\ w1 = BytesAfterCopy
  OBVIOUS
<1>5. /\ w \in Nat /\ Len(d) \in Nat /\ w < Len(d)
      /\ BlockSize \in Nat \ {0}
      /\ n \in Nat /\ n * BlockSize \in Nat
      /\ w = n * BlockSize
      /\ n = 0 <=> w = 0
  <2>1. w \in Nat /\ Len(d) \in Nat /\ w < Len(d)
    BY <1>0, <1>2 DEF WriteCall
  <2>2. n \in Nat /\ (n = 0 <=> w = 0)
    BY <1>0, <2>1, BlocksForBounds
  <2>3. BlockSize \in Nat \ {0}
    BY FileSystemAssumption
  <2>4. w = n * BlockSize
    BY <1>0, <1>2, <2>1 DEF DiskInv, WriteHolds
  <2>. QED
    BY <2>1, <2>2, <2>3, <2>4, Times
<1>6. /\ w1 = (IF w + BlockSize < Len(d) THEN w + BlockSize ELSE Len(d))
      /\ w1 \in Nat /\ w < w1 /\ w1 <= w + BlockSize /\ w1 <= Len(d)
  BY <1>0, <1>5 DEF BytesAfterCopy
<1>7. (n + 1) * BlockSize = w + BlockSize
  BY <1>5, Times
<1>8. BlocksFor(w1) = n + 1
  <2>1. w1 <= (n + 1) * BlockSize /\ (n + 1) * BlockSize < w1 + BlockSize
    BY <1>5, <1>6, <1>7
  <2>2. n + 1 \in Nat
    BY <1>5
  <2>. QED
    BY <1>6, <2>1, <2>2, BlocksForIs
<1>9. /\ call'.op = "write" /\ call'.data = d /\ call'.prev_block = b
      /\ call'.bytes_written = w1
      /\ call'.first_block = (IF h = None THEN b ELSE h)
  BY <1>0, <1>1, <1>2 DEF WriteCall
<1>10. \A c \in Blocks :
         /\ fat_table'[c] = (IF c = b THEN EndOfFile
                             ELSE IF c = p THEN b ELSE fat_table[c])
         /\ c # b => data_blocks'[c] = data_blocks[c]
  BY <1>0, <1>1, <1>3 DEF Link, DiskInv, IInv, TypeOK
<1>11. \A j \in Offsets :
         data_blocks'[b][j] = IF w + j < w1 THEN d[w + j + 1] ELSE NUL
  <2>1. \A j \in Offsets : j \in Nat /\ j < BlockSize
    BY <1>5 DEF Offsets
  <2>2. \A j \in Offsets : w + j < w1 <=> w + j < Len(d)
    BY <1>5, <1>6, <2>1
  <2>3. data_blocks'[b] = CopyInto(b)
    BY <1>1, <1>3 DEF DiskInv, IInv, TypeOK
  <2>4. \A j \in Offsets : data_blocks[b][j] = NUL
    BY DEF DiskInv, FreeBlank
  <2>. QED
    BY <1>0, <2>2, <2>3, <2>4 DEF CopyInto
<1>12. FreeBlank'
  BY <1>3, <1>10 DEF DiskInv, FreeBlank, FreeBlocks
<1>13. h = None => p = None /\ n = 0 /\ w = 0
  BY <1>0, <1>2, <1>5 DEF DiskInv, IInv, PrevAllocated, WriteHolds
<1>14. h # None =>
         /\ h \in Blocks /\ n # 0
         /\ Extent(h, n) /\ Holds(h, n, d, w)
         /\ p = h + n - 1 /\ p \in Blocks
         /\ b = h + n
  <2>. SUFFICES ASSUME h # None
                PROVE  /\ h \in Blocks /\ n # 0
                       /\ Extent(h, n) /\ Holds(h, n, d, w)
                       /\ p = h + n - 1 /\ p \in Blocks
                       /\ b = h + n
    OBVIOUS
  <2>1. /\ Extent(h, n) /\ Holds(h, n, d, w) /\ p = h + n - 1 /\ w # 0
        /\ \A c \in Blocks : fat_table[c] = Free <=> h + n - 1 < c
    BY <1>0, <1>2 DEF DiskInv, WriteHolds
  <2>2. h \in Blocks /\ p \in Blocks /\ n # 0
    BY <1>5, <2>1 DEF Extent
  <2>3. p < b
    BY <1>3, <2>1
  <2>4. p + 1 < b => p + 1 \in Blocks /\ fat_table[p + 1] = Free
    <3>1. SUFFICES ASSUME p + 1 < b
                   PROVE  p + 1 \in Blocks /\ fat_table[p + 1] = Free
      OBVIOUS
    <3>2. p \in Nat /\ p + 1 \in Blocks
      <4>. DEFINE N == MaxBlocks - 1
      <4>1. p \in Nat /\ p \in 0 .. N /\ b \in 0 .. N /\ N \in Int
        BY <1>3, <2>2, FileSystemAssumption DEF Blocks
      <4>2. p + 1 \in 0 .. N
        BY <3>1, <4>1
      <4>. QED
        BY <4>1, <4>2 DEF Blocks
    <3>3. p < p + 1
      BY <3>2
    <3>4. \A c \in Blocks : p < c => fat_table[c] = Free
      BY <2>1
    <3>. QED
      BY <3>2, <3>3, <3>4
  <2>5. b = p + 1
    BY <1>3, <1>4, <2>2, <2>3, <2>4
  <2>. QED
    BY <1>3, <1>5, <2>1, <2>2, <2>5
<1>15. ASSUME NEW i \in FileSlots, NEW text \in Texts, FileHolds(i, text)
       PROVE  /\ FileHolds(i, text)'
              /\ files[i].start_block # None =>
                   files[i].start_block + BlocksFor(files[i].size) <= b
  <2>0. PICK g, m : g = files[i].start_block /\ m = BlocksFor(Len(text))
    OBVIOUS
  <2>1. m \in Nat /\ (m = 0 <=> Len(text) = 0) /\ Len(text) \in Nat
    BY <2>0, TextsTyped, BlocksForBounds
  <2>2. CASE g = None
    BY <1>2, <1>15, <2>0, <2>2 DEF FileHolds
  <2>3. CASE g # None
    <3>1. Extent(g, m) /\ Holds(g, m, text, Len(text)) /\ m \in Nat \ {0}
      BY <1>15, <2>0, <2>1, <2>3, TextsTyped DEF FileHolds
    <3>2. \A k \in 0 .. m - 1 : g + k \in Blocks /\ g + k < b
      BY <1>4, <3>1, ExtentBlocks DEF DiskInv, IInv
    <3>3. g \in Nat /\ g + m <= b
      <4>1. g \in Nat /\ m - 1 \in 0 .. m - 1
        BY <1>3, <3>1 DEF Extent
      <4>2. g + (m - 1) < b
        BY <3>2, <4>1
      <4>. QED
        BY <1>3, <2>1, <4>1, <4>2
    <3>4. h # None => g + m <= h
      BY <1>0, <1>2, <1>15, <2>0, <2>3 DEF DiskInv, WriteHolds, FileHolds
    <3>5. \A k \in 0 .. m - 1 : g + k # b /\ g + k # p
      <4>. SUFFICES ASSUME NEW k \in 0 .. m - 1
                    PROVE  g + k # b /\ g + k # p
        OBVIOUS
      <4>1. g + k \in Blocks /\ g + k < b
        BY <3>2
      <4>2. CASE h = None
        BY <1>3, <1>13, <4>1, <4>2, NoneIsNoBlock
      <4>3. CASE h # None
        <5>1. g + m <= h /\ h \in Nat /\ p = h + n - 1 /\ n # 0
          BY <1>3, <1>14, <3>4, <4>3
        <5>2. g + k < h
          BY <2>1, <3>3, <5>1
        <5>3. h <= p /\ p \in Nat
          BY <1>5, <5>1
        <5>. QED
          BY <1>3, <3>3, <4>1, <5>1, <5>2, <5>3
      <4>. QED
        BY <4>2, <4>3
    <3>6. \A k \in 0 .. m - 1 : /\ fat_table'[g + k] = fat_table[g + k]
                                /\ data_blocks'[g + k] = data_blocks[g + k]
      BY <1>10, <3>2, <3>5
    <3>7. Extent(g, m)'
      <4>1. /\ m - 1 \in 0 .. m - 1
            /\ \A k \in 0 .. m - 2 : k \in 0 .. m - 1
            /\ g + (m - 1) = g + m - 1
        BY <3>1, <3>3
      <4>2. fat_table'[g + m - 1] = fat_table[g + m - 1]
        BY <3>6, <4>1
      <4>3. \A k \in 0 .. m - 2 : fat_table'[g + k] = fat_table[g + k]
        BY <3>6, <4>1
      <4>. QED
        BY <1>2, <3>1, <4>2, <4>3 DEF Extent
    <3>8. Holds(g, m, text, Len(text))'
      BY <1>2, <3>1, <3>6 DEF Holds
    <3>9. FileHolds(i, text)'
      BY <1>2, <1>15, <2>0, <2>3, <3>7, <3>8 DEF FileHolds
    <3>. QED
      BY <1>15, <2>0, <3>3, <3>9 DEF FileHolds
  <2>. QED
    BY <2>2, <2>3
<1>16. FilesHold'
  BY <1>15 DEF DiskInv, FilesHold
<1>17. \A i \in FileSlots : files[i].start_block # None =>
         files[i].start_block + BlocksFor(files[i].size) <= b
  BY <1>15 DEF DiskInv, FilesHold
<1>18. WriteHolds'
  <2>0. PICK h1 : h1 = IF h = None THEN b ELSE h
    OBVIOUS
  <2>1. h1 \in Nat /\ h1 # None /\ b = h1 + n /\ h1 \in Blocks
    BY <1>3, <1>5, <1>13, <1>14, <2>0
  <2>2. \A k \in 0 .. n - 1 : h # None /\ h1 = h
    BY <1>5, <1>13, <2>0
  <2>3. \A k \in 0 .. n - 1 : h1 + k \in Blocks /\ h1 + k # b
    <3>1. h # None => \A k \in 0 .. n - 1 : h + k \in Blocks
      BY <1>5, <1>14, ExtentBlocks DEF DiskInv, IInv
    <3>2. \A k \in 0 .. n - 1 : h1 + k \in Blocks
      BY <2>2, <3>1
    <3>3. \A k \in 0 .. n - 1 : h1 + k # h1 + n
      BY <1>5, <2>1
    <3>. QED
      BY <2>1, <3>2, <3>3
  <2>4. \A k \in 0 .. n - 1 : fat_table'[h1 + k] = h1 + k + 1
    <3>. SUFFICES ASSUME NEW k \in 0 .. n - 1
                  PROVE  fat_table'[h1 + k] = h1 + k + 1
      OBVIOUS
    <3>1. /\ h1 + k \in Blocks /\ h1 + k # b
          /\ p = h1 + n - 1 /\ Extent(h1, n)
      BY <1>14, <2>2, <2>3
    <3>2. CASE k = n - 1
      BY <1>5, <1>10, <2>1, <3>1, <3>2
    <3>3. CASE k # n - 1
      <4>1. k \in 0 .. n - 2 /\ h1 + k # p
        BY <1>5, <2>1, <3>1, <3>3
      <4>2. fat_table[h1 + k] = h1 + k + 1
        BY <3>1, <4>1 DEF Extent
      <4>. QED
        BY <1>10, <3>1, <4>1, <4>2
    <3>. QED
      BY <3>2, <3>3
  <2>5. Extent(h1, n + 1)'
    <3>1. /\ h1 + (n + 1) - 1 = b
          /\ \A k \in 0 .. (n + 1) - 2 : k \in 0 .. n - 1
      BY <1>5, <2>1
    <3>2. fat_table'[b] = EndOfFile
      BY <1>3, <1>10
    <3>. QED
      BY <1>3, <2>1, <2>4, <3>1, <3>2 DEF Extent
  <2>6. Holds(h1, n + 1, d, w1)'
    <3>. SUFFICES ASSUME NEW k \in 0 .. n, NEW j \in Offsets
                  PROVE  data_blocks'[h1 + k][j] =
                           IF k * BlockSize + j < w1
                           THEN d[k * BlockSize + j + 1] ELSE NUL
      BY <1>5, <1>9 DEF Holds
    <3>1. j \in Nat /\ j < BlockSize
      BY <1>5 DEF Offsets
    <3>2. CASE k = n
      BY <1>5, <1>11, <2>1, <3>2
    <3>3. CASE k # n
      <4>1. k \in 0 .. n - 1 /\ k \in Nat
        BY <1>5, <3>3
      <4>2. Holds(h1, n, d, w)
        BY <1>14, <2>2, <4>1
      <4>3. data_blocks[h1 + k][j] =
              IF k * BlockSize + j < w THEN d[k * BlockSize + j + 1] ELSE NUL
        BY <4>1, <4>2 DEF Holds
      <4>4. k * BlockSize \in Nat /\ k * BlockSize + BlockSize <= n * BlockSize
        BY <1>5, <4>1, Times
      <4>5. k * BlockSize + j < w /\ k * BlockSize + j < w1
        BY <1>5, <1>6, <3>1, <4>4
      <4>6. data_blocks'[h1 + k] = data_blocks[h1 + k]
        BY <1>10, <2>3, <4>1
      <4>. QED
        BY <4>3, <4>5, <4>6
    <3>. QED
      BY <3>2, <3>3
  <2>7. \A c \in Blocks : fat_table'[c] = Free <=> b < c
    <3>1. \A c \in Blocks : fat_table'[c] = Free <=> c # b /\ fat_table[c] = Free
      <4>1. p \notin Blocks \/ fat_table[p] # Free
        <5>1. CASE h = None
          BY <1>13, <5>1, NoneIsNoBlock, Zenon
        <5>2. CASE h # None
          <6>1. h \in Nat /\ p = h + n - 1 /\ b = h + n /\ p \in Blocks
            BY <1>3, <1>14, <5>2
          <6>. QED
            BY <1>3, <1>4, <1>5, <6>1
        <5>. QED
          BY <5>1, <5>2
      <4>. QED
        BY <1>3, <1>10, <4>1
    <3>. QED
      BY <1>3, <1>4, <3>1
  <2>8. \A i \in FileSlots : files[i].start_block # None =>
          files[i].start_block + BlocksFor(files[i].size) <= h1
    BY <1>0, <1>2, <1>17, <2>0 DEF DiskInv, WriteHolds
  <2>9. w1 < Len(d) => w1 = (n + 1) * BlockSize
    BY <1>5, <1>6, <1>7
  <2>10. d \in Data /\ w1 # 0
    <3>1. d \in Data
      BY <1>0, <1>2 DEF DiskInv, WriteHolds
    <3>. QED
      BY <1>5, <1>6, <3>1
  <2>11. call'.first_block = h1 /\ call'.prev_block = h1 + (n + 1) - 1
    BY <1>5, <1>9, <2>0, <2>1
  <2>12. h1 + (n + 1) - 1 = b
    BY <1>5, <2>1
  <2>13. SUFFICES ASSUME NEW ww, NEW nn, NEW hh, NEW dd,
                  ww = call'.bytes_written, nn = BlocksFor(ww),
                  hh = call'.first_block, dd = call'.data
           PROVE  /\ dd \in Data
                  /\ hh = None <=> ww = 0
                  /\ ww < Len(dd) => ww = nn * BlockSize
                  /\ Extent(hh, nn)' /\ Holds(hh, nn, dd, ww)'
                  /\ call'.prev_block = hh + nn - 1
                  /\ \A c \in Blocks : fat_table'[c] = Free <=> hh + nn - 1 < c
                  /\ \A i \in FileSlots : files'[i].start_block # None =>
                       files'[i].start_block + BlocksFor(files'[i].size) <= hh
    BY DEF WriteHolds
  <2>14. ww = w1 /\ nn = n + 1 /\ hh = h1 /\ dd = d
    BY <1>8, <1>9, <2>11, <2>13
  <2>. QED
    BY <1>2, <2>1, <2>5, <2>6, <2>7, <2>8, <2>9, <2>10, <2>11, <2>12, <2>14
<1>19. DiskInv'
  BY <1>2, <1>9, <1>12, <1>16, <1>18
  DEF DiskInv, ReadHolds, ReplyHolds, Idle
<1>20. \A i \in FileSlots : KeepsText(i)
  BY <1>15 DEF KeepsText
<1>. QED
  BY <1>0, <1>8, <1>9, <1>19, <1>20

(* The write is done: its blocks are the file's, whatever the file had.     *)
LEMMA EndWriteKeepsDisk ==
  ASSUME DiskInv, EndWrite, IInv'
  PROVE  /\ DiskInv'
         /\ call.data \in Texts
         /\ \A k, d : k = call.file_index /\ d = call.data => FileHolds(k, d)'
         /\ \A i \in FileSlots \ {call.file_index} : KeepsText(i)
<1>1. /\ UNCHANGED <<fat_table, data_blocks>>
      /\ call \in WriteCall /\ call.op = "write"
      /\ call.bytes_written = Len(call.data)
      /\ call' = Idle
      /\ reply'.op = "write"
  BY OpTells DEF EndWrite, Return, Reply, DiskInv, IInv
<1>2. PICK k, h, d : k = call.file_index /\ h = call.first_block /\ d = call.data
  OBVIOUS
<1>3. k \in FileSlots /\ d \in Texts /\ Len(d) \in Nat
  BY <1>1, <1>2 DEF WriteCall, Texts, DiskInv, WriteHolds
<1>4. /\ files'[k].start_block = h /\ files'[k].size = Len(d)
      /\ \A i \in FileSlots \ {k} : files'[i] = files[i]
  BY <1>2, <1>3 DEF EndWrite, DiskInv, IInv, TypeOK, Entry
<1>5. FileHolds(k, d)'
  <2>1. h = None <=> d = <<>>
    BY <1>1, <1>2, <1>3, TextsTyped DEF DiskInv, WriteHolds
  <2>2. h # None => /\ Extent(h, BlocksFor(Len(d)))
                    /\ Holds(h, BlocksFor(Len(d)), d, Len(d))
    BY <1>1, <1>2 DEF DiskInv, WriteHolds
  <2>3. h # None => /\ Extent(h, BlocksFor(Len(d)))'
                    /\ Holds(h, BlocksFor(Len(d)), d, Len(d))'
    BY <1>1, <2>2 DEF Extent, Holds
  <2>. QED
    BY <1>4, <2>1, <2>3 DEF FileHolds
<1>6. \A i \in FileSlots \ {k} : \A text \in Texts :
        FileHolds(i, text) => FileHolds(i, text)'
  BY <1>1, <1>4 DEF FileHolds, Extent, Holds
<1>7. FilesHold'
  BY <1>3, <1>5, <1>6, Zenon DEF DiskInv, FilesHold
<1>8. FreeBlank'
  BY <1>1 DEF DiskInv, FreeBlank, FreeBlocks
<1>9. DiskInv'
  BY <1>1, <1>7, <1>8
  DEF DiskInv, WriteHolds, ReadHolds, ReplyHolds, Idle
<1>10. \A i, e : i = call.file_index /\ e = call.data => FileHolds(i, e)'
  BY <1>2, <1>5, Zenon
<1>11. \A i \in FileSlots \ {call.file_index} : KeepsText(i)
  BY <1>2, <1>6 DEF KeepsText
<1>. QED
  BY <1>2, <1>3, <1>9, <1>10, <1>11

LEMMA ReadBlockKeepsDisk ==
  ASSUME DiskInv, ReadBlock, IInv'
  PROVE  DiskInv'
<1>1. /\ UNCHANGED <<fat_table, data_blocks, files, reply>>
      /\ call \in ReadCall /\ call.op = "read"
  BY OpTells DEF ReadBlock, DiskInv, IInv
<1>2. PICK i \in FileSlots, k \in Nat :
        /\ Lowest(i, SlotsNamed(call.name))
        /\ k <= BlocksFor(files[i].size)
        /\ call.block = IF k < BlocksFor(files[i].size)
                        THEN files[i].start_block + k
                        ELSE IF BlocksFor(files[i].size) = 0 THEN None
                        ELSE EndOfFile
        /\ Copied(i, k, call.buffer)
  BY <1>1 DEF DiskInv, ReadHolds
<1>3. PICK h, n, bytes : /\ h = files[i].start_block
                         /\ n = BlocksFor(files[i].size)
                         /\ bytes = call.buffer
  OBVIOUS
<1>4. /\ bytes \in Seq(Bytes \cup {NUL})
      /\ Copied(i, k, bytes)
      /\ Len(bytes) = k * BlockSize
      /\ BlockSize \in Nat \ {0}
  BY <1>1, <1>2, <1>3, FileSystemAssumption DEF ReadCall, Copied
<1>5. n \in Nat /\ k < n /\ call.block = h + k
  <2>1. files[i].size \in Nat
    BY DEF DiskInv, IInv, TypeOK, Entry
  <2>2. n \in Nat
    BY <1>3, <2>1, BlocksForBounds
  <2>3. call.block # None /\ call.block # EndOfFile
    BY DEF ReadBlock, Free, None
  <2>. QED
    BY <1>2, <1>3, <2>2, <2>3
<1>6. Extent(h, n)
  <2>1. PICK text \in Texts : FileHolds(i, text)
    BY DEF DiskInv, FilesHold
  <2>2. BlocksFor(Len(text)) = n /\ Len(text) \in Nat
    BY <1>3, <2>1, TextsTyped DEF FileHolds
  <2>3. text # <<>>
    BY <1>5, <2>2, BlocksForBounds
  <2>. QED
    BY <1>3, <2>1, <2>2, <2>3 DEF FileHolds
<1>7. h + k \in Blocks /\ h \in Nat
  BY <1>5, <1>6, ExtentBlocks, FileSystemAssumption
  DEF DiskInv, IInv, Extent, Blocks
<1>8. fat_table[h + k] = IF k + 1 < n THEN h + (k + 1) ELSE EndOfFile
  <2>1. CASE k + 1 < n
    BY <1>5, <1>6, <1>7, <2>1 DEF Extent
  <2>2. CASE ~(k + 1 < n)
    <3>1. k = n - 1 /\ h + n - 1 = h + k
      BY <1>5, <1>7, <2>2
    <3>. QED
      BY <1>6, <2>2, <3>1 DEF Extent
  <2>. QED
    BY <2>1, <2>2
<1>9. PICK b : b = BlockBytes(h + k)
  OBVIOUS
<1>10. /\ b \in Seq(Bytes \cup {NUL}) /\ Len(b) = BlockSize
       /\ \A j \in Offsets : b[j + 1] = data_blocks[h + k][j]
  <2>1. \A j \in 1 .. BlockSize : j - 1 \in Offsets
    BY <1>4 DEF Offsets
  <2>2. \A j \in 1 .. BlockSize : data_blocks[h + k][j - 1] \in Bytes \cup {NUL}
    BY <1>7, <2>1 DEF DiskInv, IInv, TypeOK
  <2>3. b \in [1 .. BlockSize -> Bytes \cup {NUL}]
    BY <1>9, <2>2 DEF BlockBytes
  <2>4. b \in Seq(Bytes \cup {NUL}) /\ Len(b) = BlockSize
    BY <1>4, <2>3, SeqDef
  <2>5. \A j \in Offsets : j + 1 \in 1 .. BlockSize /\ (j + 1) - 1 = j
    BY <1>4 DEF Offsets
  <2>. QED
    BY <1>9, <2>4, <2>5 DEF BlockBytes
<1>11. /\ call'.op = "read" /\ call'.name = call.name
       /\ call'.buffer = bytes \o b
       /\ call'.block = fat_table[h + k]
  BY <1>1, <1>3, <1>5, <1>9 DEF ReadBlock, ReadCall
<1>12. PICK both : both = bytes \o b
  OBVIOUS
<1>13. Copied(i, k + 1, both)
  <2>1. /\ k * BlockSize \in Nat
        /\ (k + 1) * BlockSize = k * BlockSize + BlockSize
    BY <1>4, Times
  <2>2. /\ Len(both) = k * BlockSize + BlockSize
        /\ \A x \in 1 .. k * BlockSize : both[x] = bytes[x]
        /\ \A x \in k * BlockSize + 1 .. k * BlockSize + BlockSize :
             both[x] = b[x - k * BlockSize]
    <3>1. /\ Len(both) = Len(bytes) + Len(b)
          /\ \A x \in 1 .. Len(bytes) + Len(b) :
               both[x] = IF x <= Len(bytes) THEN bytes[x]
                         ELSE b[x - Len(bytes)]
      BY <1>4, <1>10, <1>12, ConcatProperties, Zenon
    <3>2. PICK K \in Nat : K = k * BlockSize
      BY <2>1
    <3>. QED
      BY <1>4, <1>10, <3>1, <3>2
  <2>3. ASSUME NEW m \in 0 .. k, NEW j \in Offsets
        PROVE  both[m * BlockSize + j + 1] = data_blocks[h + m][j]
    <3>1. j \in Nat /\ j < BlockSize
      BY <1>4 DEF Offsets
    <3>2. CASE m = k
      <4>1. /\ k * BlockSize + j + 1
                 \in k * BlockSize + 1 .. k * BlockSize + BlockSize
            /\ (k * BlockSize + j + 1) - k * BlockSize = j + 1
        BY <1>4, <2>1, <3>1
      <4>2. both[k * BlockSize + j + 1] = b[j + 1]
        BY <2>2, <4>1
      <4>. QED
        BY <1>10, <3>2, <4>2
    <3>3. CASE m # k
      <4>1. m \in Nat /\ m < k /\ m \in 0 .. k - 1
        BY <3>3
      <4>2. m * BlockSize \in Nat /\ m * BlockSize + BlockSize <= k * BlockSize
        BY <1>4, <4>1, Times
      <4>3. m * BlockSize + j + 1 \in 1 .. k * BlockSize
        BY <1>4, <2>1, <3>1, <4>2
      <4>. QED
        BY <1>3, <1>4, <2>2, <4>1, <4>3 DEF Copied
    <3>. QED
      BY <3>2, <3>3
  <2>4. (k + 1) - 1 = k
    OBVIOUS
  <2>. QED
    BY <1>3, <2>1, <2>2, <2>3, <2>4 DEF Copied
<1>14. ReadHolds'
  <2>1. Copied(i, k + 1, call.buffer)'
    BY <1>1, <1>11, <1>12, <1>13 DEF Copied
  <2>2. Lowest(i, SlotsNamed(call.name))'
    BY <1>1, <1>2, <1>11 DEF Lowest, SlotsNamed
  <2>3. /\ k + 1 \in Nat /\ k + 1 <= n
        /\ call'.block = IF k + 1 < n THEN h + (k + 1)
                         ELSE IF n = 0 THEN None ELSE EndOfFile
    BY <1>5, <1>8, <1>11
  <2>. QED
    BY <1>1, <1>3, <2>1, <2>2, <2>3 DEF ReadHolds
<1>15. FilesHold' /\ FreeBlank'
  BY <1>1, DiskUnchanged DEF DiskInv
<1>. QED
  BY <1>11, <1>14, <1>15 DEF DiskInv, WriteHolds, ReplyHolds, Idle

(* The last block was read: the answer is the whole file.                   *)
LEMMA EndReadKeepsDisk ==
  ASSUME DiskInv, EndRead, IInv'
  PROVE  /\ DiskInv'
         /\ \E i \in FileSlots :
              /\ Lowest(i, SlotsNamed(call.name))
              /\ Copied(i, BlocksFor(files[i].size), call.buffer)
<1>1. /\ UNCHANGED <<fat_table, data_blocks, files>>
      /\ call \in ReadCall /\ call.op = "read"
      /\ call' = Idle
      /\ reply'.ok = TRUE /\ reply'.op = "read"
      /\ reply'.name = call.name /\ reply'.bytes = call.buffer
  BY OpTells DEF EndRead, Return, Reply, DiskInv, IInv
<1>2. PICK i \in FileSlots, k \in Nat :
        /\ Lowest(i, SlotsNamed(call.name))
        /\ k <= BlocksFor(files[i].size)
        /\ call.block = IF k < BlocksFor(files[i].size)
                        THEN files[i].start_block + k
                        ELSE IF BlocksFor(files[i].size) = 0 THEN None
                        ELSE EndOfFile
        /\ Copied(i, k, call.buffer)
  BY <1>1 DEF DiskInv, ReadHolds
<1>3. PICK h, n : h = files[i].start_block /\ n = BlocksFor(files[i].size)
  OBVIOUS
<1>4. PICK text \in Texts : FileHolds(i, text)
  BY DEF DiskInv, FilesHold
<1>5. n = BlocksFor(Len(text)) /\ n \in Nat /\ Len(text) \in Nat
  BY <1>3, <1>4, TextsTyped, BlocksForBounds DEF FileHolds
<1>6. k = n
  <2>1. SUFFICES ASSUME k < n
                 PROVE  FALSE
    BY <1>2, <1>3, <1>5
  <2>2. n \in Nat \ {0} /\ k \in 0 .. n - 1
    BY <1>5, <2>1
  <2>3. text # <<>>
    BY <1>5, <2>2, BlocksForBounds
  <2>4. Extent(h, n)
    BY <1>3, <1>4, <1>5, <2>3 DEF FileHolds
  <2>5. call.block \in Blocks
    BY <1>2, <1>3, <2>1, <2>2, <2>4, ExtentBlocks DEF DiskInv, IInv
  <2>. QED
    BY <2>5, NoneIsNoBlock DEF EndRead
<1>7. ReplyHolds'
  <2>1. Copied(i, BlocksFor(files[i].size), reply.bytes)'
    BY <1>1, <1>2, <1>3, <1>6 DEF Copied
  <2>2. Lowest(i, SlotsNamed(reply.name))'
    BY <1>1, <1>2 DEF Lowest, SlotsNamed
  <2>. QED
    BY <1>1, <2>1, <2>2 DEF ReplyHolds
<1>8. FilesHold' /\ FreeBlank'
  BY <1>1, DiskUnchanged DEF DiskInv
<1>9. DiskInv'
  BY <1>1, <1>7, <1>8 DEF DiskInv, WriteHolds, ReadHolds, Idle
<1>. QED
  BY <1>2, <1>3, <1>6, <1>9

LEMMA OtherStepsKeepDisk ==
  ASSUME DiskInv, DiskFull \/ UNCHANGED vars, IInv'
  PROVE  DiskInv'
<1>1. UNCHANGED <<fat_table, data_blocks, files>>
  BY DEF DiskFull, vars
<1>2. FilesHold' /\ FreeBlank'
  BY <1>1, DiskUnchanged DEF DiskInv
<1>3. CASE DiskFull
  <2>1. call' = Idle /\ reply'.op = "write"
    BY <1>3 DEF DiskFull, Return, Reply
  <2>. QED
    BY <1>2, <2>1 DEF DiskInv, WriteHolds, ReadHolds, ReplyHolds, Idle
<1>4. CASE UNCHANGED vars
  <2>1. WriteHolds'
    BY <1>4 DEF vars, DiskInv, WriteHolds, Extent, Holds
  <2>2. ReadHolds' /\ ReplyHolds'
    BY <1>4 DEF vars, DiskInv, ReadHolds, ReplyHolds, Copied, Lowest, SlotsNamed
  <2>. QED
    BY <1>2, <2>1, <2>2 DEF DiskInv
<1>. QED
  BY <1>3, <1>4

LEMMA NextKeepsDisk == DiskInv /\ [Next]_vars => DiskInv'
<1>. SUFFICES ASSUME DiskInv, [Next]_vars
              PROVE  DiskInv'
  OBVIOUS
<1>1. IInv'
  BY NextPreservesIInv DEF DiskInv
<1>. QED
  BY <1>1, CreateFileKeepsDisk, BeginWriteKeepsDisk, BeginReadKeepsDisk,
     WriteBlockKeepsDisk, EndWriteKeepsDisk, ReadBlockKeepsDisk,
     EndReadKeepsDisk, OtherStepsKeepDisk
  DEF Next, CallStep

(* Every file holds one of the texts that were given for it, whole, and     *)
(* every read comes by all of it, whatever happened to other files.         *)
THEOREM SpecDiskInv == Spec => []DiskInv
  BY InitDiskInv, NextKeepsDisk, PTL DEF Spec

-----------------------------------------------------------------------------
(* What a read prints.                                                      *)
LEMMA PrintedIsText ==
  ASSUME NEW text \in Texts
  PROVE  /\ Printed(Store!Padded(text)) = text
         /\ Store!Padded(text) = <<>> <=> text = <<>>
<1>1. text \in Seq(Bytes) /\ Len(text) \in Nat /\ BlockSize \in Nat \ {0}
  BY TextsTyped, FileSystemAssumption
<1>2. PICK N \in Nat : N = BlockSize * BlocksFor(Len(text))
  BY <1>1, BlocksForBounds, Times
<1>3. Len(text) <= N /\ (Len(text) = 0 <=> N = 0)
  <2>1. PICK n \in Nat : n = BlocksFor(Len(text))
    BY <1>1, BlocksForBounds
  <2>2. N = n * BlockSize
    BY <1>1, <1>2, <2>1
  <2>3. Len(text) <= n * BlockSize /\ (n = 0 <=> Len(text) = 0)
    BY <1>1, <2>1, BlocksForBounds
  <2>4. n # 0 => n * BlockSize # 0
    BY <1>1
  <2>. QED
    BY <1>1, <2>2, <2>3, <2>4
<1>4. PICK bytes : bytes = Store!Padded(text)
  OBVIOUS
<1>5. bytes = [m \in 1 .. N |-> IF m <= Len(text) THEN text[m] ELSE NUL]
  BY <1>2, <1>4 DEF Store!Padded, Store!BlocksFor, BlocksFor
<1>6. /\ Len(bytes) = N
      /\ \A m \in 1 .. N : bytes[m] = IF m <= Len(text) THEN text[m] ELSE NUL
  BY <1>5
<1>7. \A m \in 1 .. Len(text) : text[m] # NUL
  BY <1>1, FileSystemAssumption, ElementOfSeq
<1>8. PICK ends : ends = {m \in 1 .. Len(bytes) : bytes[m] = NUL}
  OBVIOUS
<1>9. \A m \in 1 .. N : m \in ends <=> Len(text) < m
  BY <1>1, <1>6, <1>7, <1>8
<1>10. CASE ends = {}
  <2>1. N = Len(text)
    BY <1>1, <1>3, <1>9, <1>10
  <2>2. bytes = text
    BY <1>1, <1>5, <2>1
  <2>3. Printed(bytes) = bytes
    BY <1>8, <1>10 DEF Printed
  <2>. QED
    BY <1>3, <1>4, <1>6, <2>1, <2>2, <2>3
<1>11. CASE ends # {}
  <2>1. Len(text) < N /\ ends \subseteq 1 .. N
    BY <1>1, <1>3, <1>6, <1>8, <1>9, <1>11
  <2>2. PICK e \in Nat : e = Len(text) + 1
    BY <1>1
  <2>3. e \in ends /\ \A m \in ends : e <= m
    BY <1>1, <1>9, <2>1, <2>2
  <2>4. \A m \in ends : (\A x \in ends : m <= x) => m = e
    BY <2>1, <2>3
  <2>5. (CHOOSE i \in ends : Lowest(i, ends)) = e
    BY <2>3, <2>4 DEF Lowest
  <2>6. Printed(bytes) = SubSeq(bytes, 1, e - 1)
    BY <1>8, <1>11, <2>5 DEF Printed
  <2>7. SubSeq(bytes, 1, Len(text)) = [m \in 1 .. Len(text) |-> text[m]]
    <3>1. SubSeq(bytes, 1, Len(text)) = [m \in 1 .. Len(text) |-> bytes[m]]
      BY <1>1, <1>6, <2>1
    <3>2. \A m \in 1 .. Len(text) : bytes[m] = text[m]
      BY <1>1, <1>3, <1>6
    <3>. QED
      BY <3>1, <3>2
  <2>8. text = [m \in 1 .. Len(text) |-> text[m]]
    BY <1>1
  <2>9. e - 1 = Len(text)
    BY <1>1, <2>2
  <2>10. bytes = <<>> <=> text = <<>>
    BY <1>1, <1>3, <1>6, <2>1
  <2>. QED
    BY <1>4, <2>6, <2>7, <2>8, <2>9, <2>10
<1>. QED
  BY <1>10, <1>11

LEMMA DiskInvShowsText == DiskInv => ReadShowsText
<1>. SUFFICES ASSUME DiskInv, call = Idle, reply.op = "read"
              PROVE  LET slots == {i \in SlotsNamed(reply.name) :
                                     Lowest(i, SlotsNamed(reply.name))}
                         held == {TextOf(files[i]) : i \in slots} \ {<<>>}
                     IN  IF held = {} THEN Answer = <<"Read failed">>
                         ELSE Answer \in held
  BY DEF ReadShowsText
<1>. DEFINE slots == {i \in SlotsNamed(reply.name) :
                       Lowest(i, SlotsNamed(reply.name))}
            held == {TextOf(files[i]) : i \in slots} \ {<<>>}
<1>1. Answer = IF reply.ok /\ reply.bytes # <<>> THEN Printed(reply.bytes)
               ELSE <<"Read failed">>
  BY DEF Answer
<1>2. reply.ok \in BOOLEAN /\ reply.bytes \in Seq(Bytes \cup {NUL})
  BY DEF DiskInv, IInv, TypeOK, ReplyType
<1>3. CASE ~reply.ok
  <2>1. SlotsNamed(reply.name) = {}
    BY <1>3 DEF DiskInv, ReplyHolds
  <2>2. held = {}
    BY <2>1
  <2>3. Answer = <<"Read failed">>
    BY <1>1, <1>3
  <2>. QED
    BY <2>2, <2>3
<1>4. CASE reply.ok
  <2>1. PICK i \in FileSlots :
          /\ Lowest(i, SlotsNamed(reply.name))
          /\ Copied(i, BlocksFor(files[i].size), reply.bytes)
    BY <1>4 DEF DiskInv, ReplyHolds
  <2>2. PICK text \in Texts : FileHolds(i, text)
    BY DEF DiskInv, FilesHold
  <2>3. TextOf(files[i]) = text
    BY <2>2, TextOfHeld DEF DiskInv, IInv
  <2>4. slots = {i}
    <3>1. \A k \in SlotsNamed(reply.name) : k \in Nat
      BY FileSystemAssumption DEF SlotsNamed, FileSlots
    <3>. QED
      BY <2>1, <3>1 DEF Lowest
  <2>5. reply.bytes = Store!Padded(text)
    BY <1>2, <2>1, <2>2, CopiedIsPadded DEF DiskInv, IInv
  <2>6. held = {text} \ {<<>>}
    BY <2>3, <2>4
  <2>7. CASE text = <<>>
    <3>1. held = {}
      BY <2>6, <2>7
    <3>2. Answer = <<"Read failed">>
      BY <1>1, <2>5, <2>7, PrintedIsText
    <3>. QED
      BY <3>1, <3>2
  <2>8. CASE text # <<>>
    <3>1. held = {text}
      BY <2>6, <2>8
    <3>2. Answer = text
      BY <1>1, <1>4, <2>5, <2>8, PrintedIsText
    <3>. QED
      BY <3>1, <3>2
  <2>. QED
    BY <2>7, <2>8
<1>. QED
  BY <1>2, <1>3, <1>4

-----------------------------------------------------------------------------
(* The refinement.  Free blocks and free slots are the upper ends of their  *)
(* tables.                                                                  *)
LEMMA UpperEnd ==
  ASSUME NEW N \in Nat, NEW S \in SUBSET (0 .. N - 1),
         \A a, b \in 0 .. N - 1 : a < b /\ a \in S => b \in S
  PROVE  \E u \in 0 .. N : S = u .. N - 1 /\ Cardinality(S) = N - u
<1>1. S \cup {N} \in SUBSET Nat /\ S \cup {N} # {}
  OBVIOUS
<1>2. PICK u \in S \cup {N} : \A m \in S \cup {N} : u <= m
  BY <1>1, SmallestElement
<1>3. u \in 0 .. N
  BY <1>2
<1>4. S = u .. N - 1
  <2>1. ASSUME NEW a \in S
        PROVE  a \in u .. N - 1
    BY <1>2, <1>3
  <2>2. ASSUME NEW a \in u .. N - 1
        PROVE  a \in S
    BY <1>2, <1>3
  <2>. QED
    BY <2>1, <2>2
<1>5. Cardinality(u .. N - 1) = IF u > N - 1 THEN 0 ELSE (N - 1) - u + 1
  BY <1>3, FS_Interval
<1>. QED
  BY <1>3, <1>4, <1>5

(* The number of free blocks, and of entries.                               *)
LEMMA Counted ==
  DiskInv =>
    /\ IsFiniteSet(FreeBlocks) /\ Cardinality(FreeBlocks) \in Nat
    /\ FreeBlocks = {} => Cardinality(FreeBlocks) = 0
    /\ \E u \in 0 .. MaxFiles :
         /\ MaxFiles - Cardinality(FreeSlots) = u
         /\ \A i \in FileSlots : files[i].name = NoName <=> u <= i
<1>. SUFFICES ASSUME DiskInv
              PROVE  /\ IsFiniteSet(FreeBlocks) /\ Cardinality(FreeBlocks) \in Nat
                     /\ FreeBlocks = {} => Cardinality(FreeBlocks) = 0
                     /\ \E u \in 0 .. MaxFiles :
                          /\ MaxFiles - Cardinality(FreeSlots) = u
                          /\ \A i \in FileSlots :
                               files[i].name = NoName <=> u <= i
  OBVIOUS
<1>1. MaxBlocks \in Nat /\ MaxFiles \in Nat
  BY FileSystemAssumption
<1>2. IsFiniteSet(FreeBlocks)
  <2>1. IsFiniteSet(Blocks) /\ FreeBlocks \subseteq Blocks
    BY <1>1, FS_Interval DEF Blocks, FreeBlocks
  <2>. QED
    BY <2>1, FS_Subset
<1>3. PICK u \in 0 .. MaxFiles :
        FreeSlots = u .. MaxFiles - 1 /\ Cardinality(FreeSlots) = MaxFiles - u
  <2>1. FreeSlots \in SUBSET (0 .. MaxFiles - 1)
    BY DEF FreeSlots, FileSlots
  <2>2. \A a, b \in 0 .. MaxFiles - 1 : a < b /\ a \in FreeSlots => b \in FreeSlots
    BY DEF FreeSlots, FileSlots, DiskInv, IInv, SlotsPrefix
  <2>. QED
    BY <1>1, <2>1, <2>2, UpperEnd
<1>4. \A i \in FileSlots : files[i].name = NoName <=> u <= i
  <2>1. \A i \in FileSlots : files[i].name = NoName <=> i \in u .. MaxFiles - 1
    BY <1>3 DEF FreeSlots
  <2>. QED
    BY <1>1, <2>1 DEF FileSlots
<1>5. MaxFiles - Cardinality(FreeSlots) = u
  BY <1>1, <1>3
<1>. QED
  BY <1>2, <1>3, <1>4, <1>5, FS_CardinalityType, FS_EmptySet

(* The entries FileStore shows are the entries in use, in their order.      *)
LEMMA Shown ==
  DiskInv =>
    \E u \in 0 .. MaxFiles :
      /\ entriesBar = [i \in 1 .. u |->
           [name |-> files[i - 1].name, text |-> TextOf(files[i - 1])]]
      /\ \A i \in FileSlots : files[i].name = NoName <=> u <= i
      /\ \A n \in Names : SlotsNamed(n) = {} => Store!Named(n) = {}
      /\ \A n \in Names : \A i \in FileSlots :
           Lowest(i, SlotsNamed(n)) =>
             /\ i + 1 \in 1 .. u
             /\ i + 1 \in Store!Named(n) /\ Store!IsFirst(i + 1, n)
<1>. SUFFICES ASSUME DiskInv
              PROVE  \E u \in 0 .. MaxFiles :
                       /\ entriesBar = [i \in 1 .. u |->
                            [name |-> files[i - 1].name,
                             text |-> TextOf(files[i - 1])]]
                       /\ \A i \in FileSlots : files[i].name = NoName <=> u <= i
                       /\ \A n \in Names :
                            SlotsNamed(n) = {} => Store!Named(n) = {}
                       /\ \A n \in Names : \A i \in FileSlots :
                            Lowest(i, SlotsNamed(n)) =>
                              /\ i + 1 \in 1 .. u
                              /\ i + 1 \in Store!Named(n)
                              /\ Store!IsFirst(i + 1, n)
  OBVIOUS
<1>1. PICK u \in 0 .. MaxFiles :
        /\ MaxFiles - Cardinality(FreeSlots) = u
        /\ \A i \in FileSlots : files[i].name = NoName <=> u <= i
  BY Counted
<1>2. PICK e : e = entriesBar
  OBVIOUS
<1>3. e = [i \in 1 .. u |->
            [name |-> files[i - 1].name, text |-> TextOf(files[i - 1])]]
  BY <1>1, <1>2 DEF entriesBar
<1>4. MaxFiles \in Nat /\ NoName \notin Names
  BY FileSystemAssumption
<1>5. ASSUME NEW n \in Names
      PROVE  \A i : i \in Store!Named(n) <=> i \in Int /\ i - 1 \in SlotsNamed(n)
  <2>1. \A i : i \in Store!Named(n) <=> i \in 1 .. u /\ files[i - 1].name = n
    <3>1. \A i : i \in Store!Named(n) <=> i \in DOMAIN e /\ e[i].name = n
      BY <1>2 DEF Store!Named
    <3>2. DOMAIN e = 1 .. u /\ \A i \in 1 .. u : e[i].name = files[i - 1].name
      BY <1>3
    <3>. QED
      BY <3>1, <3>2
  <2>2. \A i \in 1 .. u : i \in Int /\ i - 1 \in FileSlots
    BY <1>1, <1>4 DEF FileSlots
  <2>3. ASSUME NEW i \in Int, i - 1 \in SlotsNamed(n)
        PROVE  i \in 1 .. u /\ files[i - 1].name = n
    <3>1. i - 1 \in FileSlots /\ files[i - 1].name = n
      BY <2>3 DEF SlotsNamed
    <3>2. ~(u <= i - 1)
      BY <1>1, <1>4, <3>1, Zenon
    <3>3. 0 <= i - 1
      BY <3>1 DEF FileSlots
    <3>. QED
      BY <3>1, <3>2, <3>3
  <2>4. \A i \in 1 .. u : files[i - 1].name = n => i - 1 \in SlotsNamed(n)
    BY <2>2 DEF SlotsNamed
  <2>. QED
    BY <2>1, <2>2, <2>3, <2>4, Zenon
<1>6. ASSUME NEW n \in Names, SlotsNamed(n) = {}
      PROVE  Store!Named(n) = {}
  BY <1>5, <1>6
<1>7. ASSUME NEW n \in Names, NEW i \in FileSlots, Lowest(i, SlotsNamed(n))
      PROVE  /\ i + 1 \in 1 .. u
             /\ i + 1 \in Store!Named(n)
             /\ Store!IsFirst(i + 1, n)
  <2>1. i \in Nat /\ i + 1 \in Int /\ (i + 1) - 1 = i /\ i \in SlotsNamed(n)
    BY <1>4, <1>7 DEF FileSlots, Lowest
  <2>2. i + 1 \in Store!Named(n)
    BY <1>5, <2>1
  <2>3. files[i].name = n
    BY <2>1 DEF SlotsNamed
  <2>4. ~(u <= i)
    BY <1>1, <1>4, <2>3
  <2>5. \A j \in Store!Named(n) : i + 1 <= j
    <3>1. \A j \in Store!Named(n) : j \in Int /\ i <= j - 1
      BY <1>5, <1>7 DEF Lowest
    <3>. QED
      BY <2>1, <3>1
  <2>. QED
    BY <2>1, <2>2, <2>4, <2>5 DEF Store!IsFirst
<1>. QED
  BY <1>1, <1>2, <1>3, <1>6, <1>7, Zenon

TextsAreHeld ==
  TypeOK => \A i \in FileSlots : \A text \in Texts :
              FileHolds(i, text) => TextOf(files[i]) = text

LEMMA AlwaysHeld == TextsAreHeld
  BY TextOfHeld DEF TextsAreHeld

LEMMA TextKept ==
  ASSUME DiskInv, DiskInv', NEW i \in FileSlots, KeepsText(i)
  PROVE  TextOf(files[i])' = TextOf(files[i])
<1>1. TextsAreHeld'
  BY AlwaysHeld, PTL
<1>2. PICK text \in Texts : FileHolds(i, text)
  BY DEF DiskInv, FilesHold
<1>3. FileHolds(i, text)'
  BY <1>2 DEF KeepsText
<1>4. TextOf(files[i])' = text
  BY <1>1, <1>3 DEF TextsAreHeld, DiskInv, IInv
<1>. QED
  BY <1>2, <1>4, TextOfHeld DEF DiskInv, IInv

(* A step that keeps names and texts shows nothing.                         *)
LEMMA EntriesKept ==
  ASSUME DiskInv, DiskInv',
         \A i \in FileSlots : files'[i].name = files[i].name /\ KeepsText(i)
  PROVE  entriesBar' = entriesBar
<1>1. FreeSlots' = FreeSlots
  BY DEF FreeSlots
<1>2. PICK u \in 0 .. MaxFiles : MaxFiles - Cardinality(FreeSlots) = u
  BY Counted
<1>3. MaxFiles - Cardinality(FreeSlots') = u
  BY <1>1, <1>2
<1>4. \A i \in 1 .. u : i - 1 \in FileSlots
  BY <1>2, FileSystemAssumption DEF FileSlots
<1>5. PICK t, t1 : /\ t = [i \in FileSlots |-> TextOf(files[i])]
                   /\ t1 = [i \in FileSlots |-> TextOf(files[i])']
  OBVIOUS
<1>6. \A i \in FileSlots : t1[i] = t[i]
  BY <1>5, TextKept
<1>7. entriesBar = [i \in 1 .. u |->
                      [name |-> files[i - 1].name, text |-> t[i - 1]]]
  BY <1>2, <1>4, <1>5, Zenon DEF entriesBar
<1>8. entriesBar' = [i \in 1 .. u |->
                      [name |-> files'[i - 1].name, text |-> t1[i - 1]]]
  BY <1>3, <1>4, <1>5, Zenon DEF entriesBar
<1>. QED
  BY <1>4, <1>6, <1>7, <1>8

LEMMA CreateFileImplements ==
  ASSUME DiskInv, DiskInv', NEW n \in Names, CreateFile(n)
  PROVE  Store!Next
<1>1. /\ UNCHANGED <<fat_table, data_blocks, call>>
      /\ MaxFiles \in Nat
      /\ freeBar' = freeBar
  BY FileSystemAssumption DEF CreateFile, freeBar, FreeBlocks
<1>2. PICK u \in 0 .. MaxFiles :
        /\ entriesBar = [i \in 1 .. u |->
             [name |-> files[i - 1].name, text |-> TextOf(files[i - 1])]]
        /\ \A i \in FileSlots : files[i].name = NoName <=> u <= i
  BY Shown
<1>3. Len(entriesBar) = u
  <2>1. PICK e : e = entriesBar
    OBVIOUS
  <2>. QED
    BY <1>1, <1>2, <2>1
<1>4. CASE /\ FreeSlots = {} /\ UNCHANGED files
           /\ reply' = Reply("create", n, FALSE, <<>>)
  <2>1. u = MaxFiles
    <3>1. u < MaxFiles => u \in FileSlots /\ files[u].name = NoName
      BY <1>1, <1>2 DEF FileSlots
    <3>. QED
      BY <1>1, <1>4, <3>1 DEF FreeSlots
  <2>2. entriesBar' = entriesBar
    BY <1>1, <1>4 DEF entriesBar, FreeSlots, TextOf, Reached
  <2>3. Store!NoRoomToCreate(n)
    BY <1>1, <1>3, <1>4, <2>1, <2>2
    DEF Store!NoRoomToCreate, Store!Replies, Reply
  <2>. QED
    BY <2>3, Zenon DEF Store!Next
<1>5. ASSUME NEW k \in FreeSlots, Lowest(k, FreeSlots),
             files' = [files EXCEPT ![k] =
               [name |-> Stored[n], size |-> 0, start_block |-> None]],
             reply' = Reply("create", n, TRUE, <<>>)
      PROVE  Store!Next
  <2>1. k = u /\ u < MaxFiles
    <3>1. k \in FileSlots /\ files[k].name = NoName /\ k \in Nat /\ k < MaxFiles
      BY <1>1 DEF FreeSlots, FileSlots
    <3>2. u <= k
      BY <1>2, <3>1
    <3>3. u \in FileSlots
      BY <1>1, <3>1, <3>2 DEF FileSlots
    <3>4. u \in FreeSlots
      BY <1>2, <3>3 DEF FreeSlots
    <3>5. k <= u
      BY <1>5, <3>4 DEF Lowest
    <3>. QED
      BY <3>1, <3>2, <3>5
  <2>2. /\ files'[k].name = Stored[n] /\ files'[k].size = 0
        /\ \A i \in FileSlots \ {k} : files'[i] = files[i]
    BY <1>5 DEF DiskInv, IInv, TypeOK, FreeSlots
  <2>3. Stored[n] # NoName
    BY FileSystemAssumption
  <2>. DEFINE texts == [i \in FileSlots |-> TextOf(files[i])']
  <2>4. texts[k] = <<>> /\ \A i \in FileSlots \ {k} : texts[i] = TextOf(files[i])
    <3>1. TextOf(files[k])' = <<>>
      BY <2>2 DEF TextOf
    <3>2. ASSUME NEW i \in FileSlots \ {k}
          PROVE  TextOf(files[i])' = TextOf(files[i])
      <4>1. PICK entry : entry = files[i]
        OBVIOUS
      <4>2. Reached(entry.start_block)' = Reached(entry.start_block)
        BY <1>1 DEF Reached
      <4>3. TextOf(entry)' = TextOf(entry)
        BY <1>1, <4>2 DEF TextOf
      <4>4. files'[i] = entry
        BY <2>2, <4>1
      <4>5. TextOf(files[i])' = TextOf(entry)'
        BY <4>4 DEF TextOf, Reached
      <4>. QED
        BY <4>1, <4>3, <4>5
    <3>. QED
      BY <3>1, <3>2 DEF FreeSlots
  <2>5. entriesBar' = Append(entriesBar, [name |-> Stored[n], text |-> <<>>])
    <3>1. PICK new, old, texts1 :
            /\ new = [name |-> Stored[n], text |-> <<>>]
            /\ old = entriesBar /\ texts1 = texts
      OBVIOUS
    <3>2. MaxFiles - Cardinality(FreeSlots') = u + 1
      <4>1. FreeSlots' = FreeSlots \ {k}
        BY <2>2, <2>3 DEF FreeSlots
      <4>2. IsFiniteSet(FileSlots) /\ FreeSlots \subseteq FileSlots
        BY <1>1, FS_Interval DEF FileSlots, FreeSlots
      <4>3. IsFiniteSet(FreeSlots) /\ Cardinality(FreeSlots) \in Nat
        BY <4>2, FS_Subset, FS_CardinalityType
      <4>4. Cardinality(FreeSlots \ {k}) = Cardinality(FreeSlots) - 1
        BY <4>3, FS_RemoveElement
      <4>5. MaxFiles - Cardinality(FreeSlots) = u
        <5>1. PICK v \in 0 .. MaxFiles :
                /\ MaxFiles - Cardinality(FreeSlots) = v
                /\ \A i \in FileSlots : files[i].name = NoName <=> v <= i
          BY Counted
        <5>2. v < u => v \in FileSlots
          BY <1>1, <2>1, <5>1 DEF FileSlots
        <5>3. u < v => u \in FileSlots
          BY <1>1, <2>1, <5>1 DEF FileSlots
        <5>. QED
          BY <1>1, <1>2, <5>1, <5>2, <5>3
      <4>. QED
        BY <1>1, <4>1, <4>3, <4>4, <4>5
    <3>3. \A i \in 1 .. u + 1 : i - 1 \in FileSlots
      BY <1>1, <2>1 DEF FileSlots
    <3>4. entriesBar' = [i \in 1 .. u + 1 |->
            [name |-> files'[i - 1].name, text |-> texts1[i - 1]]]
      BY <3>1, <3>2, <3>3, Zenon DEF entriesBar
    <3>5. old = [i \in 1 .. u |->
            [name |-> files[i - 1].name, text |-> TextOf(files[i - 1])]]
      BY <1>2, <3>1
    <3>6. \A i \in 1 .. u :
            [name |-> files'[i - 1].name, text |-> texts1[i - 1]] = old[i]
      <4>1. \A i \in 1 .. u : i - 1 \in FileSlots \ {k}
        BY <1>1, <2>1, <3>3
      <4>2. \A i \in 1 .. u : files'[i - 1] = files[i - 1]
        BY <2>2, <4>1
      <4>3. \A i \in 1 .. u : texts1[i - 1] = TextOf(files[i - 1])
        BY <2>4, <3>1, <4>1
      <4>. QED
        BY <3>5, <4>2, <4>3
    <3>7. [name |-> files'[u].name, text |-> texts1[u]] = new
      BY <2>1, <2>2, <2>4, <3>1
    <3>. HIDE DEF texts
    <3>8. Append(old, new) =
            [i \in 1 .. u + 1 |-> IF i = u + 1 THEN new ELSE old[i]]
      <4>1. PICK S : S = {old[i] : i \in 1 .. u} \cup {new}
        OBVIOUS
      <4>2. DOMAIN old = 1 .. u /\ \A i \in 1 .. u : old[i] \in S
        BY <3>5, <4>1
      <4>3. old = [i \in 1 .. u |-> old[i]]
        BY <3>5
      <4>4. old \in [1 .. u -> S]
        BY <4>2, <4>3, Zenon
      <4>5. old \in Seq(S) /\ new \in S /\ Len(old) = u
        BY <1>1, <4>1, <4>4
      <4>6. /\ Append(old, new) \in Seq(S)
            /\ Len(Append(old, new)) = u + 1
            /\ \A i \in 1 .. u : Append(old, new)[i] = old[i]
            /\ Append(old, new)[u + 1] = new
        BY <4>5, AppendProperties
      <4>7. Append(old, new) = [i \in 1 .. u + 1 |-> Append(old, new)[i]]
        <5>1. PICK a : a = Append(old, new)
          OBVIOUS
        <5>2. a \in Seq(S) /\ Len(a) = u + 1
          BY <4>6, <5>1
        <5>3. a = [i \in 1 .. u + 1 |-> a[i]]
          BY <5>2
        <5>. QED
          BY <5>1, <5>3, Zenon
      <4>8. \A i \in 1 .. u + 1 : i = u + 1 \/ i \in 1 .. u
        OBVIOUS
      <4>9. \A i \in 1 .. u + 1 :
              Append(old, new)[i] = IF i = u + 1 THEN new ELSE old[i]
        BY <4>6, <4>8
      <4>. QED
        BY <4>7, <4>9, Zenon
    <3>9. \A i \in 1 .. u + 1 :
            [name |-> files'[i - 1].name, text |-> texts1[i - 1]] =
              IF i = u + 1 THEN new ELSE old[i]
      <4>1. (u + 1) - 1 = u /\ \A i \in 1 .. u + 1 : i = u + 1 \/ i \in 1 .. u
        OBVIOUS
      <4>. QED
        BY <3>6, <3>7, <4>1
    <3>10. entriesBar' = Append(old, new)
      BY <3>4, <3>8, <3>9, Zenon
    <3>. QED
      BY <3>1, <3>10, Zenon
  <2>6. Store!Create(n)
    BY <1>1, <1>3, <1>5, <2>1, <2>5 DEF Store!Create, Store!Replies, Reply
  <2>. QED
    BY <2>6, Zenon DEF Store!Next
<1>. QED
  BY <1>4, <1>5, Zenon DEF CreateFile

(* A call that begins shows nothing, unless there is no such file.          *)
LEMMA BeginImplements ==
  ASSUME DiskInv, DiskInv', NEW n \in Names,
         BeginRead(n) \/ \E d \in Data : BeginWrite(n, d)
  PROVE  Store!Next \/ UNCHANGED Store!vars
<1>1. UNCHANGED <<fat_table, data_blocks, files>> /\ call.op = "none"
  BY OpTells DEF BeginRead, BeginWrite, DiskInv, IInv
<1>2. \A i \in FileSlots : KeepsText(i)
  BY <1>1, DiskUnchanged DEF DiskInv
<1>3. entriesBar' = entriesBar
  BY <1>1, <1>2, EntriesKept
<1>4. ASSUME NEW op \in {"read", "write"}, SlotsNamed(n) = {}, UNCHANGED call,
             reply' = Reply(op, n, FALSE, <<>>)
      PROVE  Store!Next
  <2>1. Store!Named(n) = {}
    BY <1>4, Shown
  <2>2. freeBar' = freeBar
    BY <1>1, <1>4 DEF freeBar, FreeBlocks
  <2>3. Store!NoSuchFile(op, n)
    BY <1>3, <1>4, <2>1, <2>2 DEF Store!NoSuchFile, Store!Replies, Reply
  <2>. QED
    BY <2>3 DEF Store!Next
<1>5. ASSUME UNCHANGED reply, call'.op = "read" \/ call'.bytes_written = 0
      PROVE  UNCHANGED Store!vars
  <2>1. FreeBlocks' = FreeBlocks /\ Cardinality(FreeBlocks) \in Nat
    BY <1>1, Counted DEF FreeBlocks
  <2>2. BlocksFor(0) = 0
    BY BlocksForBounds
  <2>3. freeBar' = freeBar
    BY <1>1, <1>5, <2>1, <2>2 DEF freeBar
  <2>. QED
    BY <1>3, <1>5, <2>3 DEF Store!vars
<1>6. ASSUME NEW i,
             call' = [op |-> "read", name |-> n,
                      block |-> files[i].start_block, buffer |-> <<>>],
             UNCHANGED reply
      PROVE  UNCHANGED Store!vars
  <2>1. call'.op = "read"
    BY <1>6
  <2>. QED
    BY <1>5, <1>6, <2>1, Zenon
<1>7. ASSUME NEW i, NEW d,
             call' = [op |-> "write", name |-> n, file_index |-> i,
                      data |-> d, prev_block |-> None,
                      first_block |-> None, bytes_written |-> 0],
             UNCHANGED reply
      PROVE  UNCHANGED Store!vars
  <2>1. call'.bytes_written = 0
    BY <1>7
  <2>. QED
    BY <1>5, <1>7, <2>1, Zenon
<1>8. CASE BeginRead(n)
  <2>1. ASSUME SlotsNamed(n) = {}, UNCHANGED call,
               reply' = Reply("read", n, FALSE, <<>>)
        PROVE  Store!Next
    <3>1. "read" \in {"read", "write"}
      OBVIOUS
    <3>. QED
      BY <1>4, <2>1, <3>1, Zenon
  <2>. QED
    BY <1>6, <1>8, <2>1, Zenon DEF BeginRead
<1>9. ASSUME NEW d \in Data, BeginWrite(n, d)
      PROVE  Store!Next \/ UNCHANGED Store!vars
  <2>1. ASSUME SlotsNamed(n) = {}, UNCHANGED call,
               reply' = Reply("write", n, FALSE, <<>>)
        PROVE  Store!Next
    <3>1. "write" \in {"read", "write"}
      OBVIOUS
    <3>. QED
      BY <1>4, <2>1, <3>1, Zenon
  <2>. QED
    BY <1>7, <1>9, <2>1, Zenon DEF BeginWrite
<1>. QED
  BY <1>8, <1>9

(* The blocks a write takes still count as free.                            *)
LEMMA WriteBlockImplements ==
  ASSUME DiskInv, WriteBlock
  PROVE  UNCHANGED Store!vars
<1>1. IInv'
  BY NextPreservesIInv DEF Next, CallStep, DiskInv
<1>2. /\ DiskInv' /\ \A i \in FileSlots : KeepsText(i)
      /\ BlocksFor(call'.bytes_written) = BlocksFor(call.bytes_written) + 1
  BY <1>1, WriteBlockKeepsDisk
<1>3. UNCHANGED <<files, reply>> /\ call.op = "write" /\ call'.op = "write"
  <2>1. call \in WriteCall
    BY OpTells DEF WriteBlock, DiskInv, IInv
  <2>. QED
    BY <2>1 DEF WriteBlock, WriteCall
<1>4. entriesBar' = entriesBar
  BY <1>2, <1>3, EntriesKept
<1>5. PICK b \in FreeBlocks : fat_table' = Link(b)
  BY DEF WriteBlock
<1>6. FreeBlocks' = FreeBlocks \ {b}
  <2>1. \A c \in Blocks : fat_table'[c] =
          (IF c = b THEN EndOfFile
           ELSE IF c = call.prev_block THEN b ELSE fat_table[c])
    BY <1>5 DEF Link
  <2>2. b \in Blocks /\ b # Free /\ EndOfFile # Free
    BY NoneIsNoBlock DEF FreeBlocks, EndOfFile, Free
  <2>3. call.prev_block # None => fat_table[call.prev_block] # Free
    BY <1>3 DEF DiskInv, IInv, PrevAllocated
  <2>4. \A c \in Blocks : c = call.prev_block => fat_table[c] # Free
    BY <2>3, NoneIsNoBlock
  <2>. QED
    BY <2>1, <2>2, <2>4 DEF FreeBlocks
<1>7. PICK c, w, w1 : /\ c = Cardinality(FreeBlocks)
                      /\ w = BlocksFor(call.bytes_written)
                      /\ w1 = BlocksFor(call'.bytes_written)
  OBVIOUS
<1>8. c \in Nat /\ Cardinality(FreeBlocks') = c - 1
  BY <1>6, <1>7, Counted, FS_RemoveElement
<1>9. w \in Nat /\ w1 = w + 1
  <2>1. call.bytes_written \in Nat
    BY <1>3, OpTells DEF WriteCall, DiskInv, IInv
  <2>. QED
    BY <1>2, <1>7, <2>1, BlocksForBounds
<1>10. freeBar = c + w /\ freeBar' = (c - 1) + w1
  BY <1>3, <1>7, <1>8 DEF freeBar
<1>. QED
  BY <1>3, <1>4, <1>8, <1>9, <1>10 DEF Store!vars

LEMMA DiskFullImplements ==
  ASSUME DiskInv, DiskFull
  PROVE  Store!Next
<1>1. IInv'
  BY NextPreservesIInv DEF Next, CallStep, DiskInv
<1>2. DiskInv'
  BY <1>1, OtherStepsKeepDisk
<1>3. /\ UNCHANGED <<fat_table, data_blocks, files>>
      /\ call \in WriteCall /\ call.op = "write" /\ call'.op = "none"
      /\ call.bytes_written < Len(call.data)
      /\ reply' = Reply("write", call.name, FALSE, <<>>)
      /\ FreeBlocks = {}
  BY OpTells DEF DiskFull, Return, Idle, DiskInv, IInv
<1>4. entriesBar' = entriesBar
  BY <1>2, <1>3, EntriesKept, DiskUnchanged DEF DiskInv
<1>5. PICK n, d : n = call.name /\ d = call.data
  OBVIOUS
<1>6. n \in Names /\ d \in Data
  BY <1>3, <1>5 DEF WriteCall, DiskInv, WriteHolds
<1>7. Store!Named(n) # {}
  <2>1. call.file_index \in FileSlots /\ Lowest(call.file_index, SlotsNamed(n))
    BY <1>3, <1>5 DEF WriteCall, DiskInv, IInv, FirstOfName
  <2>. QED
    BY <1>6, <2>1, Shown
<1>8. Cardinality(FreeBlocks) = 0 /\ FreeBlocks' = FreeBlocks
  BY <1>3, Counted DEF FreeBlocks
<1>9. freeBar' = 0 /\ Store!BlocksFor(Len(d)) > freeBar
  <2>1. PICK w, v : w = call.bytes_written /\ v = BlocksFor(w)
    OBVIOUS
  <2>2. /\ w \in Nat /\ w < Len(d) /\ Len(d) \in Nat
        /\ v \in Nat /\ w = v * BlockSize
    BY <1>3, <1>5, <2>1, BlocksForBounds DEF WriteCall, DiskInv, WriteHolds
  <2>3. PICK m \in Nat : m = BlocksFor(Len(d))
    BY <2>2, BlocksForBounds
  <2>4. Len(d) <= m * BlockSize /\ BlockSize \in Nat \ {0}
    BY <2>2, <2>3, BlocksForBounds, FileSystemAssumption
  <2>5. v * BlockSize \in Nat /\ m * BlockSize \in Nat
    BY <2>2, <2>3, <2>4, Times
  <2>6. v < m
    BY <2>2, <2>3, <2>4, <2>5, Times
  <2>7. freeBar' = 0
    BY <1>3, <1>8 DEF freeBar
  <2>8. freeBar = v
    BY <1>3, <1>8, <2>1, <2>2 DEF freeBar
  <2>9. Store!BlocksFor(Len(d)) = m
    BY <2>3 DEF Store!BlocksFor, BlocksFor
  <2>. QED
    BY <2>6, <2>7, <2>8, <2>9
<1>10. Store!NoRoomToWrite(n, d)
  BY <1>3, <1>4, <1>5, <1>7, <1>9
  DEF Store!NoRoomToWrite, Store!Replies, Reply
<1>. QED
  BY <1>6, <1>10, Zenon DEF Store!Next

(* The new text appears, whole, and nothing else changes.                   *)
LEMMA EndWriteImplements ==
  ASSUME DiskInv, EndWrite
  PROVE  Store!Next
<1>1. IInv'
  BY NextPreservesIInv DEF Next, CallStep, DiskInv
<1>2. PICK k, d, n : k = call.file_index /\ d = call.data /\ n = call.name
  OBVIOUS
<1>3. /\ DiskInv' /\ d \in Texts /\ FileHolds(k, d)'
      /\ \A i \in FileSlots \ {k} : KeepsText(i)
  BY <1>1, <1>2, EndWriteKeepsDisk
<1>4. /\ UNCHANGED <<fat_table, data_blocks>>
      /\ call \in WriteCall /\ call.op = "write" /\ call'.op = "none"
      /\ call.bytes_written = Len(d)
      /\ reply' = Reply("write", n, TRUE, <<>>)
  BY <1>2, OpTells DEF EndWrite, Return, Idle, DiskInv, IInv
<1>5. /\ k \in FileSlots /\ n \in Names /\ d \in Data
      /\ Lowest(k, SlotsNamed(n))
  BY <1>2, <1>4
  DEF WriteCall, DiskInv, IInv, FirstOfName, WriteHolds
<1>6. \A i \in FileSlots : files'[i].name = files[i].name
  BY <1>2, <1>5 DEF EndWrite, DiskInv, IInv, TypeOK, Entry
<1>7. PICK u \in 0 .. MaxFiles :
        /\ entriesBar = [i \in 1 .. u |->
             [name |-> files[i - 1].name, text |-> TextOf(files[i - 1])]]
        /\ \A i \in FileSlots : files[i].name = NoName <=> u <= i
        /\ k + 1 \in 1 .. u
        /\ k + 1 \in Store!Named(n) /\ Store!IsFirst(k + 1, n)
  BY <1>5, Shown
<1>8. PICK old, t, t1 :
        /\ old = entriesBar
        /\ t = [i \in FileSlots |-> TextOf(files[i])]
        /\ t1 = [i \in FileSlots |-> TextOf(files[i])']
  OBVIOUS
<1>9. t1[k] = d /\ \A i \in FileSlots \ {k} : t1[i] = t[i]
  <2>1. TextsAreHeld'
    BY AlwaysHeld, PTL
  <2>2. TextOf(files[k])' = d
    BY <1>3, <1>5, <2>1 DEF TextsAreHeld, DiskInv, IInv
  <2>3. \A i \in FileSlots \ {k} : TextOf(files[i])' = TextOf(files[i])
    BY <1>3, TextKept
  <2>. QED
    BY <1>5, <1>8, <2>2, <2>3
<1>10. MaxFiles - Cardinality(FreeSlots') = u
  <2>1. FreeSlots' = FreeSlots
    BY <1>6 DEF FreeSlots
  <2>2. PICK v \in 0 .. MaxFiles :
          /\ MaxFiles - Cardinality(FreeSlots) = v
          /\ entriesBar = [i \in 1 .. v |->
               [name |-> files[i - 1].name, text |-> TextOf(files[i - 1])]]
    BY Counted DEF entriesBar
  <2>3. v = u
    <3>1. DOMAIN old = 1 .. v /\ DOMAIN old = 1 .. u
      BY <1>7, <1>8, <2>2
    <3>. QED
      BY <3>1, FileSystemAssumption
  <2>. QED
    BY <2>1, <2>2, <2>3
<1>11. \A i \in 1 .. u : i - 1 \in FileSlots
  BY FileSystemAssumption DEF FileSlots
<1>12. old = [i \in 1 .. u |-> [name |-> files[i - 1].name, text |-> t[i - 1]]]
  BY <1>7, <1>8, <1>11, Zenon
<1>13. entriesBar' =
         [i \in 1 .. u |-> [name |-> files'[i - 1].name, text |-> t1[i - 1]]]
  BY <1>8, <1>10, <1>11, Zenon DEF entriesBar
<1>14. [old EXCEPT ![k + 1].text = d] =
         [i \in 1 .. u |-> [name |-> files[i - 1].name,
                            text |-> IF i = k + 1 THEN d ELSE t[i - 1]]]
  <2>1. /\ DOMAIN old = 1 .. u
        /\ \A i \in 1 .. u :
             old[i] = [name |-> files[i - 1].name, text |-> t[i - 1]]
    BY <1>12
  <2>2. [old[k + 1] EXCEPT !.text = d] =
          [name |-> files[(k + 1) - 1].name, text |-> d]
    BY <1>7, <2>1
  <2>3. [old EXCEPT ![k + 1].text = d] =
          [i \in 1 .. u |-> IF i = k + 1 THEN [old[k + 1] EXCEPT !.text = d]
                            ELSE old[i]]
    BY <1>7, <2>1
  <2>4. \A i \in 1 .. u :
          (IF i = k + 1 THEN [old[k + 1] EXCEPT !.text = d] ELSE old[i]) =
            [name |-> files[i - 1].name,
             text |-> IF i = k + 1 THEN d ELSE t[i - 1]]
    BY <2>1, <2>2
  <2>. QED
    BY <2>3, <2>4, Zenon
<1>15. \A i \in 1 .. u :
         /\ files'[i - 1].name = files[i - 1].name
         /\ t1[i - 1] = IF i = k + 1 THEN d ELSE t[i - 1]
  <2>1. k \in Int
    BY <1>5 DEF FileSlots
  <2>2. \A i \in 1 .. u : i # k + 1 => i - 1 \in FileSlots \ {k}
    BY <1>11, <2>1
  <2>3. (k + 1) - 1 = k
    BY <2>1
  <2>. QED
    BY <1>6, <1>9, <1>11, <2>2, <2>3
<1>16. entriesBar' = [old EXCEPT ![k + 1].text = d]
  BY <1>13, <1>14, <1>15
<1>17. /\ BlocksFor(Len(d)) <= freeBar
       /\ freeBar' = freeBar - BlocksFor(Len(d))
  <2>1. PICK c, b : c = Cardinality(FreeBlocks) /\ b = BlocksFor(Len(d))
    OBVIOUS
  <2>2. c \in Nat /\ b \in Nat
    BY <1>3, <2>1, Counted, TextsTyped, BlocksForBounds
  <2>3. FreeBlocks' = FreeBlocks
    BY <1>4 DEF FreeBlocks
  <2>4. freeBar = c + b /\ freeBar' = c
    BY <1>4, <2>1, <2>2, <2>3 DEF freeBar
  <2>. QED
    BY <2>1, <2>2, <2>4
<1>18. Store!Write(n, d)
  <2>1. Store!BlocksFor(Len(d)) = BlocksFor(Len(d))
    BY DEF Store!BlocksFor, BlocksFor
  <2>2. entriesBar' = [entriesBar EXCEPT ![k + 1].text = d]
    BY <1>8, <1>16
  <2>. QED
    BY <1>4, <1>7, <1>17, <2>1, <2>2
    DEF Store!Write, Store!Replies, Reply
<1>. QED
  BY <1>5, <1>18, Zenon DEF Store!Next

LEMMA ReadBlockImplements ==
  ASSUME DiskInv, ReadBlock
  PROVE  UNCHANGED Store!vars
<1>1. IInv'
  BY NextPreservesIInv DEF Next, CallStep, DiskInv
<1>2. DiskInv'
  BY <1>1, ReadBlockKeepsDisk
<1>3. /\ UNCHANGED <<fat_table, data_blocks, files, reply>>
      /\ call.op = "read" /\ call'.op = "read"
  <2>1. call \in ReadCall
    BY OpTells DEF ReadBlock, DiskInv, IInv
  <2>. QED
    BY <2>1 DEF ReadBlock, ReadCall
<1>4. entriesBar' = entriesBar
  BY <1>2, <1>3, EntriesKept, DiskUnchanged DEF DiskInv
<1>5. freeBar' = freeBar
  BY <1>3 DEF freeBar, FreeBlocks
<1>. QED
  BY <1>3, <1>4, <1>5 DEF Store!vars

(* What was read is the text of the file, and NULs up to a whole block.     *)
LEMMA EndReadImplements ==
  ASSUME DiskInv, EndRead
  PROVE  Store!Next
<1>1. IInv'
  BY NextPreservesIInv DEF Next, CallStep, DiskInv
<1>2. PICK n : n = call.name
  OBVIOUS
<1>3. PICK k \in FileSlots :
        /\ DiskInv'
        /\ Lowest(k, SlotsNamed(n))
        /\ Copied(k, BlocksFor(files[k].size), call.buffer)
  BY <1>1, <1>2, EndReadKeepsDisk
<1>4. /\ UNCHANGED <<fat_table, data_blocks, files>>
      /\ call \in ReadCall /\ call.op = "read" /\ call'.op = "none"
      /\ reply' = Reply("read", n, TRUE, call.buffer)
  BY <1>2, OpTells DEF EndRead, Return, Idle, DiskInv, IInv
<1>5. entriesBar' = entriesBar
  BY <1>3, <1>4, EntriesKept, DiskUnchanged DEF DiskInv
<1>6. freeBar' = freeBar
  BY <1>4 DEF freeBar, FreeBlocks
<1>7. n \in Names
  BY <1>2, <1>4 DEF ReadCall
<1>8. PICK u \in 0 .. MaxFiles :
        /\ entriesBar = [i \in 1 .. u |->
             [name |-> files[i - 1].name, text |-> TextOf(files[i - 1])]]
        /\ k + 1 \in 1 .. u
        /\ k + 1 \in Store!Named(n) /\ Store!IsFirst(k + 1, n)
  BY <1>3, <1>7, Shown
<1>9. entriesBar[k + 1].text = TextOf(files[k])
  <2>1. (k + 1) - 1 = k
    BY FileSystemAssumption DEF FileSlots
  <2>. QED
    BY <1>8, <2>1
<1>10. call.buffer = Store!Padded(TextOf(files[k]))
  <2>1. PICK text \in Texts : FileHolds(k, text)
    BY DEF DiskInv, FilesHold
  <2>2. TextOf(files[k]) = text
    BY <2>1, TextOfHeld DEF DiskInv, IInv
  <2>3. call.buffer \in Seq(Bytes \cup {NUL})
    BY <1>4 DEF ReadCall
  <2>. QED
    BY <1>3, <2>1, <2>2, <2>3, CopiedIsPadded DEF DiskInv, IInv
<1>11. Store!Read(n)
  <2>1. reply' = Reply("read", n, TRUE, Store!Padded(entriesBar[k + 1].text))
    BY <1>4, <1>9, <1>10
  <2>. QED
    BY <1>5, <1>6, <1>8, <2>1 DEF Store!Read, Store!Replies, Reply
<1>. QED
  BY <1>7, <1>11, Zenon DEF Store!Next

LEMMA InitImplements == Init => Store!Init
<1>. SUFFICES ASSUME Init
              PROVE  Store!Init
  OBVIOUS
<1>1. DiskInv
  BY InitDiskInv
<1>2. call.op = "none" /\ reply.op = "none"
  BY DEF Init, Idle, Reply
<1>3. PICK u \in 0 .. MaxFiles :
        /\ entriesBar = [i \in 1 .. u |->
             [name |-> files[i - 1].name, text |-> TextOf(files[i - 1])]]
        /\ \A i \in FileSlots : files[i].name = NoName <=> u <= i
  BY <1>1, Shown
<1>4. u = 0
  <2>1. 0 \in FileSlots
    BY FileSystemAssumption DEF FileSlots
  <2>2. files[0].name = NoName
    BY <2>1 DEF Init, NoEntry
  <2>. QED
    BY <1>3, <2>1, <2>2, FileSystemAssumption
<1>5. entriesBar = <<>>
  BY <1>3, <1>4
<1>6. freeBar = MaxBlocks
  <2>1. FreeBlocks = 0 .. MaxBlocks - 1
    BY DEF Init, FreeBlocks, Blocks
  <2>2. Cardinality(0 .. MaxBlocks - 1) = MaxBlocks
    BY FileSystemAssumption, FS_Interval
  <2>. QED
    BY <1>2, <2>1, <2>2, FileSystemAssumption DEF freeBar
<1>. QED
  BY <1>2, <1>5, <1>6 DEF Store!Init

LEMMA NextImplements == DiskInv /\ [Next]_vars => [Store!Next]_(Store!vars)
<1>. SUFFICES ASSUME DiskInv, [Next]_vars
              PROVE  Store!Next \/ UNCHANGED Store!vars
  OBVIOUS
<1>1. DiskInv'
  BY NextKeepsDisk
<1>2. CASE UNCHANGED vars
  <2>1. entriesBar' = entriesBar
    BY <1>2 DEF vars, entriesBar, FreeSlots, TextOf, Reached
  <2>2. freeBar' = freeBar
    BY <1>2 DEF vars, freeBar, FreeBlocks
  <2>. QED
    BY <1>2, <2>1, <2>2 DEF vars, Store!vars
<1>. QED
  BY <1>1, <1>2, CreateFileImplements, BeginImplements, WriteBlockImplements,
     DiskFullImplements, EndWriteImplements, ReadBlockImplements,
     EndReadImplements
  DEF Next, CallStep

(* filesystem.c, with its blocks and chains, does what FileStore says: a    *)
(* list of texts, each the last one written to it in full.                  *)
THEOREM SpecImplementsFileStore == Spec => ImplementsFileStore
  BY InitImplements, NextImplements, SpecDiskInv, PTL
  DEF Spec, ImplementsFileStore, Store!Spec

-----------------------------------------------------------------------------
(* The same for the shell's commands on files.                              *)

(* A command on files is a step of FileSystem, whatever line is typed.      *)
LEMMA LineIsStep ==
  ASSUME NEW argv \in FileLines, CmdFile(argv)
  PROVE  Next
BY FileShellAssumption DEF CmdFile, Next

LEMMA ShellUsesFileSystem == FileShellSpec => Spec
<1>1. [FileShellNext]_vars => [Next]_vars
  BY LineIsStep DEF FileShellNext, Next
<1>. QED
  BY <1>1, PTL DEF FileShellSpec, Spec

(* No block is in two chains, and every link stays on the disk, whatever is *)
(* typed.                                                                   *)
THEOREM FileShellKeepsChains == FileShellSpec => [](TypeOK /\ ChainsDisjoint)
  BY ShellUsesFileSystem, SpecTypeOK, SpecChainsDisjoint, PTL

(* What `read` prints is the text that was written, all of it and no more.  *)
THEOREM FileShellReadShowsText == FileShellSpec => []ReadShowsText
  BY ShellUsesFileSystem, SpecDiskInv, DiskInvShowsText, PTL

(* Whatever is typed, filesystem.c does what FileStore says.                *)
THEOREM FileShellImplementsFileStore == FileShellSpec => ImplementsFileStore
  BY ShellUsesFileSystem, SpecImplementsFileStore, PTL
=============================================================================
