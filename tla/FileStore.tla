----------------------------- MODULE FileStore ------------------------------
(***************************************************************************)
(* What filesystem.c promises its callers, without blocks and chains: a    *)
(* list of named files, each holding the text last written to it in full,  *)
(* and an amount of free space that only ever shrinks.  Each call is one   *)
(* step, taken when it returns.                                            *)
(***************************************************************************)
EXTENDS Integers, Sequences

CONSTANTS MaxBlocks, BlockSize, MaxFiles, Names, Stored, NUL, Data

VARIABLES
  entries,   \* the files in the order of their creation
  free,      \* blocks never allocated
  reply      \* what the last call returned

vars == <<entries, free, reply>>

BlocksFor(n) == (n + BlockSize - 1) \div BlockSize
Named(name) == {i \in DOMAIN entries : entries[i].name = name}
IsFirst(i, name) == i \in Named(name) /\ \A j \in Named(name) : i <= j

Replies(op, name, ok, bytes) ==
  reply' = [op |-> op, name |-> name, ok |-> ok, bytes |-> bytes]

(* A read returns whole blocks.                                             *)
Padded(text) ==
  [i \in 1 .. BlockSize * BlocksFor(Len(text)) |->
     IF i <= Len(text) THEN text[i] ELSE NUL]

Init ==
  /\ entries = <<>>
  /\ free = MaxBlocks
  /\ reply.op = "none"

Create(name) ==
  /\ Len(entries) < MaxFiles
  /\ entries' = Append(entries, [name |-> Stored[name], text |-> <<>>])
  /\ Replies("create", name, TRUE, <<>>)
  /\ UNCHANGED free

NoRoomToCreate(name) ==
  /\ Len(entries) = MaxFiles
  /\ Replies("create", name, FALSE, <<>>)
  /\ UNCHANGED <<entries, free>>

NoSuchFile(op, name) ==
  /\ Named(name) = {}
  /\ Replies(op, name, FALSE, <<>>)
  /\ UNCHANGED <<entries, free>>

(* All of the text, or none of it and the old text still there.  Either way *)
(* the space is gone: a rewritten file does not give its blocks back, and a *)
(* write that does not fit uses up what is left.                            *)
Write(name, text) ==
  \E i \in Named(name) :
    /\ IsFirst(i, name)
    /\ BlocksFor(Len(text)) <= free
    /\ entries' = [entries EXCEPT ![i].text = text]
    /\ free' = free - BlocksFor(Len(text))
    /\ Replies("write", name, TRUE, <<>>)

NoRoomToWrite(name, text) ==
  /\ Named(name) # {}
  /\ BlocksFor(Len(text)) > free
  /\ free' = 0
  /\ Replies("write", name, FALSE, <<>>)
  /\ UNCHANGED entries

Read(name) ==
  \E i \in Named(name) :
    /\ IsFirst(i, name)
    /\ Replies("read", name, TRUE, Padded(entries[i].text))
    /\ UNCHANGED <<entries, free>>

Next ==
  \/ \E n \in Names :
       \/ Create(n)
       \/ NoRoomToCreate(n)
       \/ NoSuchFile("read", n)
       \/ NoSuchFile("write", n)
       \/ Read(n)
       \/ \E d \in Data : Write(n, d) \/ NoRoomToWrite(n, d)

Spec == Init /\ [][Next]_vars
=============================================================================
