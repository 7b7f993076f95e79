----------------------------- MODULE FileShell ------------------------------
(***************************************************************************)
(* The kernel shell's commands on files: `create`, `write` and `read` of   *)
(* execute_line and cmd_write (shell/kernel_shell.c), from the words of a  *)
(* line to what is printed.  A word is a name or a text, as it is used.    *)
(***************************************************************************)
EXTENDS FileSystemRefinement

CONSTANT FileLines   \* the lines that are typed, as lists of words

ASSUME FileShellAssumption ==
  \A argv \in FileLines :
    /\ Len(argv) >= 2 => argv[2] \in Names
    /\ argv[1] = "write" /\ Len(argv) >= 3 => argv[3] \in Data

(* Of a text of several words only the first is written.                    *)
CmdFile(argv) ==
  \/ argv[1] = "create" /\ Len(argv) >= 2 /\ CreateFile(argv[2])
  \/ argv[1] = "write" /\ Len(argv) >= 3 /\ BeginWrite(argv[2], argv[3])
  \/ argv[1] = "read" /\ Len(argv) >= 2 /\ BeginRead(argv[2])

FileShellNext == CallStep \/ \E argv \in FileLines : CmdFile(argv)

(* The loops of write_file and read_file wait for nothing: the processor    *)
(* goes on with a call that has begun.  The user need not call anything.    *)
FileShellSpec == Init /\ [][FileShellNext]_vars /\ WF_vars(CallStep)

(* Mistake: all that was read is printed.                                   *)
MutantPrinted(bytes) == bytes

(* print, of a buffer that ends with a NUL if not before.                   *)
Printed(bytes) ==
  LET ends == {i \in 1 .. Len(bytes) : bytes[i] = NUL}
  IN  IF ends = {} THEN bytes
      ELSE SubSeq(bytes, 1, (CHOOSE i \in ends : Lowest(i, ends)) - 1)

(* The answer to the last command.                                          *)
Answer ==
  CASE reply.op \in {"none", "create", "write"} -> <<reply.op, reply.ok>>
    [] reply.op = "read" ->
         IF reply.ok /\ reply.bytes # <<>> THEN Printed(reply.bytes)
         ELSE <<"Read failed">>

(* `read` prints the text of the file its name leads to, no less, and       *)
(* nothing of what the last block holds behind it; it fails if there is     *)
(* none.                                                                    *)
ReadShowsText ==
  call = Idle /\ reply.op = "read" =>
    LET slots == {i \in SlotsNamed(reply.name) :
                    Lowest(i, SlotsNamed(reply.name))}
        held == {TextOf(files[i]) : i \in slots} \ {<<>>}
    IN  IF held = {} THEN Answer = <<"Read failed">> ELSE Answer \in held
=============================================================================
