------------------------------- MODULE Kernel -------------------------------
(***************************************************************************)
(* The kernel as the interrupts drive it: kernel_main (kernel/kernel.c)    *)
(* boots with interrupts off and then halts; everything else happens in    *)
(* the handlers behind the gates of kernel/idt.c, through the stubs of     *)
(* kernel/interrupts.asm and isr_handler (kernel/isr.c).                   *)
(*                                                                         *)
(* The hardware is modelled as far as the code relies on it: the interrupt *)
(* controller (edge triggered, requests latched until taken), the timer,   *)
(* and the keyboard controller with its one output register, behind port   *)
(* 60, that keeps its value after it was read.  `script` is what the user  *)
(* is going to type, one scan code each; codes are known by their number   *)
(* in it.                                                                  *)
(*                                                                         *)
(* mouse_init has the arguments of outb the wrong way round, so it never   *)
(* speaks to the mouse.  What its port accesses do is (line 60) read port  *)
(* 60, (62) send the keyboard a byte it answers with "resend", and (41)    *)
(* read port 60 again.  No mouse interrupt ever comes.                     *)
(***************************************************************************)
EXTENDS Keyboard

CONSTANTS
  Scripts,    \* what users may type: sequences of scan codes
  LongLines,  \* lines whose command takes longer than two timer periods
  TickMod,    \* tick is an unsigned int: it wraps at 2^32
  MaxLost     \* lost timer pulses are counted up to this number

ASSUME KernelAssumption ==
  /\ Scripts \subseteq Seq(ScanCodes)
  /\ LongLines \subseteq Seq(Chars)
  /\ TickMod \in Nat \ {0}
  /\ MaxLost \in Nat \ {0}

VARIABLES
  at,         \* where the processor is
  vector,     \* the interrupt whose handler runs
  stack,      \* where the handlers that run return to
  if_flag,    \* the processor takes interrupts
  imr, irr, isr,   \* lines masked, requested, in service
  gates,      \* lines with a handler in the descriptor table
  out, obf,   \* the output register, and whether it holds an unread byte
  queue,      \* bytes the keyboard holds back until the register is free
  script, typed,   \* codes typed so far
  tick,
  lost,       \* pulses a command has kept from being counted
  handled     \* the bytes keyboard_handler has read, in order

machine == <<stack, if_flag, imr, irr, isr, gates, vector>>
port60 == <<out, obf, queue>>
vars == <<keyboardVars, machine, port60, at, script, typed, tick, lost, handled>>

Timer == 0
Kbd == 1
Mouse == 12
Lines == {Timer, Kbd, Mouse}

Resend == 0      \* the answer 0xFE; any other byte is a number in script
CodeOf(byte) == IF byte = Resend THEN Code(FALSE, "FE") ELSE script[byte]

BootSteps == {"idt_init", "keyboard_init", "timer_init", "mouse_init",
              "mouse_mask", "mouse_cmd", "mouse_ack", "console_init", "sti"}
Booted == at \notin BootSteps

KernelInit ==
  /\ KeyboardInit
  /\ at = "idt_init"
  /\ vector = Timer
  /\ stack = <<>>
  /\ if_flag = FALSE
  /\ imr \in SUBSET Lines          \* whatever the firmware left
  /\ irr \in SUBSET {Timer, Kbd}
  /\ isr = {}
  /\ gates = {}
  /\ out = Resend
  /\ obf = FALSE
  /\ queue = <<>>
  /\ script \in Scripts
  /\ typed = 0
  /\ tick = 0
  /\ lost = 0
  /\ handled = <<>>

-----------------------------------------------------------------------------
(* kernel_main                                                              *)

BootStep(here, next) == at = here /\ at' = next

(* remap_pic restores the masks it found; the first of its command words    *)
(* clears the latched requests.                                             *)
IdtInit ==
  /\ BootStep("idt_init", "keyboard_init")
  /\ gates' = Lines
  /\ irr' = {}
  /\ UNCHANGED <<keyboardVars, port60, stack, if_flag, imr, isr, vector,
                 script, typed, tick, lost, handled>>

Unmask(line) ==
  /\ imr' = imr \ {line}
  /\ UNCHANGED <<keyboardVars, port60, stack, if_flag, irr, isr, gates, vector,
                 script, typed, tick, lost, handled>>

KeyboardDriverInit == BootStep("keyboard_init", "timer_init") /\ Unmask(Kbd)
TimerInit == BootStep("timer_init", "mouse_init") /\ Unmask(Timer)

(* The definitions called Mutant... are no part of the model: each stands   *)
(* for a plausible bug in the definition that follows it, and shows, put in *)
(* its place, that a property notices.                                      *)
(* Here: only the status is read.                                        *)
MutantDrainPort60 ==
  UNCHANGED <<keyboardVars, machine, port60, script, typed, tick, lost, handled>>

(* mouse_wait(0) gives up after a while: port 60 is read whether there is   *)
(* a byte or not, and what it holds is thrown away.                         *)
DrainPort60 ==
  /\ obf' = FALSE
  /\ UNCHANGED <<keyboardVars, machine, out, queue, script, typed, tick, lost,
                 handled>>

MouseRead == BootStep("mouse_init", "mouse_cmd") /\ DrainPort60

MouseCommand ==
  /\ BootStep("mouse_cmd", "mouse_ack")
  /\ queue' = Append(queue, Resend)
  /\ UNCHANGED <<keyboardVars, machine, out, obf, script, typed, tick, lost,
                 handled>>

MouseAck == BootStep("mouse_ack", "mouse_mask") /\ DrainPort60

(* The mouse cursor that mouse_init goes on to show is on the screen of     *)
(* module Terminal.                                                         *)
MouseUnmask == BootStep("mouse_mask", "console_init") /\ Unmask(Mouse)

(* fs_init and console_init; the files have a module of their own.          *)
ConsoleStart ==
  /\ BootStep("console_init", "sti")
  /\ con_state' = "PIN" /\ gate_line' = <<>> /\ pin_fails' = 0
  /\ UNCHANGED <<shell_line, extended_prefix, shift_pressed, machine, port60,
                 script, typed, tick, lost, handled>>

Sti ==
  /\ BootStep("sti", "hlt")
  /\ if_flag' = TRUE
  /\ UNCHANGED <<keyboardVars, port60, stack, imr, irr, isr, gates, vector,
                 script, typed, tick, lost, handled>>

Boot ==
  \/ IdtInit \/ KeyboardDriverInit \/ TimerInit
  \/ MouseRead \/ MouseCommand \/ MouseAck \/ MouseUnmask
  \/ ConsoleStart \/ Sti

-----------------------------------------------------------------------------
(* Interrupts                                                               *)

Pending == irr \ imr

(* Mistake: trap gates, 0x8F.                                               *)
MutantIfInHandler == TRUE

(* idt_set_gate's flags 0x8E make an interrupt gate: the processor turns    *)
(* interrupts off as it enters a handler.                                   *)
IfInHandler == FALSE

Deliver(line) ==
  /\ if_flag
  /\ line \in Pending \cap gates
  /\ \A l \in Pending : line <= l
  /\ \A l \in isr : line < l
  /\ irr' = irr \ {line}
  /\ isr' = isr \cup {line}
  /\ stack' = <<[at |-> at, vector |-> vector]>> \o stack
  /\ vector' = line
  /\ at' = "handler"
  /\ if_flag' = IfInHandler
  /\ UNCHANGED <<keyboardVars, port60, imr, gates, script, typed, tick, lost,
                 handled>>

TimerHandler ==
  /\ at = "handler" /\ vector = Timer
  /\ tick' = (tick + 1) % TickMod
  /\ at' = "eoi"
  /\ UNCHANGED <<keyboardVars, machine, port60, script, typed, lost, handled>>

(* Mistake: keyboard_handler reads port 60 a second time, to make sure that *)
(* it is empty, and interprets what it gets the first time.                 *)
MutantKeyboardHandler ==
  /\ at = "handler" /\ vector = Kbd
  /\ IF queue = <<>>
     THEN obf' = FALSE /\ UNCHANGED <<out, queue, irr>>
     ELSE /\ out' = Head(queue) /\ queue' = Tail(queue)
          /\ obf' = FALSE /\ irr' = irr \cup {Kbd}
  /\ handled' = Append(handled, out)
  /\ HandleScanCode(CodeOf(out))
  /\ at' = IF con_state' = "LOCKOUT" THEN "locked" ELSE "eoi"
  /\ UNCHANGED <<stack, if_flag, imr, isr, gates, vector, script, typed, tick,
                 lost>>

(* keyboard_handler: port 60 is read without a look at the controller's     *)
(* status.  The handler of the last wrong PIN does not return.              *)
KeyboardHandler ==
  /\ at = "handler" /\ vector = Kbd
  /\ obf' = FALSE
  /\ handled' = Append(handled, out)
  /\ HandleScanCode(CodeOf(out))
  /\ at' = IF con_state' = "LOCKOUT" THEN "locked" ELSE "eoi"
  /\ UNCHANGED <<machine, out, queue, script, typed, tick, lost>>

(* pic_send_eoi ends the service of the most urgent line.                   *)
Eoi ==
  /\ at = "eoi"
  /\ \E l \in isr : (\A m \in isr : l <= m) /\ isr' = isr \ {l}
  /\ at' = "iret"
  /\ UNCHANGED <<keyboardVars, port60, stack, if_flag, imr, irr, gates, vector,
                 script, typed, tick, lost, handled>>

(* iretd restores the flags too: interrupts were on when it was taken.      *)
Iret ==
  /\ at = "iret"
  /\ at' = Head(stack).at
  /\ vector' = Head(stack).vector
  /\ stack' = Tail(stack)
  /\ if_flag' = TRUE
  /\ UNCHANGED <<keyboardVars, port60, imr, irr, isr, gates, script, typed,
                 tick, lost, handled>>

CpuStep == Boot \/ TimerHandler \/ KeyboardHandler \/ Eoi \/ Iret

-----------------------------------------------------------------------------
(* The devices                                                              *)

(* The keyboard interrupt of the Enter that ends a long line: the command   *)
(* runs in the handler, with interrupts off, and each character it prints   *)
(* writes the whole display again (screen_redraw_hw).                       *)
RunsLongCommand ==
  /\ at = "handler" /\ vector = Kbd
  /\ con_state = "SHELL" /\ shell_line \in LongLines
  /\ LET code == CodeOf(out) IN
       /\ code.make /\ code.key \in CharKeys /\ ~extended_prefix
       /\ CharOf(code.key) = Newline

(* A timer pulse, once timer_init has programmed it.  One period is longer  *)
(* than anything the kernel does but its boot and a long command: a timer   *)
(* interrupt is over before the next pulse, and a pulse can find the one    *)
(* before it still pending only in those two and after the lockout.         *)
Pulse ==
  /\ at \notin {"idt_init", "keyboard_init", "timer_init"}
  /\ at \in {"handler", "eoi", "iret"} => vector # Timer
  /\ Timer \in irr => ~Booted \/ at = "locked" \/ RunsLongCommand
  /\ irr' = irr \cup {Timer}
  /\ lost' = IF RunsLongCommand /\ Timer \in irr /\ lost < MaxLost
             THEN lost + 1 ELSE lost
  /\ UNCHANGED <<keyboardVars, port60, stack, if_flag, imr, isr, gates, vector,
                 at, script, typed, tick, handled>>

Type ==
  /\ typed < Len(script)
  /\ typed' = typed + 1
  /\ queue' = Append(queue, typed + 1)
  /\ UNCHANGED <<keyboardVars, machine, out, obf, at, script, tick, lost,
                 handled>>

(* The controller fills its free register; the edge requests an interrupt.  *)
Fill ==
  /\ ~obf /\ queue # <<>>
  /\ out' = Head(queue)
  /\ obf' = TRUE
  /\ queue' = Tail(queue)
  /\ irr' = irr \cup {Kbd}
  /\ UNCHANGED <<keyboardVars, stack, if_flag, imr, isr, gates, vector, at,
                 script, typed, tick, lost, handled>>

KernelNext ==
  CpuStep \/ (\E l \in Lines : Deliver(l)) \/ Pulse \/ Type \/ Fill

KernelSpec == KernelInit /\ [][KernelNext]_vars

(* The processor does not stop, the controller moves bytes, and a request   *)
(* that keeps coming up is taken in the end: the idle loop has time left    *)
(* between two timer interrupts.  The user and the timer need not act.      *)
FairKernelSpec ==
  /\ KernelSpec
  /\ WF_vars(CpuStep)
  /\ WF_vars(Fill)
  /\ \A l \in Lines : SF_vars(Deliver(l))

-----------------------------------------------------------------------------
(* Handlers find everything initialised: nothing but the boot touches the   *)
(* console before interrupts are on.                                        *)
BootIsAlone ==
  ~Booted => /\ isr = {} /\ handled = <<>> /\ tick = 0
             /\ con_state = "PIN" /\ gate_line = <<>> /\ pin_fails = 0

(* No handler is interrupted, and none interrupts the boot: line editors,   *)
(* driver flags and the shell's commands need no locks, because there is    *)
(* one stack frame and one line in service exactly while a handler runs.    *)
HandlersDoNotNest ==
  /\ Len(stack) <= 1
  /\ if_flag => isr = {} /\ stack = <<>> /\ at = "hlt"
  /\ at = "handler" => isr = {vector}
  /\ BootIsAlone

(* What the driver reads is what was typed, in order and with nothing left  *)
(* out, from the first code it gets to see, and at most one code is seen    *)
(* twice.  mouse_init may take up to two bytes away before the driver sees  *)
(* any; the request such a byte leaves behind is the one interrupt too many *)
(* that can find the register holding an old code.                          *)
CodesAt == {i \in DOMAIN handled : handled[i] # Resend}
Follows(i, j) == i < j /\ \A k \in CodesAt : ~(i < k /\ k < j)
Repeats == {j \in CodesAt : \E i \in CodesAt :
             Follows(i, j) /\ handled[j] = handled[i]}
KeysInOrder ==
  /\ \A i, j \in CodesAt : Follows(i, j) => handled[j] - handled[i] \in {0, 1}
  /\ \A i, j \in Repeats : i = j
  /\ \A j \in CodesAt : (\A i \in CodesAt : j <= i) => handled[j] <= 3

(* The keyboard never wedges: whatever is typed, before, during or after    *)
(* the boot, is taken off the controller, unless the console locked itself. *)
(* A byte that was there when remap_pic cleared the requests would block    *)
(* the register for good, but for mouse_init reading it.                    *)
KeyboardAlive == (obf \/ queue # <<>>) ~> (at = "locked" \/ (~obf /\ queue = <<>>))

(* README.md:19, "Real-time HH:MM:SS clock via timer ticks": every timer    *)
(* pulse from the boot to the lockout is counted, also while a command of   *)
(* the shell runs in the keyboard's handler.                                *)
EveryPulseCounts == lost = 0
=============================================================================
