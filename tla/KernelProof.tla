---------------------------- MODULE KernelProof -----------------------------
(***************************************************************************)
(* Handlers never nest and nothing happens before the boot is over: for    *)
(* every script, keymap and size of a buffer.  What makes both inductive   *)
(* is the stack: a handler returns to the halt loop of kernel_main and to  *)
(* nothing else.                                                           *)
(*                                                                         *)
(* And what the driver reads comes in order.  Inductive there is how many  *)
(* codes have left the queue, compared with the last one handled, and that *)
(* there is at most one interrupt request too many.                        *)
(***************************************************************************)
EXTENDS Kernel, SequenceTheorems, TLAPS

InHandler == {"handler", "eoi", "locked", "iret"}

(* Outside the handlers nothing is stacked or in service; interrupts are on *)
(* in the halt loop only.                                                   *)
Idle ==
  at \in BootSteps \cup {"hlt"} =>
    /\ stack = <<>> /\ isr = {}
    /\ if_flag => at = "hlt"

(* A handler runs with interrupts off, its line in service until the end of *)
(* interrupt was sent, and returns to the halt loop.                        *)
Busy ==
  at \in InHandler =>
    /\ ~if_flag
    /\ isr = IF at = "iret" THEN {} ELSE {vector}
    /\ \E v \in Lines : stack = <<[at |-> "hlt", vector |-> v]>>

IInv ==
  /\ at \in BootSteps \cup {"hlt"} \cup InHandler
  /\ vector \in Lines
  /\ if_flag \in BOOLEAN
  /\ Idle
  /\ Busy
  /\ BootIsAlone

LEMMA InitIInv == KernelInit => IInv
BY DEF KernelInit, KeyboardInit, ConsoleInit, IInv, Idle, Busy, BootIsAlone,
       Booted, BootSteps, InHandler, Lines, Timer, Kbd, Mouse

LEMMA BootPreserves == IInv /\ Boot => IInv'
<1>. SUFFICES ASSUME IInv, Boot
              PROVE  IInv'
  OBVIOUS
<1>. USE DEF IInv, Idle, Busy, BootIsAlone, Booted, BootSteps, InHandler,
             BootStep, keyboardVars, consoleVars, machine, port60
<1>1. CASE IdtInit
  BY <1>1 DEF IdtInit
<1>2. CASE KeyboardDriverInit
  BY <1>2 DEF KeyboardDriverInit, Unmask
<1>3. CASE TimerInit
  BY <1>3 DEF TimerInit, Unmask
<1>4. CASE MouseRead
  BY <1>4 DEF MouseRead, DrainPort60
<1>5. CASE MouseCommand
  BY <1>5 DEF MouseCommand
<1>6. CASE MouseAck
  BY <1>6 DEF MouseAck, DrainPort60
<1>7. CASE MouseUnmask
  BY <1>7 DEF MouseUnmask, Unmask
<1>8. CASE ConsoleStart
  BY <1>8 DEF ConsoleStart
<1>9. CASE Sti
  BY <1>9 DEF Sti
<1>. QED
  BY <1>1, <1>2, <1>3, <1>4, <1>5, <1>6, <1>7, <1>8, <1>9 DEF Boot

(* An interrupt is taken in the halt loop only.                             *)
LEMMA DeliverPreserves ==
  ASSUME IInv, NEW line \in Lines, Deliver(line)
  PROVE  IInv'
<1>1. at = "hlt" /\ stack = <<>> /\ isr = {}
  BY DEF IInv, Idle, Busy, Deliver
<1>2. stack' = <<[at |-> "hlt", vector |-> vector]>>
  BY <1>1 DEF Deliver
<1>3. at' = "handler" /\ vector' = line /\ isr' = {line} /\ if_flag' = FALSE
  BY <1>1 DEF Deliver, IfInHandler
<1>. QED
  BY <1>1, <1>2, <1>3
     DEF IInv, Idle, Busy, BootIsAlone, Booted, BootSteps, InHandler

LEMMA HandlerPreserves ==
  IInv /\ (TimerHandler \/ KeyboardHandler \/ Eoi \/ Iret) => IInv'
<1>. SUFFICES ASSUME IInv, TimerHandler \/ KeyboardHandler \/ Eoi \/ Iret
              PROVE  IInv'
  OBVIOUS
<1>1. CASE TimerHandler
  BY <1>1 DEF TimerHandler, machine, IInv, Idle, Busy, BootIsAlone, Booted,
              BootSteps, InHandler
<1>2. CASE KeyboardHandler
  <2>1. at = "handler" /\ at' \in {"locked", "eoi"} /\ UNCHANGED machine
    BY <1>2 DEF KeyboardHandler
  <2>. QED
    BY <2>1 DEF machine, IInv, Idle, Busy, BootIsAlone, Booted, BootSteps,
                InHandler
<1>3. CASE Eoi
  <2>1. at = "eoi" /\ at' = "iret" /\ isr = {vector}
    BY <1>3 DEF Eoi, IInv, Busy, InHandler
  <2>2. isr' = {}
    BY <1>3, <2>1 DEF Eoi
  <2>. QED
    BY <1>3, <2>1, <2>2
       DEF Eoi, IInv, Idle, Busy, BootIsAlone, Booted, BootSteps, InHandler
<1>4. CASE Iret
  <2>1. PICK v \in Lines : stack = <<[at |-> "hlt", vector |-> v]>>
    BY <1>4 DEF Iret, IInv, Busy, InHandler
  <2>2. at' = "hlt" /\ vector' = v /\ stack' = <<>>
    BY <1>4, <2>1 DEF Iret
  <2>. QED
    BY <1>4, <2>2
       DEF Iret, IInv, Idle, Busy, BootIsAlone, Booted, BootSteps, InHandler
<1>. QED
  BY <1>1, <1>2, <1>3, <1>4

(* The devices change neither the processor nor what it works on.           *)
LEMMA DevicePreserves == IInv /\ (Pulse \/ Type \/ Fill \/ UNCHANGED vars) => IInv'
BY DEF Pulse, Type, Fill, vars, machine, port60, keyboardVars, consoleVars,
       IInv, Idle, Busy, BootIsAlone, Booted

LEMMA NextPreservesIInv == IInv /\ [KernelNext]_vars => IInv'
BY BootPreserves, DeliverPreserves, HandlerPreserves, DevicePreserves
   DEF KernelNext, CpuStep

(* The invariant of every behaviour of the kernel.                          *)
THEOREM SpecIInv == KernelSpec => []IInv
<1>. QED
  BY InitIInv, NextPreservesIInv, PTL DEF KernelSpec

(* At most one handler runs, with interrupts off, and none before           *)
(* kernel_main turns them on: what a handler works on needs no lock, and is *)
(* initialised.                                                             *)
THEOREM SpecHandlersDoNotNest == KernelSpec => []HandlersDoNotNest
<1>1. IInv => HandlersDoNotNest
  <2>. SUFFICES ASSUME IInv
                PROVE  HandlersDoNotNest
    OBVIOUS
  <2>1. CASE at \in BootSteps \cup {"hlt"}
    <3>1. stack = <<>> /\ isr = {} /\ (if_flag => at = "hlt") /\ at # "handler"
      BY <2>1 DEF IInv, Idle, BootSteps
    <3>. QED
      BY <3>1 DEF HandlersDoNotNest, IInv
  <2>2. CASE at \in InHandler
    <3>1. PICK v \in Lines : stack = <<[at |-> "hlt", vector |-> v]>>
      BY <2>2 DEF IInv, Busy
    <3>2. Len(stack) = 1
      BY <3>1
    <3>. QED
      BY <2>2, <3>2 DEF IInv, Busy, HandlersDoNotNest
  <2>. QED
    BY <2>1, <2>2 DEF IInv
<1>. QED
  BY <1>1, SpecIInv, PTL

-----------------------------------------------------------------------------
(* The bytes in order.  Up to f is what ever came out of the queue; the     *)
(* rest is in the queue, with the keyboard's one answer at place r, or      *)
(* without it.                                                              *)
InKbd == at = "handler" /\ vector = Kbd
Drains ==
  IF at \in {"idt_init", "keyboard_init", "timer_init", "mouse_init"} THEN 0
  ELSE IF at \in {"mouse_cmd", "mouse_ack"} THEN 1 ELSE 2
Unread == obf /\ out # Resend

QueueFrom(f, r) ==
  /\ r \in Nat \ {0} /\ r <= Len(queue) + 1
  /\ Len(queue) = typed - f + (IF r <= Len(queue) THEN 1 ELSE 0)
  /\ \A k \in DOMAIN queue :
       queue[k] = IF k < r THEN f + k ELSE IF k = r THEN Resend ELSE f + k - 1
  /\ at \in BootSteps \ {"mouse_ack", "mouse_mask", "console_init", "sti"} =>
       r = Len(queue) + 1

(* The last code handled is f, or the one before if f is still unread; if   *)
(* none was handled the boot took them all away.                            *)
LastIs(l) == \E i \in CodesAt : handled[i] = l /\ \A j \in CodesAt : j <= i
InStep(f) ==
  /\ f \in Nat /\ out \in {Resend, f}
  /\ CodesAt = {} => f <= Drains + 1 /\ (~Unread => f <= Drains)
  /\ CodesAt # {} => (Unread => LastIs(f - 1)) /\ (~Unread => LastIs(f))

(* A request too many: it will find the register without an unread byte.    *)
Surplus ==
  \/ Kbd \in irr /\ InKbd
  \/ ~obf /\ (Kbd \in irr \/ InKbd)

ByteTypes ==
  /\ queue \in Seq(Nat) /\ handled \in Seq(Nat)
  /\ typed \in Nat /\ out \in Nat /\ obf \in BOOLEAN

OrderInv ==
  /\ ByteTypes
  /\ \E f, r \in Nat : QueueFrom(f, r) /\ InStep(f)
  /\ ~obf => ~(Kbd \in irr /\ InKbd)
  /\ Surplus => Repeats = {}
  /\ KeysInOrder

LEMMA InitOrderInv == KernelInit => OrderInv
<1>. SUFFICES ASSUME KernelInit PROVE OrderInv
  OBVIOUS
<1>. USE DEF KernelInit
<1>1. CodesAt = {} /\ Repeats = {}
  BY DEF CodesAt, Repeats
<1>2. QueueFrom(0, 1) /\ InStep(0)
  BY <1>1 DEF QueueFrom, InStep, BootSteps, Resend, Drains, Unread
<1>3. ByteTypes
  <2>1. queue = <<>> /\ handled = <<>> /\ typed = 0 /\ out = 0 /\ obf = FALSE
    BY DEF Resend
  <2>2. <<>> \in Seq(Nat) /\ 0 \in Nat
    OBVIOUS
  <2>. QED
    BY <2>1, <2>2, Zenon DEF ByteTypes
<1>4. ~Surplus \/ Repeats = {}
  BY <1>1
<1>5. ~InKbd
  BY DEF InKbd
<1>6. KeysInOrder
  BY <1>1 DEF KeysInOrder
<1>. QED
  BY <1>2, <1>3, <1>4, <1>5, <1>6 DEF OrderInv

(* Steps that move no byte.                                                 *)
LEMMA QuietOrder ==
  ASSUME OrderInv, UNCHANGED <<queue, handled, typed, out, obf>>,
         at' \in BootSteps \ {"mouse_ack", "mouse_mask", "console_init", "sti"} =>
           at \in BootSteps \ {"mouse_ack", "mouse_mask", "console_init", "sti"},
         Drains' >= Drains, Drains \in Nat, Drains' \in Nat,
         ~obf => ~(Kbd \in irr' /\ InKbd'),
         Surplus' => Surplus
  PROVE  OrderInv'
<1>1. PICK f, r \in Nat : QueueFrom(f, r) /\ InStep(f)
  BY DEF OrderInv
<1>2. QueueFrom(f, r)'
  BY <1>1 DEF QueueFrom
<1>3. CodesAt' = CodesAt /\ Repeats' = Repeats
  BY DEF CodesAt, Repeats, Follows
<1>a. (Unread' <=> Unread) /\ \A l : LastIs(l)' <=> LastIs(l)
  BY <1>3 DEF LastIs, Unread
<1>4. InStep(f)'
  <2>1. out' \in {Resend, f} /\ f \in Nat
    BY <1>1 DEF InStep
  <2>2. CodesAt = {} => f <= Drains' + 1 /\ (~Unread' => f <= Drains')
    <3>1. CodesAt = {} => f <= Drains + 1 /\ (~Unread => f <= Drains)
      BY <1>1 DEF InStep
    <3>2. Unread' <=> Unread
      BY <1>a
    <3>3. f <= Drains => f <= Drains'
      OBVIOUS
    <3>4. f <= Drains + 1 => f <= Drains' + 1
      <4>1. \A a, b, c \in Nat : c >= b /\ a <= b + 1 => a <= c + 1
        OBVIOUS
      <4>. QED
        BY <4>1, Zenon
    <3>. QED
      BY <3>1, <3>2, <3>3, <3>4, Zenon
  <2>3. CodesAt # {} => (Unread' => LastIs(f - 1)') /\ (~Unread' => LastIs(f)')
    BY <1>1, <1>a DEF InStep
  <2>. QED
    BY <1>3, <2>1, <2>2, <2>3, Zenon DEF InStep
<1>5. KeysInOrder'
  BY <1>3 DEF KeysInOrder, OrderInv, Follows
<1>. QED
  BY <1>2, <1>3, <1>4, <1>5 DEF OrderInv, ByteTypes

(* The boot: what is read is thrown away, and Codes are still none.         *)
LEMMA BootOrder == IInv /\ OrderInv /\ Boot => OrderInv'
<1>. SUFFICES ASSUME IInv, OrderInv, Boot
              PROVE  OrderInv'
  OBVIOUS
<1>0. handled = <<>> /\ ~InKbd /\ at \in BootSteps
  BY DEF Boot, IdtInit, KeyboardDriverInit, TimerInit, MouseRead, MouseCommand,
         MouseAck, MouseUnmask, ConsoleStart, Sti, BootStep, BootSteps, IInv,
         BootIsAlone, Booted, InKbd
<1>1. CodesAt = {} /\ Repeats = {}
  BY <1>0 DEF CodesAt, Repeats
<1>2. PICK f, r \in Nat : QueueFrom(f, r) /\ InStep(f)
  BY DEF OrderInv
<1>3. Drains \in Nat /\ Drains' \in Nat
  BY DEF Drains
<1>. USE DEF BootStep, keyboardVars, consoleVars, machine, port60
<1>4. CASE IdtInit \/ KeyboardDriverInit \/ TimerInit \/ MouseUnmask
           \/ ConsoleStart \/ Sti
  <2>1. UNCHANGED <<queue, handled, typed, out, obf>> /\ irr' \subseteq irr
    BY <1>4 DEF IdtInit, KeyboardDriverInit, TimerInit, Unmask, MouseUnmask,
                ConsoleStart, Sti
  <2>2. Drains' >= Drains /\ at' # "handler"
        /\ (at' \in BootSteps \ {"mouse_ack", "mouse_mask", "console_init", "sti"} =>
             at \in BootSteps \ {"mouse_ack", "mouse_mask", "console_init", "sti"})
    BY <1>4 DEF IdtInit, KeyboardDriverInit, TimerInit, Unmask, MouseUnmask,
                ConsoleStart, Sti, Drains, BootSteps
  <2>3. ~InKbd' /\ (Surplus' => Surplus)
    BY <1>0, <2>1, <2>2 DEF Surplus, InKbd
  <2>. QED
    BY <1>3, <2>1, <2>2, <2>3, QuietOrder
<1>5. CASE MouseRead \/ MouseAck
  <2>1. UNCHANGED <<queue, handled, typed, out>> /\ obf' = FALSE
        /\ at' # "handler"
    BY <1>5 DEF MouseRead, MouseAck, DrainPort60
  <2>2. Drains' = Drains + 1
        /\ (at' \in BootSteps \ {"mouse_ack", "mouse_mask", "console_init", "sti"} =>
             at \in BootSteps \ {"mouse_ack", "mouse_mask", "console_init", "sti"})
    BY <1>5 DEF MouseRead, MouseAck, Drains, BootSteps
  <2>3. CodesAt' = {} /\ Repeats' = {}
    BY <1>1, <2>1 DEF CodesAt, Repeats
  <2>4. QueueFrom(f, r)'
    BY <1>2, <2>1, <2>2 DEF QueueFrom
  <2>5. InStep(f)'
    BY <1>1, <1>2, <1>3, <2>1, <2>2, <2>3 DEF InStep
  <2>6. KeysInOrder'
    BY <2>3 DEF KeysInOrder
  <2>. QED
    BY <2>1, <2>3, <2>4, <2>5, <2>6 DEF OrderInv, ByteTypes, InKbd
<1>6. CASE MouseCommand
  <2>1. UNCHANGED <<handled, typed, out, obf, irr>> /\ queue' = Append(queue, Resend)
        /\ at = "mouse_cmd" /\ at' = "mouse_ack"
    BY <1>6 DEF MouseCommand
  <2>2. queue \in Seq(Nat) /\ queue' \in Seq(Nat) /\ typed \in Nat
    BY <2>1 DEF OrderInv, ByteTypes, Resend
  <2>3. r = Len(queue) + 1 /\ Drains' = Drains
    BY <1>2, <2>1 DEF QueueFrom, BootSteps, Drains
  <2>4. QueueFrom(f, r)'
    BY <1>2, <2>1, <2>2, <2>3, SMTT(30) DEF QueueFrom
  <2>5. CodesAt' = {} /\ Repeats' = {} /\ (Unread' <=> Unread)
    BY <1>1, <2>1 DEF CodesAt, Repeats, Unread
  <2>6. InStep(f)'
    BY <1>1, <1>2, <2>1, <2>3, <2>5 DEF InStep
  <2>7. KeysInOrder' /\ ~InKbd'
    BY <2>1, <2>5 DEF KeysInOrder, InKbd
  <2>. QED
    BY <2>1, <2>2, <2>4, <2>5, <2>6, <2>7 DEF OrderInv, ByteTypes
<1>. QED
  BY <1>4, <1>5, <1>6 DEF Boot

(* A pulse, and the processor's steps that are not about the keyboard.      *)
LEMMA ProcessorOrder ==
  IInv /\ OrderInv /\
  (TimerHandler \/ Eoi \/ Iret \/ Pulse \/ (\E l \in Lines : Deliver(l))) => OrderInv'
<1>. SUFFICES ASSUME IInv, OrderInv,
                     TimerHandler \/ Eoi \/ Iret \/ Pulse \/ \E l \in Lines : Deliver(l)
              PROVE  OrderInv'
  OBVIOUS
<1>1. UNCHANGED <<queue, handled, typed, out, obf>>
  BY DEF TimerHandler, Eoi, Iret, Pulse, Deliver, machine, port60
<1>2. Drains \in Nat /\ Drains' \in Nat
  BY DEF Drains
<1>3. CASE Pulse
  <2>1. UNCHANGED <<at, vector>> /\ (Kbd \in irr' <=> Kbd \in irr)
    BY <1>3 DEF Pulse, machine, Timer, Kbd
  <2>2. UNCHANGED Drains /\ UNCHANGED InKbd
    BY <2>1 DEF Drains, InKbd
  <2>3. (~obf => ~(Kbd \in irr' /\ InKbd')) /\ (Surplus' => Surplus)
    BY <1>1, <2>1, <2>2 DEF OrderInv, Surplus
  <2>. QED
    BY <1>1, <1>2, <2>1, <2>2, <2>3, QuietOrder
<1>4. CASE TimerHandler \/ Eoi \/ Iret
  <2>1. at \notin BootSteps /\ at' \notin BootSteps /\ ~InKbd' /\ irr' = irr
    <3>1. CASE TimerHandler \/ Eoi
      BY <3>1 DEF TimerHandler, Eoi, machine, InKbd, BootSteps
    <3>2. CASE Iret
      <4>1. PICK v \in Lines : stack = <<[at |-> "hlt", vector |-> v]>>
        BY <3>2 DEF Iret, IInv, Busy, InHandler
      <4>2. at' = "hlt"
        BY <3>2, <4>1 DEF Iret
      <4>. QED
        BY <3>2, <4>2 DEF Iret, InKbd, BootSteps
    <3>. QED
      BY <1>4, <3>1, <3>2
  <2>2. UNCHANGED Drains
    BY <2>1 DEF Drains, BootSteps
  <2>3. Surplus' => Surplus
    BY <1>1, <2>1 DEF Surplus
  <2>. QED
    BY <1>1, <1>2, <2>1, <2>2, <2>3, QuietOrder
<1>5. ASSUME NEW l \in Lines, Deliver(l)
      PROVE  OrderInv'
  <2>1. at = "hlt" /\ at' = "handler" /\ irr' = irr \ {l} /\ l \in irr /\ vector' = l
    BY <1>5 DEF Deliver, IInv, Idle, Busy, Pending
  <2>2. UNCHANGED Drains /\ at \notin BootSteps /\ at' \notin BootSteps
    BY <2>1 DEF Drains, BootSteps
  <2>3. (~obf => ~(Kbd \in irr' /\ InKbd')) /\ (Surplus' => Surplus)
    BY <1>1, <2>1 DEF InKbd, Surplus
  <2>. QED
    BY <1>1, <1>2, <2>2, <2>3, QuietOrder
<1>. QED
  BY <1>3, <1>4, <1>5

(* A code is typed: it goes behind all the others.                          *)
LEMMA TypeOrder == OrderInv /\ Type => OrderInv'
<1>. SUFFICES ASSUME OrderInv, Type
              PROVE  OrderInv'
  OBVIOUS
<1>1. PICK f, r \in Nat : QueueFrom(f, r) /\ InStep(f)
  BY DEF OrderInv
<1>2. /\ queue' = Append(queue, typed + 1) /\ typed' = typed + 1
      /\ UNCHANGED <<handled, out, obf, irr, at, vector>>
  BY DEF Type, machine
<1>3. queue \in Seq(Nat) /\ typed \in Nat /\ queue' \in Seq(Nat)
  BY <1>2 DEF OrderInv, ByteTypes
<1>4. UNCHANGED <<CodesAt, Repeats, Drains>>
  BY <1>2 DEF CodesAt, Repeats, Follows, Drains
<1>5. /\ Unread' <=> Unread
      /\ Surplus' <=> Surplus
      /\ InKbd' <=> InKbd
      /\ \A l : LastIs(l)' <=> LastIs(l)
  BY <1>2, <1>4 DEF Unread, Surplus, InKbd, LastIs
<1>6. InStep(f)'
  BY <1>1, <1>2, <1>4, <1>5 DEF InStep
<1>7. f \in Nat /\ f <= typed
  BY <1>1, <1>3 DEF InStep, QueueFrom
<1>8. \E q \in Nat : QueueFrom(f, q)'
  <2>1. CASE r = Len(queue) + 1
    <3>1. QueueFrom(f, r + 1)'
      BY <1>1, <1>2, <1>3, <1>7, <2>1 DEF QueueFrom
    <3>. QED
      BY <3>1
  <2>2. CASE r <= Len(queue)
    <3>1. QueueFrom(f, r)'
      BY <1>1, <1>2, <1>3, <1>7, <2>2 DEF QueueFrom
    <3>. QED
      BY <3>1
  <2>. QED
    BY <1>1, <1>3, <2>1, <2>2 DEF QueueFrom
<1>9. KeysInOrder'
  BY <1>2, <1>4 DEF KeysInOrder, OrderInv, Follows
<1>. QED
  BY <1>2, <1>3, <1>4, <1>5, <1>6, <1>8, <1>9 DEF OrderInv, ByteTypes

(* The controller takes the next byte.                                      *)
LEMMA FillOrder == OrderInv /\ Fill => OrderInv'
<1>. SUFFICES ASSUME OrderInv, Fill
              PROVE  OrderInv'
  OBVIOUS
<1>1. PICK f, r \in Nat : QueueFrom(f, r) /\ InStep(f)
  BY DEF OrderInv
<1>2. /\ ~obf /\ queue # <<>> /\ out' = Head(queue) /\ obf' = TRUE
      /\ queue' = Tail(queue) /\ irr' = irr \cup {Kbd}
      /\ UNCHANGED <<handled, at, vector, typed>>
  BY DEF Fill
<1>3. /\ queue \in Seq(Nat) /\ typed \in Nat /\ queue' \in Seq(Nat)
      /\ Len(queue) > 0 /\ out' = queue[1] /\ queue[1] \in Nat
      /\ Len(queue') = Len(queue) - 1
      /\ \A k \in 1 .. Len(queue') : queue'[k] = queue[k + 1]
  BY <1>2, HeadTailProperties DEF OrderInv, ByteTypes
<1>4. UNCHANGED <<CodesAt, Repeats, Drains>> /\ ~Unread
  BY <1>2 DEF CodesAt, Repeats, Follows, Drains, Unread
<1>5. /\ InKbd' <=> InKbd
      /\ \A l : LastIs(l)' <=> LastIs(l)
      /\ Surplus' => Surplus
  BY <1>2, <1>4 DEF Surplus, InKbd, LastIs
<1>6. f \in Nat /\ Drains \in Nat
  BY <1>1 DEF InStep, Drains
<1>a. PICK n \in Nat : n = Len(queue) /\ n > 0 /\ DOMAIN queue = 1 .. n
                         /\ Len(queue') = n - 1 /\ DOMAIN queue' = 1 .. (n - 1)
  BY <1>3
<1>b. /\ r \in Nat \ {0} /\ r <= n + 1
      /\ n = typed - f + (IF r <= n THEN 1 ELSE 0)
      /\ \A k \in 1 .. n :
           queue[k] = IF k < r THEN f + k ELSE IF k = r THEN Resend ELSE f + k - 1
      /\ at \in BootSteps \ {"mouse_ack", "mouse_mask", "console_init", "sti"} =>
           r = n + 1
  BY <1>1, <1>a DEF QueueFrom
<1>c. \A k \in 1 .. (n - 1) :
        queue'[k] = IF k + 1 < r THEN f + (k + 1)
                    ELSE IF k + 1 = r THEN Resend ELSE f + (k + 1) - 1
  <2>1. \A k \in 1 .. (n - 1) : k + 1 \in 1 .. n /\ queue'[k] = queue[k + 1]
    BY <1>3, <1>a
  <2>. QED
    BY <1>b, <2>1
<1>d. 1 \in 1 .. n /\ queue[1] = IF 1 < r THEN f + 1 ELSE Resend
  BY <1>6, <1>a, <1>b
<1>7. CASE r = 1
  <2>1. out' = Resend /\ ~Unread'
    BY <1>3, <1>7, <1>d DEF Unread
  <2>2. InStep(f)'
    BY <1>1, <1>4, <1>5, <1>6, <2>1 DEF InStep
  <2>3. QueueFrom(f, n)'
    <3>1. n - 1 = typed - f /\ n <= (n - 1) + 1 /\ ~(n <= n - 1)
      BY <1>3, <1>6, <1>7, <1>a, <1>b
    <3>2. \A k \in 1 .. (n - 1) : queue'[k] = f + k
      BY <1>6, <1>7, <1>c
    <3>. QED
      BY <1>2, <1>3, <1>6, <1>a, <3>1, <3>2, SMTT(30) DEF QueueFrom
  <2>. QED
    BY <1>2, <1>3, <1>4, <1>5, <1>6, <1>a, <2>2, <2>3 DEF OrderInv, ByteTypes, KeysInOrder, Follows
<1>8. CASE r # 1
  <2>1. out' = f + 1
    <3>1. 1 < r
      BY <1>8, <1>b
    <3>2. queue[1] = f + 1
      BY <1>d, <3>1
    <3>. QED
      BY <1>3, <3>2, Zenon
  <2>2. Unread' /\ (f + 1) - 1 = f
    BY <1>2, <1>6, <2>1 DEF Unread, Resend
  <2>3. CodesAt = {} => f + 1 <= Drains' + 1
    BY <1>1, <1>4, <1>6 DEF InStep
  <2>4. CodesAt # {} => LastIs((f + 1) - 1)'
    BY <1>1, <1>4, <1>5, <2>2 DEF InStep
  <2>5. InStep(f + 1)'
    BY <1>4, <1>6, <2>1, <2>2, <2>3, <2>4 DEF InStep
  <2>6. QueueFrom(f + 1, r - 1)'
    <3>1. r - 1 \in Nat \ {0} /\ r - 1 <= (n - 1) + 1
      BY <1>8, <1>b
    <3>2. n - 1 = typed - (f + 1) + (IF r - 1 <= n - 1 THEN 1 ELSE 0)
      BY <1>3, <1>6, <1>a, <1>b
    <3>3. \A k \in 1 .. (n - 1) :
            queue'[k] = IF k < r - 1 THEN (f + 1) + k
                        ELSE IF k = r - 1 THEN Resend ELSE (f + 1) + k - 1
      BY <1>6, <1>b, <1>c
    <3>4. at' \in BootSteps \ {"mouse_ack", "mouse_mask", "console_init", "sti"} =>
            r - 1 = (n - 1) + 1
      BY <1>2, <1>b
    <3>5. typed' = typed /\ Len(queue') = n - 1 /\ DOMAIN queue' = 1 .. (n - 1)
      BY <1>2, <1>a
    <3>. QED
      BY <3>1, <3>2, <3>3, <3>4, <3>5, Zenon DEF QueueFrom
  <2>7. f + 1 \in Nat /\ r - 1 \in Nat
    BY <1>6, <1>8, <1>b
  <2>8. \E g, q \in Nat : QueueFrom(g, q)' /\ InStep(g)'
    BY <2>5, <2>6, <2>7, Zenon
  <2>. QED
    BY <1>2, <1>3, <1>4, <1>5, <2>8 DEF OrderInv, ByteTypes, KeysInOrder, Follows
<1>. QED
  BY <1>7, <1>8

(* The driver reads a byte: one more at the end of what it has handled.     *)
LEMMA Handled ==
  ASSUME ByteTypes, handled' = Append(handled, out)
  PROVE  /\ handled' \in Seq(Nat)
         /\ Len(handled) + 1 \notin CodesAt /\ CodesAt \subseteq 1 .. Len(handled)
         /\ handled'[Len(handled) + 1] = out
         /\ \A i \in CodesAt : handled'[i] = handled[i] /\ handled[i] \in Nat \ {0}
         /\ CodesAt' = CodesAt \cup (IF out = Resend THEN {} ELSE {Len(handled) + 1})
<1>1. /\ handled \in Seq(Nat) /\ out \in Nat /\ handled' \in Seq(Nat)
      /\ DOMAIN handled = 1 .. Len(handled) /\ Len(handled) \in Nat
      /\ DOMAIN handled' = 1 .. Len(handled) + 1
      /\ handled'[Len(handled) + 1] = out
      /\ \A i \in 1 .. Len(handled) : handled'[i] = handled[i] /\ handled[i] \in Nat
  BY DEF ByteTypes
<1>2. \A i : i \in CodesAt' <=>
        i \in CodesAt \/ (i = Len(handled) + 1 /\ out # Resend)
  BY <1>1 DEF CodesAt
<1>3. CodesAt' = CodesAt \cup (IF out = Resend THEN {} ELSE {Len(handled) + 1})
  BY <1>2
<1>. QED
  BY <1>1, <1>3 DEF CodesAt, Resend

LEMMA HandlerOrder == IInv /\ OrderInv /\ KeyboardHandler => OrderInv'
<1>. SUFFICES ASSUME IInv, OrderInv, KeyboardHandler
              PROVE  OrderInv'
  OBVIOUS
<1>1. PICK f, r \in Nat : QueueFrom(f, r) /\ InStep(f)
  BY DEF OrderInv
<1>2. /\ InKbd /\ ~InKbd' /\ at \notin BootSteps /\ at' \notin BootSteps
      /\ obf' = FALSE /\ handled' = Append(handled, out)
      /\ UNCHANGED <<queue, out, typed, irr>>
  BY DEF KeyboardHandler, InKbd, BootSteps, machine
<1>a. PICK n \in Nat : n = Len(handled) + 1
  BY DEF OrderInv, ByteTypes
<1>3. /\ handled' \in Seq(Nat) /\ n \in Nat
      /\ n \notin CodesAt /\ CodesAt \subseteq 1 .. n /\ handled'[n] = out
      /\ \A i \in CodesAt : handled'[i] = handled[i] /\ handled[i] \in Nat \ {0}
      /\ CodesAt' = CodesAt \cup (IF out = Resend THEN {} ELSE {n})
  <2>1. ByteTypes /\ \A i \in 1 .. Len(handled) : i \in 1 .. n
    BY <1>a DEF OrderInv, ByteTypes
  <2>. QED
    BY <1>2, <1>a, <2>1, Handled
<1>4. QueueFrom(f, r)' /\ Drains' = 2 /\ Drains = 2 /\ ~Unread'
  BY <1>1, <1>2 DEF QueueFrom, Drains, Unread, BootSteps
<1>5. ByteTypes'
  BY <1>2, <1>3 DEF OrderInv, ByteTypes
<1>6. (Surplus' => Kbd \in irr /\ Surplus) /\ (~obf => Surplus /\ ~Surplus')
  BY <1>2 DEF OrderInv, Surplus
<1>7. CASE out = Resend
  <2>1. CodesAt' = CodesAt /\ ~Unread
    BY <1>3, <1>7 DEF Unread
  <2>2. /\ \A i \in CodesAt : handled'[i] = handled[i]
        /\ \A i, j : Follows(i, j)' <=> Follows(i, j)
        /\ Repeats' = Repeats
        /\ \A l : LastIs(l)' <=> LastIs(l)
    BY <1>3, <2>1 DEF Follows, Repeats, LastIs
  <2>3. InStep(f)'
    BY <1>1, <1>2, <1>4, <2>1, <2>2 DEF InStep
  <2>4. KeysInOrder'
    BY <2>1, <2>2 DEF OrderInv, KeysInOrder
  <2>. QED
    BY <1>1, <1>2, <1>4, <1>5, <1>6, <2>2, <2>3, <2>4 DEF OrderInv
<1>8. CASE out # Resend
  <2>1. out = f /\ f \in Nat \ {0} /\ CodesAt' = CodesAt \cup {n} /\ (Unread <=> obf)
    BY <1>1, <1>3, <1>8 DEF InStep, Unread, Resend
  <2>2. LastIs(f)' /\ InStep(f)'
    <3>1. LastIs(f)'
      BY <1>3, <2>1 DEF LastIs
    <3>. QED
      BY <1>2, <1>4, <2>1, <3>1 DEF InStep
  <2>3. \A i, j \in CodesAt : Follows(i, j)' <=> Follows(i, j)
    BY <1>3, <2>1 DEF Follows
  <2>4. \A i \in CodesAt' : ~Follows(n, i)'
    BY <1>3, <2>1 DEF Follows
  <2>5. CASE CodesAt = {}
    <3>1. CodesAt' = {n} /\ Repeats' = {} /\ f <= 3
      BY <1>1, <1>4, <2>1, <2>4, <2>5 DEF Repeats, InStep
    <3>2. KeysInOrder'
      BY <1>3, <2>1, <2>4, <3>1 DEF KeysInOrder
    <3>. QED
      BY <1>1, <1>2, <1>4, <1>5, <2>2, <3>1, <3>2 DEF OrderInv
  <2>6. CASE CodesAt # {}
    <3>1. PICK l \in CodesAt : /\ \A j \in CodesAt : j <= l
                              /\ handled[l] = IF obf THEN f - 1 ELSE f
      BY <1>1, <2>1, <2>6 DEF InStep, LastIs
    <3>2. \A i \in CodesAt : Follows(i, n)' => i = l
      BY <1>3, <2>1, <3>1 DEF Follows
    <3>3. \A i, j \in CodesAt' :
            Follows(i, j)' =>
              handled'[j] - handled'[i] \in {0, 1}
      <4>. SUFFICES ASSUME NEW i \in CodesAt', NEW j \in CodesAt', Follows(i, j)'
                    PROVE  handled'[j] - handled'[i] \in {0, 1}
        OBVIOUS
      <4>1. CASE j = n
        BY <1>3, <2>1, <2>4, <3>1, <3>2, <4>1
      <4>2. CASE j # n
        BY <1>3, <2>1, <2>3, <2>4, <4>2 DEF OrderInv, KeysInOrder
      <4>. QED
        BY <4>1, <4>2
    <3>4. Repeats' \subseteq Repeats \cup (IF obf THEN {} ELSE {n})
      <4>. SUFFICES ASSUME NEW j \in CodesAt', NEW i \in CodesAt', Follows(i, j)',
                           handled'[j] = handled'[i]
                    PROVE  j \in Repeats \cup (IF obf THEN {} ELSE {n})
        BY DEF Repeats
      <4>1. CASE j = n
        BY <1>3, <2>1, <2>4, <3>1, <3>2, <4>1
      <4>2. CASE j # n
        BY <1>3, <2>1, <2>3, <2>4, <4>2 DEF Repeats
      <4>. QED
        BY <4>1, <4>2
    <3>5. /\ \A i, j \in Repeats' : i = j
          /\ Surplus' => Repeats' = {}
      BY <1>6, <3>4 DEF OrderInv, KeysInOrder
    <3>6. \A j \in CodesAt' : (\A i \in CodesAt' : j <= i) => handled'[j] <= 3
      <4>1. CodesAt \subseteq CodesAt' /\ l <= n /\ l # n /\ l \in Nat
        BY <1>3, <2>1, <3>1
      <4>. QED
        BY <1>3, <2>1, <4>1, SMTT(30) DEF OrderInv, KeysInOrder
    <3>. QED
      BY <1>1, <1>2, <1>4, <1>5, <2>2, <3>3, <3>5, <3>6 DEF OrderInv, KeysInOrder
  <2>. QED
    BY <2>5, <2>6
<1>. QED
  BY <1>7, <1>8

LEMMA NextPreservesOrder == IInv /\ OrderInv /\ [KernelNext]_vars => OrderInv'
<1>1. OrderInv /\ UNCHANGED vars => OrderInv'
  <2>. SUFFICES ASSUME OrderInv, UNCHANGED vars
                PROVE  OrderInv'
    OBVIOUS
  <2>1. UNCHANGED <<queue, handled, typed, out, obf, at, irr, vector>>
    BY DEF vars, machine, port60
  <2>2. UNCHANGED Drains /\ (Surplus' <=> Surplus) /\ (InKbd' <=> InKbd)
    BY <2>1 DEF Drains, Surplus, InKbd
  <2>3. Drains \in Nat
    BY DEF Drains
  <2>4. ~obf => ~(Kbd \in irr' /\ InKbd')
    BY <2>1, <2>2 DEF OrderInv
  <2>. QED
    BY <2>1, <2>2, <2>3, <2>4, QuietOrder
<1>. QED
  BY <1>1, BootOrder, ProcessorOrder, TypeOrder, FillOrder, HandlerOrder, Zenon
     DEF KernelNext, CpuStep

LEMMA SpecOrderInv == KernelSpec => []OrderInv
<1>. QED
  BY InitOrderInv, SpecIInv, NextPreservesOrder, PTL DEF KernelSpec

(* What the driver reads is what was typed, in order, but for the first two *)
(* bytes at most and one code read twice at most: for every script.  The    *)
(* keyboard's latched request and its one register are in step, but for the *)
(* request of a byte that mouse_init took away.                             *)
THEOREM SpecKeysInOrder == KernelSpec => []KeysInOrder
<1>1. OrderInv => KeysInOrder
  BY DEF OrderInv
<1>. QED
  BY <1>1, SpecOrderInv, PTL
=============================================================================
