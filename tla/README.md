# MicrosOS in TLA+

TLA+ modules, TLC configurations and TLAPS proofs for MicrosOS, a small i686
kernel. Sources are named by their path in the repository; every definition was
translated from the code, and `PROJECT.json` names the lines of each.

## 1. The system

`kernel_main` (kernel/kernel.c) runs with interrupts off: it clears the screen,
sets up the descriptor table and the interrupt controllers, initialises the
drivers, the file system and the boot gate, turns interrupts on and halts.
Everything else happens in interrupt handlers:

    timer    -> irq0 -> isr_handler -> timer_handler     (tick++)
    keyboard -> irq1 -> isr_handler -> keyboard_handler -> handle_scancode
                    -> console_on_key -> boot gate, or
                       microsos_shell_handle_char -> execute_line -> a command
                    -> console_on_extended_scancode -> screen_scroll_view

A shell command runs to its end inside the keyboard interrupt, with interrupts
off. There are no kernel threads: the "processes" of process/process.c are rows
of a table that the command `sched n` advances.

| Component | State | Operations | Hard parts | Correct means |
|---|---|---|---|---|
| Scheduler (process/process.c) | table of 16 tasks, index of the running one, policy, three counters | create process / thread, schedule, set policy, two resets | completion clears the index in the middle of `schedule()`; policy changes at any time; slots never reused; counters wrap | at most one runner, no started task stranded, exact bursts, SRTF picks the shortest, RR overtaking bounded, statistics true |
| File system (filesystem/*.c) | FAT links, block contents, directory | create, write, read | a write fails half way; nothing is freed; names cut and duplicated; reads in whole blocks | chains disjoint and finite, lengths right, all-or-nothing writes |
| Boot gate (kernel/console.c) | state, line buffer, wrong PINs | one key | edits across prompts, lockout | PIN first, lockout exact, lines edited right |
| Shell (shell/kernel_shell.c) | line buffer | one key; a command | leaving from within a command; words and numbers with blanks, signs and overflow | editor right; a line does what its words say; `read` prints the text |
| Keyboard driver (drivers/keyboard.c) | prefix and shift flags | one scan code | fake shifts, two shift keys, one flag | shift never stuck, few keys lost |
| Start and interrupts (kernel/*.c, *.asm, drivers/timer.c) | descriptor table, masks, tick | boot steps, handlers | requests during boot, one pending request per line, one keyboard byte at a time | handlers exclusive, keys in order, keyboard never wedged |
| Mouse driver (drivers/mouse.c) | packet, position | init, one byte | its port accesses steal keyboard bytes | the keyboard survives its init; the mouse cursor it turns on stays where it is |
| Screen (drivers/screen.c) | log of 200 rows, view, escape parser, mouse cursor | putchar, scroll, clear, place the mouse cursor | full log under a scrolled view; echo through the escape parser; the mouse cursor is drawn over the text | video memory shows the view and the mouse cursor, the screen shows what the editors hold, in a readable colour; typing is seen |
| Heap (memory/memory.c) | list of blocks in the heap itself | malloc, free | splitting, merging, rounding | blocks tile the heap, pieces are disjoint, free neighbours merge |
| Formatted output (drivers/printf.c) | none | printf | number conversion | numbers read back as the same |
| Hosted shell (shell/LegenJuice_Shell), a POSIX program | line, tokens, child | read, split, execute, wait | growing buffers, failing allocations, stopped children, end of input | arguments are the words, no child left at the prompt, nothing leaked |

**How they interact.** There are no messages and no threads; components call
each other and share memory, and the only concurrency is between the boot code,
the interrupt handlers and the devices. The keyboard driver calls the console,
the console calls the shell once the gate is open, and the shell's commands call
the scheduler, the file system and the screen. The screen is the only way back:
both line editors echo through it. `console_leave_shell` is a call back from a
shell command (`nikli`) into the console that called the shell.

**What is hard.**

* *Exclusion by interrupt flag.* Nothing takes a lock. That is right only as long
  as the gates are interrupt gates, the end-of-interrupt comes last, and boot
  keeps interrupts off (Kernel).
* *The keyboard controller.* It has one output register and an edge-triggered
  request. `remap_pic` drops latched requests, `mouse_init` reads port 60
  whatever is in it, `keyboard_handler` reads it without asking (Kernel).
* *Fake shift codes* wrapped around the arrow keys while a shift is down, and one
  flag for two shift keys (Keyboard, Typing).
* *`schedule()` changes its own premise*: the tick may complete the task that the
  demotion, the scan and the switch count then look at (Scheduler).
* *A write that fails half way* has linked and filled blocks (FileSystem).
* *Two editors, two states and one keyboard* (Console), whose echo runs through
  an escape sequence parser onto a log that wraps, scrolls and fills up (Screen,
  Terminal).
* *The heap keeps its list in the memory it hands out*: a size one byte off
  overwrites a header (Heap).
* *The hosted shell* looks at no result of its own functions, waits for a child
  that may stop, and takes the end of its input for an empty line (HostShell).

`PROJECT.json` lists the hazards line by line with the properties that watch them.

## 2. The modules

| Module | Models | State in the code |
|---|---|---|
| `Scheduler` | process/process.c, and the loop behind `sched n` | `process_table`, `process_count`, `next_pid`, `current_index`, `sched_policy`, three counters; `times` is the loop variable |
| `SchedulerService` | extends it: statistics and draining | - |
| `RoundRobin` | extends it with a record of who overtook whom | two history variables |
| `Commands` | words, numbers and `calc` of kernel_shell.c, number output of printf.c, as operators | - |
| `WordsOfText` | what the words of a line are: the places they begin at, and how many there are up to a place. The reference for both tokenizers | - |
| `ProcessShell` | `mkproc`, `mkthr`, `policy`, `sched`: from the typed line to `Scheduler` | - |
| `FileSystem` | filesystem.c and fat.c, one loop iteration a step | `fat_table`, `data_blocks`, `files`; `call` holds the local variables of the running call |
| `FileStore` | *abstract*: a list of named texts and shrinking free space | - |
| `FileSystemRefinement` | `FileSystem` implements `FileStore` | - |
| `FileShell` | `create`, `write`, `read`: from the words to `FileSystem` and back to what is printed | - |
| `ControlChars` | the two control characters of console and screen | - |
| `Console` | console.c and the line editor of kernel_shell.c | `state`, `line_buf`, `pin_fails`; `line_buffer` |
| `LineEditor` | `Console`, next to a line editor written as one fold | `typed`, a history variable |
| `Keyboard` | keyboard.c in front of `Console` | `extended_prefix`, `shift_pressed` |
| `Typing` | `Keyboard` behind a PS/2 keyboard and its user | the wire and the keys that are down (external) |
| `Kernel` | kernel.c, idt.c, isr.c, interrupts.asm, timer.c, port accesses of mouse.c, around `Keyboard` | descriptor table, masks, `tick`; the processor, the interrupt controller and the keyboard controller are external |
| `Screen` | screen.c as operators on one record | `lines`, cursor, `scroll_off`, `current_attr`, `ansi_bold`, escape state, the mouse cursor, and the video memory |
| `Terminal` | `LineEditor` with its echo on `Screen`, from the boot banner and the mouse cursor of `mouse_init` on | - |
| `Heap` | memory.c, one loop iteration a step | `blocks`: the headers in use; `call`: local variables; `held`: what callers know |
| `Allocator` | *abstract*: pieces of a heap, disjoint | - |
| `HostShell` | main loop, input and executor of the hosted shell, one character, token or system call a step | `buffer`, `tokens`, their sizes; allocation, `strtok` and the child are external |
| `*MC` | constant values for the runs | - |
| `Induction` | lemmas only: well-founded induction as induction over a set and over the numbers, recursion over the numbers, folds taken one element at a time, sums over sequences and sets, counting the places of a set | - |
| `*Proof` | theorems | - |

`Keyboard` extends `Console`, and `Kernel` extends `Keyboard`: a keyboard
interrupt in `Kernel` is the whole call chain down to the line editor.
`Terminal` composes `LineEditor` and `Screen` in the same way. `ProcessShell` puts
`Commands` in front of `Scheduler`, and `FileShell` the words of a line in front of
`FileSystem`: the runs of the process table and of the files are driven by lines.

**Steps.** Interrupt handlers do not interleave (a theorem here:
`SpecHandlersDoNotNest`). So a key is one step of `Console`, and a command's
calls never overlap. Where a loop inside a call is interesting by itself, because
it can stop in the middle or run for ever, its iterations are steps:
`write_file` and `read_file` per block, `process_schedule_times` per
`schedule()`, `os_malloc` and `os_free` per block of the list. In `Kernel` the steps are those an interrupt or a device can come
between.

**Data.** A character, a key or a name is a model value; a text is a sequence.
`Stored` maps a name to what `create_file` keeps of it. A scan code is a record
of make/break and key. Counters wrap (`CounterMod` stands for 2^32 of an
`unsigned long`, `TickMod` of an `unsigned int`). Prompts and messages are
sequences whose lengths, newlines and escape sequences matter, and whose words do
not. An int of the shell runs from `MinInt` to `MaxInt` and wraps; the tables and
operators do not depend on how wide it is. In a line a whole word that nobody
looks into stands for one character.

**Mutants.** Definitions called `Mutant...` are not part of any model. Each is a
plausible bug in the definition below it; replacing that one by it makes a named
property fail (`PROJECT.json`, "mutants").

## 3. The runs

| Run | Asks | Answer |
|---|---|---|
| `scheduler` | does the table stay consistent under any order of creation, `sched`, policy changes and resets? | Yes: one runner, the one `current_index` names; no started task is left waiting with the CPU idle; a burst of *n* takes *n* ticks; SRTF dispatches the shortest, preempting |
| `process_shell` | does a typed line do what its words say, do the statistics tell the truth, how unfair is Round Robin, does `sched n` finish the work? | Every line is one operation of the scheduler or none, whatever its blanks, signs and numbers. A task is passed by the same other task at most once, plus once per completion: a completion restarts the scan at slot 0. A loop longer than the ticks left drains the table under either policy. `calc` is exact where the result fits |
| `threads_attached` | is a thread attached to a parent process (README.md:13)? | No: any number is accepted as a parent, and a parent may complete first |
| `files` | do the chains implement the list of texts, all or nothing, and does `read` print them? | Yes. Chains are disjoint and acyclic; every call returns; nothing of the rest of a block is printed |
| `file_leak` | is every block free or in a file (fat.c:5, fat.h:10)? | No: the old chain of a rewritten file and the partial one of a failed write are neither |
| `file_create` | does `create` create a new empty file (README.md:139)? | No: a long name is cut and then not found; a repeated name leads to the old file |
| `typing` | what becomes of a real keyboard's codes? | The shift is never stuck and is right for one shift at a time; at most one key is swallowed per fake shift press |
| `kernel` | boot, interrupts and keyboard bytes in any order | Handlers never nest and boot is undisturbed, keys arrive in order with at most one repeat, the keyboard never wedges |
| `kernel_ticks` | is every timer pulse counted (README.md:19)? | No: pulses during a long shell command, with interrupts off, collapse into one |
| `terminal` | do the gate and both editors follow the keys, and does the screen show what Enter will act on? | Yes: lines are edited right across prompts, the lockout comes with the last attempt and is final; the screen agrees across wrapped rows, a full log, scrolling and colours left on, until the Esc key starts an escape sequence; so does the view, which holds the row of the cursor. Video memory is that view with the cell under the mouse cursor inverted |
| `heap` | do splitting and merging keep the heap whole? | Yes: the blocks tile it, every piece handed out is a block of its own, no two free neighbours stay, `malloc` fails only when no free block is long enough |
| `host_shell` | does the hosted shell read, split, run and free right when anything may fail? | Yes, but for what it does not check: a failed allocation or the quotient of the smallest int by -1 kills it, a failed `realloc` loses a block, and at the end of its input it prompts for ever |

The four runs that end in a violation are the findings in `PROJECT.json`, each
with the sentence it contradicts. For `kernel_ticks`: `putchar` redraws all 2000
cells of the screen for every character, so a command with a page of output
easily takes longer than two periods of 10 ms. `LongLines` names the lines with
such a command; everything else a handler does is taken to be over within a
period, so that the pulse after a pending one comes in a long command only (and
during the boot and after the lockout, where none is counted as lost). The trace
goes through the PIN, the keyword and one line in `LongLines`, and two pulses come
while it runs.

`mouse_init` turns the mouse cursor on at every boot (mouse.c:75), although no
mouse byte ever moves it: cell (40, 12) of the display is always shown with its
foreground inverted, whatever the text there. So video memory is not the log,
and `VideoShowsView` and `TypingIsSeen` say what it is instead.

`KeyboardAlive` holds for a surprising reason. A byte that waits in the
controller while `remap_pic` clears the requests would block the register for
good; `mouse_init`, whose port writes have their arguments swapped, happens to
read it. The mutant of that property takes the read away. `KeysInOrder` states
the price: up to two bytes vanish during boot, and one may be seen twice.

`ResetAll` and the reset of the statistics are in `scheduler` only: nothing in the
shell calls them, so no line of `process_shell` leads there.

Three more things the documents say and the code does not, met while modelling and
given no run of their own: `write <name> <text>` stores only the first word of the
text (kernel_shell.c:170, against the help at line 121); the keys PgUp and PgDn
that kernel.c:30 and kernel_shell.c:129 name do nothing, only the arrow keys
scroll (console.c:137); and "Created" is printed when the table is full
(kernel_shell.c:206).

### Bounds

* Scheduler: three slots are one to run, one to be overtaken and one to be
  preempted for. Bursts 0 (raised to 1), 2 and 3 differ after one tick, so SRTF and
  shortest-burst-first disagree. `CounterMod = 2` makes counters wrap in
  `scheduler`. `CallBound` limits the `schedule()` calls of a behaviour; in
  `process_shell` it is chosen so that counters do not wrap and one loop can
  drain the whole table.
* Commands: ints from -64 to 63, and three words a line, so that the numbers in
  the lines overflow and a word too many is typed. The operators on words are tried
  on all lines of up to 8 characters, those on numbers on all pairs of ints. They
  have no state, so `TokenizeFindsWords` and `CalcIsExact` are evaluated once, in the
  initial state.
* Files: four blocks of two bytes, three slots, three names, one of which is
  stored as another, and texts of less than one block, one block and one and a
  half (`cmd_write` rejects an empty one). Every kind of call can be in progress on
  a full disk, on a full directory and beside a shadowed entry.
* Typing: six presses over two shifts, one character key and one arrow key; 8
  codes on the wire, more than one wrapped arrow key with both shifts down sends.
* Kernel: three scripts of three or four codes with Enter, and one of six that goes
  through the gate and has the shell run a long command; every mask the
  firmware may leave, every latched request; tick wraps at 2; lost pulses are
  counted up to 1.
* Terminal: a 2x2 screen over a log of three rows, buffers of 3 bytes and 3 keys
  per line, a PIN and a keyword of one character, two attempts: every buffer can be
  overfilled and emptied, every line wraps, and the log is full after the first
  Enter. The mouse cursor is the last cell of the display, where lines are typed,
  and the boot prints a coloured banner and a greeting first.
  The characters are those the escape parser tells apart. A colour that is
  typed in needs more keys; one that a message leaves on, as `read` does with a
  file whose text ends inside an escape sequence, is in the model. The shell's
  prompt sets its colour but not bold, so `LineOnScreen` asks how the prompt reads,
  and asks of the line behind it how it looks as well.
  With three keys a line `VideoShowsView` could ask for the row of the cursor to be
  in view whatever is typed, and hold. It asks for it before the Esc key only:
  characters that an escape sequence swallows can still be taken back, the cursor
  then climbs through the prompt and beyond, and with enough of them above a
  view that was scrolled back. That takes more keys than the run has; the attempt
  to prove the stronger property showed it.
* Heap: 24 units (of four bytes), a header of 3, sizes rounded up to 2: up to four
  blocks, so that a freed one can merge with either neighbour or both, exact fits,
  rests too small to split off, and sizes that never fit.
* Hosted shell: chunks of two characters and two tokens, lines of up to 7
  characters: both arrays grow twice. One allocation may fail, at any point.

The properties are about neighbouring rows, blocks or tasks, so a further one
brings no new case. The theorems below remove these bounds for the
most important of them.

### Fairness

* `ProcessShellSpec`: weak fairness of `ScheduleStep`, a `for` loop that has been
  entered. Users need never type.
* `FileShellSpec`: weak fairness of the steps of a running call, for the same
  reason.
* `Spec` of `HostShell`: weak fairness of the shell's own steps. It waits for its
  input and for its child, and neither need come.
* `FairKernelSpec`: weak fairness of the processor and of the keyboard controller
  moving a byte to its free register. Strong fairness of delivery: the timer has
  priority over the keyboard, and its request comes up again and again, but
  between two of them the processor halts with interrupts on. The user and the
  timer may stop at any time.

`CHECK_DEADLOCK FALSE` is set in three runs. A behaviour of `typing` ends when the
user has used up `MaxPresses` and released every key; one of `terminal` ends in the
lockout, which is a halt loop with interrupts off; one of `host_shell` ends when
the shell has exited or crashed.

## 4. What is proved

All proofs are checked by TLAPS for every value of the constants that satisfies
the `ASSUME` of the module.

* **`SchedulerProof`**, for every table size, set of bursts and counter width.
  * `SpecTypeOK`, `SpecOneRunning`, `SpecNoStrandedTask`, `SpecBurstServed` are proved
    inductive together, and `SpecSRTF` is an action property from the same invariant.
    Demotion goes by `current_index`, so it reaches the RUNNING task only because
    `OneRunning` and `TypeOK` held before; and `PickNothing` leaves no live task at all
    only because nobody stayed RUNNING behind the demotion. The lemma
    `TickAndDemote` says what the first two thirds of `schedule()` leave: nobody is
    RUNNING, all other slots are as they were.
  * `ShellCommandsAreOperations`: whatever is typed, a line is one operation of the
    scheduler or none. It has one hypothesis, `NumbersAreArguments`: the numbers that
    the lines spell are among the model's bursts and parents, which is so for the
    lines of the run, and for every set of lines when the two sets are all ints.
  * `ShellBoundedOvertaking`, from `ShellRRInv`. The bound is not inductive: that a
    waiting task has been passed at most once per completion and once more does
    not say whose turn it is. `RRInv` does: a task that comes before the waiting
    one in the scan from `current_index` has been passing it no more often than tasks
    have completed; only one that comes after it may have passed once more.
  * `ShellStatsConsistent`: the three counters agree with the table as long as
    fewer `schedule()` calls were made than a counter can count (`CallBound <
    CounterMod`; beyond it they wrap, and the property is false). The ticks consumed
    are a sum over the table, which changes in one slot a call.
  * `TokenizeFindsEveryWord`, for every line over every alphabet and every limit on
    the words, and `SpecTokenizeFindsWords`, the property of the run, from it. After k
    characters the scan has `Found` as many words as begin in them, up to
    the limit, each of them as far as it has been read; that a word is still open
    when the last of these k characters is not a space and the limit has not been
    passed says which word the next character belongs to.
  * `SpecCalcIsExact`, for every width of `int`. `Decimal`, the digits of a number, is a
    recursive function; that its recursion has a solution is a lemma
    (`RecursionExists`), and that `ValueOf` leads back from the digits to the number,
    wrapped where the width ends, an induction over the number (`ValueOfDecimal`).
    What is left are the sign (the digits of INT_MIN wrap, their negation wraps once
    more, and the number comes out right: `KatoiReads`) and that there is only one
    quotient towards zero (`QuotientIsUnique`).
* **`FileSystemProof`**, for every disk, block and directory size.
  * `SpecTypeOK`, `SpecChainsDisjoint`, `SpecShadowedStaysEmpty`, and
    `FileShellKeepsChains` of the typed commands. The disjointness of chains is not
    inductive: in the middle of a write one needs that the block the next one is
    linked to is allocated and exists exactly when the new chain has a head
    (`PrevAllocated`), that the block taken is beyond all blocks in use
    (`BlocksPrefix`: the lowest free block, with nothing ever freed), so that links
    only go up; and that the directory entry being written is the first of its name
    (`FirstOfName`, with `SlotsPrefix`).
  * `SpecDiskInv`: every chain is a run of consecutive blocks, its text is what those
    hold, and the chain that a call is at is as long as the call has written or read.
    It makes the text of a file a function of its head and its size, so that
    following the chain needs no recursion.
  * `SpecImplementsFileStore`, `FileShellImplementsFileStore`: the refinement of the list
    of texts, step by step: only the step that ends a write changes a text, and the
    one that fails changes none. `FileShellReadShowsText`: `read` prints the
    text and nothing of the rest of its last block.
* **`ConsoleProof`**, for every PIN, keyword, buffer, screen and log size, prompt and
  message.
  * `SpecConsoleTypeOK`, `SpecIdleEditorEmpty`, `SpecLockoutMeansFails`, `SpecGateOrder`:
    that the PIN prompt is never reached with all attempts used up needs
    `LockoutMeansFails` and the range of `pin_fails`.
  * `SpecLineIsEdited` (`EditInv`): the reference editor is a fold over the keys since
    the last prompt; a key takes it one element further.
  * `SpecScreenInv`, `SpecNothingAfterCursor`, `SpecVideoShowsView`. Each operation of
    screen.c keeps `ScreenInv`: indexes in range, the log blank from the cursor on,
    the mouse cursor where `mouse_init` put it, and the video memory equal to the
    rows the view is at but for the cell under the mouse cursor, which is
    inverted. It holds from the boot on, with any banner and greeting. The cursor stays in view
    because the line never owes more backspaces than there are places between the
    top of the view and the cursor (`LineInView`), which is what Esc breaks.
  * `SpecLineOnScreen`, `SpecTypingIsSeen` (`TextInv`, that is `ViewInv` with `InkInv`). What a
    character looks like depends on colour and parser state alone, so a pen in
    the same state, on a page of its own, writes what the screen comes to show:
    that gives the prompt after any message. From there every
    operation of the screen keeps the text in front of the cursor (`HoldsText`),
    adds a cell to it, or takes its last one away, over row ends and when the log
    moves up.
* **`TypingProof`** (`SpecShiftNeverStuck`, `SpecShiftFollowsKeys`,
  `SpecLostOnlyAfterFakes`), for every keymap, number of presses and length of the
  wire. What has to be known of the codes still on the wire is what the shift flag
  will be when they have been handled; the invariant follows the last shift code on
  it. Which codes on the wire will be swallowed is settled when they are sent: those
  and the characters lost already are no more than the fake presses (`LossInv`).
* **`KernelProof`** (`SpecHandlersDoNotNest`, `SpecKeysInOrder`), for every script,
  keymap, firmware mask and buffer size. The invariant describes where the
  processor can be: at a boot step or in the halt loop with an empty stack and no
  line in service, or in a handler with interrupts off and exactly one frame, which
  leads back to the halt loop. For the order of the keys, it compares how many codes
  have left the keyboard's queue with the last one handled, and says that there is at
  most one interrupt request too many (`OrderInv`).
* **`HeapProof`** (`SpecTypeOK`, `SpecTiled`, `SpecHeldAreBlocks`,
  `SpecNoFreeNeighbours`, `SpecFailsOnlyIfFull`, `SpecImplementsAllocator`), for every
  heap, header, alignment and set of sizes. `NoFreeNeighbours` and `FailsOnlyIfFull`
  need to know how far a walk has come: every block before the one a walk is at
  has been merged, or has been found too short. The refinement of `Allocator`
  follows from the tiling, step by step.
* **`HostShellProof`** (`SpecTypeOK`, `SpecPromptMeansNoChild`, `SpecFreedAtPrompt`,
  `SpecEndsKnown`, `SpecArgsAreWords`), for every size of the chunks, length of the
  lines and number of failures. The invariant says for each phase which of line and
  tokens is allocated. For `SpecArgsAreWords` it also says that `strtok` goes on behind a
  blank or at the end of the line, and that the tokens stored so far are the words
  that begin before that place, in their order (`SplitInv`).
* **`Induction`** has no model of its own. The induction theorems of the library
  take an operator and cannot be instantiated, but the same argument can be had
  without one: a set of naturals that has 0 and with every number the next is all of
  them, and a function given by a recursive equation on a well-founded relation
  is one set that satisfies it. From there come folds over a sequence taken one
  element at a time, and sums.

The assumptions say that sizes are positive numbers, that PIN and keyword are
lines of characters, that the sentinels (`NoName`, `NUL`, Enter, Backspace) are none
of the data, that the keymaps are functions on the keys and no key is both a
character and an arrow (`Keyboard`), that there are ten digits, none of them the
blank or the sign (`Commands`), and that lines are sequences (`ProcessShell`). Those about the screen read like facts
of the program, and are:

* the `m` that ends a colour is no digit, semicolon or bracket, and the mouse cursor
  begins at a cell of the display: 40, 12 of 80 x 25 (`Screen`);
* a full line fits the screen without its last row (80 x 24 places for 127
  characters), and with the prompt the log without its last row; the `*` that
  the PIN is echoed as is no control character; no message or prompt, nor
  banner or greeting, has a backspace or a carriage return; somewhere in the prompt two characters follow each
  other that no escape sequence contains, so it is read to its end whatever
  the parser was in the middle of (`TerminalAssumption`);
* a prompt is one row, and a pen of any colour writes the same characters with it
  and ends in the ordinary colour: console.c:34, console.c:38 and
  kernel_shell.c:94 all end in a reset. Every message ends its last row,
  and so does the greeting, console.c:80 (`PromptAssumption`);
* a line with a long command is a sequence of characters (`Kernel`).

**Only model-checked.** Liveness (`SchedDrains`, `CallReturns`, `KeyboardAlive`,
`PromptsAgain`): fairness is defined with ENABLED, which this prover does not reason
about. Every other property a passing run checks is stated by a theorem
above, and so is the refinement of both abstract specifications.

## 5. What is not modelled

* *Shell commands that only print* (`sahayog`, `jhalak`, `fatlist`, `samaya`,
  `proclist`), and the wording of the others' replies.
* *Number output in bases other than 10* and the scan of printf's format string:
  every format in the kernel is a constant.
* *Sizes near the largest int* in memory.c, whose rounding overflows: nothing in
  the kernel calls the heap.
* *`mouse_handler`*: it never runs, since `mouse_init` never reaches the mouse. The
  mouse cursor is modelled: shown at the boot, and never moved.
* *Of the keyboard*: PrintScreen, and NumLock, under which the fake shifts around the
  arrow keys are others. The bound of `LostOnlyAfterFakes` counts the fake presses
  that were sent, so it says nothing of theirs.
* *That every call of the heap returns* is neither checked nor proved; both loops
  walk a list that `Tiled` shows to be finite.
* *Of the hosted shell*: what its built-ins print, `chdir`, signals that reach the
  shell itself, the error return of `waitpid` (executor.c:49), the children that
  `system` waits for in `jhalak` and `samaya` (executor.c:102-116), output buffered
  across a `fork`, and what comes before the loop: main.c:14 uses the entry of the
  password file without asking whether there is one.
* *Exceptions and spurious interrupts.* All gates but three have base 0. What the
  processor does there has no definition to translate.
* *`free_block`, `delay`*: no callers.
* *Build files and GRUB's entry code*: no state the models have.

## 6. Plan

Done, in the order of importance: scheduler, file system with its abstract
specification, console and line editor, keyboard, kernel, screen, heap with its
abstract specification, hosted shell, the shell's commands in front of scheduler
and files; proofs about all of them. What is left:

1. `mouse_handler`'s packet synchronisation and clamping, should the driver come
   to enable the mouse.
2. The composition of `ProcessShell` and `FileShell` with `Terminal`: replies on the
   screen that tell what happened ("Created" and the full table).
