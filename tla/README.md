# riscv64-ucore lab1: models, checks and proofs

A TLA+ account of the lab1 kernel in `src/labcodes/lab1`: a single-hart RISC-V
teaching kernel that runs in supervisor mode, without user mode and without
paging.  Paths below are relative to `src/labcodes/lab1`.

## 1. The system

| Component | Source | State it keeps | Operations | Talks to |
|---|---|---|---|---|
| trap entry and exit | `kern/trap/trapentry.S`, `trap.h` | trapframes on the boot stack; `sscratch`, `sstatus`, `sepc`, `sbadaddr`, `scause` | `SAVE_ALL`, `__alltraps`, `__trapret`, `RESTORE_ALL` | calls `trap()` with the address of the frame |
| trap dispatch | `kern/trap/trap.c` | none of its own; reads the frame, increments `ticks` | `trap`, `trap_dispatch`, `interrupt_handler`, `exception_handler`, `print_ticks`, `idt_init` | clock, console, panic |
| clock | `kern/driver/clock.c` | `timebase`, `ticks` | `clock_init`, `clock_set_next_event`, `get_cycles` | firmware timer |
| initialisation | `kern/init/entry.S`, `init.c` | clears `.bss` | `kern_entry`, `kern_init` | everything, once, in order |
| interrupt enable | `kern/driver/intr.c` | `sstatus.SIE` | `intr_enable`, `intr_disable` | |
| panic | `kern/debug/panic.c` | `is_panic` | `__panic`, `__warn` | monitor; never returns |
| monitor | `kern/debug/kmonitor.c` | `argv` on the stack, the line in readline's buffer | `kmonitor`, `parse`, `runcmd`, three commands | readline, panic (`backtrace`) |
| readline | `kern/libs/readline.c` | `static char buf[1024]` | `readline` | console |
| console, stdio | `kern/driver/console.c`, `kern/libs/stdio.c` | none | `cons_getc`, `cons_putc`, `getchar`, `cputch`, `vcprintf`, `cprintf`, `cputs` | firmware, formatter |
| formatter | `libs/printfmt.c` | `struct sprintbuf` of a call | `vprintfmt`, `printnum`, `printfmt`, `vsnprintf`, `snprintf` | a `putch` callback: `sprintputch` or `cputch` |
| string functions | `libs/string.c` | none | `memmove`, `strtol`, `strcmp`, ... | |
| firmware | `libs/sbi.h`, `sbi.S` | the timer, the console (outside the repository) | `sbi_set_timer`, `sbi_timebase`, `sbi_console_*` | raises the timer interrupt |
| empty | `kern/mm/pmm.c`, `kern/driver/picirq.c` | none | functions without a body | |
| tools | `tools/`, `Makefile` | | build, grading | `grade.sh` reads the console output |

How they interact: the hart runs `kern_init`, which sets the trap vector, arms
the firmware's one-shot timer and enables interrupts, and then loops.  When the
timer expires the hart enters `__alltraps`, the handler re-arms the timer,
increments `ticks`, prints every 100 ticks, and returns.  Built with
`DEBUG_GRADE` the first print panics, and the panic ends in the monitor, inside
the interrupt handler.

What is hard: a trap can be taken at any instruction (nested traps share one set
of CSRs); time passes between any two instructions, so a deadline may be over
before it is set and a timer may go off during the boot or inside its own
handler; the time counter carries while its halves are read; the monitor works
in place on a static buffer that keeps older contents.  There is no second hart,
no lock and no persistent state, so there are no data races and no recovery
after a crash.  `PROJECT.json` lists the hazards one by one.

What makes each component correct:

* trap entry: the interrupted context resumes exactly; a handler sees its own
  trap, and reports it truly; the kernel stays in supervisor mode.
* clock and dispatch: each expiry of the timer is counted once, the timer always
  has a successor, interrupts come only when the kernel is ready for them; the
  interrupted code goes on, unless it meets a trap the kernel does not answer.
* `get_cycles`: the value is one the counter had.
* panic: final.  Grading: exactly one print.
* readline: the line returned is the line composed, and the screen shows it.
* monitor: the command run is the one typed, with the arguments typed.
* formatter: output as the format describes, on the console and in a buffer;
  `snprintf` never passes the end of its buffer and returns the length of the
  whole text.
* string functions: `memmove` copies the old contents, whatever overlaps.

## 2. The modules

| Module | What it is |
|---|---|
| `TrapSpec` | abstract: a stack of suspended contexts |
| `TrapEntry` | `trapentry.S` by groups of instructions, on registers, CSRs and a word-addressed stack; what `print_trapframe` reports of a frame |
| `GetCycles` | the 32-bit and 64-bit `get_cycles` beside a running counter |
| `TrapFrame` | the frame as C reads it; the dispatch as a function of the cause |
| `Sbi` | the firmware's timer (external) |
| `Kernel` | boot, timer interrupt, tick count, panic, composed with `Sbi` and `TrapFrame` |
| `Dispatch` | interrupts and exceptions in a loop of kernel code: which traps come back; two instances of `TrapFrame`, one for each register width |
| `LineSpec` | abstract: a line editor |
| `Readline` | `readline`, its buffer and the terminal |
| `Monitor` | `kmonitor`, `parse`, `runcmd`, composed with `Readline` |
| `SprintBuf` | `vsnprintf`'s buffer and `sprintputch` |
| `Console` | `cputch`, and the characters the firmware is sent |
| `PrintFmt` | `vprintfmt`, `printnum`, `vsnprintf`, `vcprintf` and `cputs`, composed with `SprintBuf` and `Console` |
| `FormatMeaning` | what a format means, read as a whole: the reference for `PrintFmt` |
| `MemCopy` | the functions of `string.c` that write memory |
| `StringLib` | one call of any function of `string.c`, extending `MemCopy` |
| `Numerals` | positional notation: the reference for `strtol` and `printnum` |
| `MC...` | small instances for TLC |
| `...Proofs` | theorems and proofs |

Definitions named `X_Y`, marked "Mutant of X", are faulty versions of `X`.  No
specification uses them; each shows that a property notices the fault.

### TrapEntry

`pc` is the group of instructions the hart executes next; an interrupt may come
between any two groups and, as sstatus.SIE is clear in all of `trapentry.S`, it
is the invariant `NoInterruptInTrap` that rules it out, not the model.
Exceptions are raised by C code only: the instructions of `trapentry.S` access
CSRs and the stack.  Grouping loses no behaviour, since nothing else runs
between two instructions of a group.  Registers and words hold whatever is put
in them, so a register saved to another's slot is a wrong value and not a type
error.  The history variables `ctx` and `traps` record what was interrupted, and by
what.  Addresses count words, and the code moves whole words, so nothing in it
depends on `XLEN` but the reports below.  The C code is any change of the
general registers that obeys the calling convention: it returns with the `sp` it
was given, does not write to suspended frames, and only `kern_init` writes
`sstatus.SIE`.  `__panic`, which also does, never returns and is in `Kernel`.

What the handler shows of its trap (`print_trapframe`, `print_regs`,
`trap_in_kernel`) is a function of the frame at its argument, field by field.  A
field is a `uintptr_t`, which is four bytes wide whatever the registers are, so
`Field` reads it as `CField` of `TrapFrame` does: slot `k` where registers have
32 bits, a half of slot `k \div 2` where they have 64.  `ReportIsTrue` is
therefore a property of 32-bit registers: the run sets `XLEN` to 32, and so does
the assumption of the theorem.  On the target of the `Makefile` it is false, for
the reason of finding 1: what is printed as `ra` is the upper half of `x0`, as
`epc` that of `a6`, and `trap_in_kernel` looks for SPP in the lower half of `a6`.

### GetCycles

One action per instruction of the inline assembly; the counter may advance by
any amount between two.  `LoSize` is 2^32 on the machine; `entry`, `atLo` and
`retries` are history.

### TrapFrame, Sbi, Kernel

A frame slot is the sequence of the 32-bit words of a register, `CField(frame,
k)` is what `tf->field` reads when `uintptr_t` is four bytes wide.  With 32-bit
registers that is slot `k`; with 64-bit registers, which the `Makefile` builds
for, field 35 (`cause`) is the upper half of slot 17 (`a7`).  `A7Regs` lets `a7`
hold a small number of either sign, which is all that compiled code puts there.

The step of `Kernel` is a statement of the code that other parts can observe:
the read of the counter and the arming of the timer are two steps, and so are
the arming and `++ticks`.  The trap and its return are one step each: that they
can be is what `TrapEntry` shows.  The order is that of `kern_init`:

    ClearBss  idt_init  clock_init  get_cycles  set_timer  ZeroTicks  intr_enable  idle

and, in a trap, `trap_dispatch get_cycles set_timer CountTick [print_ticks]
TrapReturn`.  Calls that only print are left out, but for the message of
`__panic`, which only the first panic prints: the monitor's `backtrace` panics
again, and `panic` then goes straight to `panic_dead`.  `counted`, `printed`,
`fires` and `lastFire` are history.  `DEBUG_GRADE` is a variable that no step
changes, so that one run looks at both builds.  `Sbi` is modelled from the use
the kernel makes of it and the comment in `trap.c:102-105`: `sbi_set_timer`
clears the pending interrupt.

### Dispatch

`Kernel` follows one trap at a time through the handler; `Dispatch` asks which
traps are taken again.  The interrupted code is a loop of instructions, any of
which may raise an exception whenever it is executed; the enabled interrupts are
those the firmware left enabled, and interrupts other than the timer's are sent
at any time.  `trap_dispatch` and `trap` are a step, and so are the entry and the
return, which `TrapEntry` justifies.  Only the case `IRQ_S_TIMER` acknowledges
anything, and no case moves `tf->epc`.  Time is counted in instructions of the
loop, and handling a trap takes none: the handler is taken to be short beside a
timebase above zero.  `Storm` says that the trap taken next is one the kernel
does not answer.  It is an absorbing state (`StormIsFinal`), and outside it the
loop and the clock run on (`RunsUnlessStorm`), so the two describe exactly when
the kernel stops.

### Readline, Monitor

One action per branch of the loop in `readline`, where the character is chosen
by the user; a negative result of `getchar` may come at any time; a zero is a
step of `getchar`'s own loop, which changes nothing.  The terminal is part of
the model because the echo is what the user believes the line to be: a character
overwrites the cell under the cursor, a backspace moves the cursor and erases
nothing.  `parse` is modelled by the steps of its pointer, as it works in place.
A store past `argv` leads to the state "undefined", where the model stops.
Locals are reset when their function returns.  `line` and `ran` are history.
Of the characters of `WHITESPACE` only the space can be in a line: the others
are below `' '` and readline does not store them.  `runcmd` chooses the command
and `mon_info` or `mon_backtrace` runs it: the first stands for `mon_help` and
`mon_kerninfo`, which print; the second ends in the panic of `print_stackframe`,
whose `while (1) kmonitor(NULL)` is the same code at its prompt, one monitor
deeper (`depth`).  No monitor returns, so `depth` grows with every backtrace;
from `MaxDepth` on monitors are no longer told apart.

### SprintBuf, PrintFmt, FormatMeaning

`PrintFmt` reads the format one character a step, `case` by `case`; every
`goto reswitch` is a step that stays in `"escape"`, and the loop that reads a
number is the location `"number"`.  An argument is chosen when `va_arg` takes
it, of the type taken, so format and arguments always agree.  The three loops of
`%s` are three program locations, as they count `width` and `precision` down
together.  A step of `printnum` is one of its calls (`MoreDigits`), a pad
character (`PadNumber`), or the digit it prints first (`FirstDigit`); the digits
the other calls hold wait in `pending` until they return (`Emit`).  `via` is the
function called: under `vsnprintf` a character goes through `sprintputch` into
`SprintBuf`, under `vcprintf` through `cputch` to the firmware; `cputs` prints a
string as it is, with a newline.  `printfmt`, `snprintf` and `cprintf` only
collect their arguments.  `long long` is as wide as `long`, as on the target of
the `Makefile`.  `%e` with the least int is left out (`-err` overflows), and so
are widths near `INT_MAX`.  The blank is the constant `Space`, as a literal
`" "` is beyond one of the provers; it is no other thing than `' '`.

`FormatMeaning` defines the text a format stands for without a state.  A format
is a sequence of items (`Item`), each a character or an escape sequence, and its
text their concatenation (`Expansion`).  The escape sequence is split at its
conversion character (`EscapeEnd`); its width, precision and padding are found
from the positions of all its modifiers together (`WidthAt`, `PrecAt`, `PadAt`),
the digits from powers of the base (`Numeral`).  It follows the dialect of the
code where that differs from C (a second number is a precision with or without a
`.`; `.` alone sets a width of 0; the sign is outside the width).

### MemCopy, StringLib

The state is one call, with legal arguments, from its entry to its return; the
loops go a byte a step, those that only look as well: these differ in the
condition to go on (`Continues`) and in what they return (`Returned`).  `strtol`
gobbles blanks, takes sign and prefix in one step, and a digit a step.  A read
outside the memory has no value, so TLC stops at one.  Overlap is allowed for
`memmove` only.  `s + n` is not wrapped: an object does not wrap around the
address space.  The functions that write return their first argument, which is
not shown.  `strtol` follows the code; what is expected of it (`Parsed`) follows
its comment, which offers `0X` as a prefix in base 16 where the code takes `0x`
only (finding 5).  `ScanContract` names that exception (`Refused`): such a text
is read as the number 0 that ends at the `X`.

## 3. The runs

| Run | Instance | Result |
|---|---|---|
| `trap_entry` | all 30 registers, of 32 bits, 2 traps, stack for 3 nested frames | holds, 136 590 states |
| `get_cycles` | low half of 3 values, 3 carries, both widths | holds, 23 323 states |
| `kernel` | 32-bit registers, timebase 2, time 0..16, print every 3, wrap at 5; built with `DEBUG_GRADE` and without | holds, 73 792 states |
| `dispatch` | loop of 2 instructions, timebases 0, 1 and 3, a known and an unknown exception, any set of enabled interrupts, both widths | holds, 50 688 states |
| `dispatch_64` | `kernel` with 64-bit registers | violated: finding 1 |
| `timer_enable` | `kernel` with `sie.STIE` either way at entry | violated: finding 2 |
| `monitor` | buffer of 6, 3 printable characters, 2 arguments, 3 commands, monitors up to 2 deep | holds, 83 152 states |
| `monitor_argv` | the same | violated: finding 3 |
| `string_lib` | memory of 5 bytes, 3 characters; texts of 4 out of 9 characters for `strtol`, 4 bases | holds, 768 974 states |
| `strtol_prefix` | the same | violated: finding 5 |
| `print_fmt` | all triples of modifiers before `%s` and `%d`, pairs before the others; the console, and buffers of 0, 1 and 6; int of 4 bits, long of 6 | holds, 263 269 states |
| `print_fmt_minus` | the same | violated: finding 4 |

Why the bounds are enough.  `trap_entry`: the frames of the second and the third
trap exercise everything that depends on an older frame, and the proof covers
any depth.  Each register holds a value that names it, in one of two versions, so
that neither another register's value nor an older one passes for it.  `get_cycles`: a low half of three values lets the
counter carry between any two instructions, more than once.  `kernel`: about
eight timer periods, so `ticks` wraps once and prints follow it; 5 is, like
2^32 and 100, no multiple of 3; every delay from none to several periods occurs.
`monitor`: lines fill the buffer and overflow it, hold more than MAXARGS
arguments, and one command name is a prefix of another; a backtrace can be typed
inside a backtrace.  `dispatch`: a loop of two instructions has one that raises
and one that does not, and timers that go off at once, inside the loop and after
it.  `string_lib`: in five
bytes two blocks can overlap either way by every amount, touch, coincide or lie
apart, and four characters hold a sign, a prefix and a digit.  `print_fmt`:
three modifiers are a flag, a width and a precision in every order, the text is
shorter and longer than the buffer, and the ends of the integer types occur.

`CHECK_DEADLOCK` is never switched off: a call that has returned, the idle loop and the
state "undefined" stutter, and time stops at `MaxTime` without stopping the kernel.

`kernel` is checked for 32-bit registers, because `uintptr_t` fits the frame
only there; what happens on the target of the `Makefile` is in `dispatch`, where
the timer is an unanswered interrupt for 64-bit registers, and in finding 1.

`PrintsEveryTickNum` is limited to `counted < TicksMod`: past the wrap-around of
`ticks` the prints are no longer `TICK_NUM` apart, as 2^32 is no multiple of 100
(a fact of the code, that no document denies).

### Findings

1. `dispatch_64`: on riscv64 the C view of the trapframe does not match the
   assembly's, the timer interrupt is dispatched as an exception and comes back
   for ever; "100 ticks" is never printed (`trap.c:170`, `defs.h:57`).
2. `timer_enable`: the comment of `clock_init` says that it enables the timer
   interrupt; it writes no enable register (`clock.c:28-42`).
3. `monitor_argv`: `parse` says "Too many arguments" and stores them past the
   end of `argv` (`kmonitor.c:45-48`).
4. `print_fmt_minus`: the "flag to pad on the right" pads numbers on the left,
   with `-`: `%-2d` of 0 prints `-0` (`printfmt.c:139-142`).
5. `strtol_prefix`: in base 16 the comment of `strtol` offers the prefixes `0x`
   and `0X`; of a text with the second the code reads the `0` alone
   (`string.c:198-199`, `string.c:222`).

### Fairness

`trap_entry`, `get_cycles`, `string_lib` and the runs that are violated rely on
none.  `kernel` assumes that the hart executes instructions (one hart, no other
thread: WF of the disjunction of all of them), that time passes and that the
firmware raises a timer that is due; `dispatch` assumes the first and the last,
and time is the instructions themselves.  Nobody needs to send an interrupt.
`monitor` assumes that the hart executes; the user need not type.  `print_fmt`
assumes that the hart executes.  Liveness properties: `TimerServed`,
`GradedRunEnds`, `RunsUnlessStorm`, `LinesAnswered`, `Returns`.

## 4. The proofs

Each holds for all values of the constants that satisfy the `ASSUME`s.

* `TrapEntryProofs`.  The frame of the newest trap is not enough to restore the
  older ones, so the invariant `TrapInv` has four parts: `Chain` (the suspended
  contexts lie one frame and one C stack below each other, hence the frames are
  disjoint), `AtPc` (how far the newest frame is written or read back at each
  instruction), `NoInterruptInTrap` and `SuspendedFramesIntact`.  From it follow
  `HandlerSeesItsTrap`, `StaysInSupervisor`, `ContextRestored` and the refinement
  of `TrapSpec`, for both widths.  `ReportIsTrue` is proved under `XLEN = 32`,
  an assumption of the theorem `Report`: there a field of the newest frame is a
  word of it (`FieldIsWord`).
* `GetCyclesProofs`.  `ReadInv` relates `hi`, `lo` and `tmp` to the counter at
  the call, at the read of `lo` and now; `hi = tmp` then squeezes the high half
  at the read of `lo` between two equal values.  Exactness, monotonicity and the
  bound on the retries follow.
* `KernelProofs`.  `KernelInv`: the timer is armed or pending, never both, once
  it is set up (`TimerInv`); the counter value in `n` is recent (`ClockInv`);
  interrupts are on exactly in the idle loop (`ControlInv`).  `NoTickLost`,
  `TimerAlwaysDue`, `InterruptsOnlyWhenIdle`, `TimerSpaced`, `PanicIsFinal`.  The
  counts need more: `TickInv` (`ticks` is `counted` modulo 2^32, and `printed`
  the multiples of `TICK_NUM` passed) and `GradeInv` (a graded kernel that has
  printed is panicking) give `TicksAreCounted`, `PrintsEveryTickNum` and
  `GradedRunPrintsOnce`; the division lemmas they rest on are in the module.
  Assumptions: the frequency is a natural number (zero included), `TICK_NUM`
  and `TicksMod` are positive, registers have 32 or 64 bits.
* `DispatchProofs`.  `DispatchInv`: a trap returns to the instruction it
  interrupted, an unarmed timer has gone off, and with 64-bit registers no frame
  is dispatched as the timer's (`NoTimer64`).  `StormIsFinal` follows for every
  loop, timebase, set of exceptions and both widths.
* `MonitorProofs`.  `LastNul`: the last cell of `buf` is always `'\0'`, so every
  string in it ends; the line is printable; parse's pointer is not past the
  first `'\0'` that was there when parse began.  `TypeOK` (no index leaves its
  array), `EchoMatches`, `ParserOnLine` and the refinement of `LineSpec`.
  For `parse` the invariant relates the two halves of `buf` to the line: up to
  the pointer, whitespace is cut and the rest is as typed, after it everything
  is (`Cut`); `argv` holds the arguments begun so far, in order (`Found`); between
  arguments the pointer stands where one may begin (`Boundary`).  So every string
  in `argv` is an argument, whole, and the first names the command:
  `ArgsAreTokens` and `CommandIsTyped`.
* `NumeralProofs`.  Positional notation: what a recursive function of the model
  is at 0 and at `i + 1` (`Iteration`), powers, the value of a numeral and of one
  digit more, the number of digits.  No theorem about the code is here; the two
  modules below need it.
* `StringLibProofs`.  For the functions that write, `Progress` (the bytes written
  are final and the others old) and `Position` (where the pointers are, so that
  the byte read next has not been written yet).  For `memmove` that is where the
  choice of the direction enters; for `strncpy`, that the source pointer lags
  behind only on a `'\0'`.  For those that read, what the loop has seen so far did
  not end it; for `strtol`, where blanks, sign and prefix were, and that `val` is
  the value of the digits behind them, however many.  `CopyContract` and
  `ScanContract` follow for every memory, address, length, overlap and base, the
  latter with the exception that it names: of `0X` in base 16 the digits are the
  `0`, as `X` is a digit of no base below 34.
* `PrintFmtProofs`.  `Stored`: `buf` is the smaller of the text's length and
  `size - 1`, and the cells before it hold the text.  `TypeOK` holds for every
  format and all arguments: what needs an argument is that the pointer never
  passes the end of the format (`Escaping`), that it finds a `'%'` when it moves
  back, and that `do_div` cuts nothing off a number of `LongBits`.  The formatter
  uses the buffer only as `SprintBuf` allows it (`UsesTheBuffer`), so
  `BufferContract` holds for every size and text.

* `PrintFmtProofs`, second part: `OutputMeansFormat`, that the formatter prints
  what `FormatMeaning` says.  The code walks through a format and forgets what it
  has seen; the definition looks at the whole of it.  `OutInv` connects the two:
  * while an item is printed, what is sent and the rest of the item (`Sent`,
    `Rest`) are together the text of the items up to the pointer (`Between`); each
    step of `printnum` and of the loops of `%s` moves the first character of
    `Rest` over, so `Rest` says at each location what is left of the number, of
    its padding or of the string;
  * while an escape sequence is read, `width`, `precision`, `padc`, `lflag` and
    `altflag` are what its modifiers up to the pointer mean together (`Reading`),
    also between the digits of a number (`ReadingNumber`).  The width is compared
    up to `SameWidth`: a negative `*` leaves `width` negative, so that the next
    number replaces it, and no such width pads.

  That the meaning of the modifiers grows by one modifier as the code's variables
  do (`NewSetter`, `PadMore`, `BeginsMore`), that items follow one another
  (`CursorIs`, `TextsMore`), and that a numeral loses its last digit with a
  division (`NumeralOfMore`) are lemmas about `FormatMeaning` and `Numerals` alone.

Only model-checked: the liveness properties, `RunsUnlessStorm` among them, as TLAPS
has no rules for fairness or ENABLED here.

## 5. Not modelled

* `print_kerninfo`, `__warn`, the messages of the handlers and the texts of the
  commands: output only.
* `grade_backtrace`, `lab1_switch_*`: never called.  `print_debuginfo`: an unfinished
  exercise, never called; of `print_stackframe` there is the panic to model.
* Exhaustion of the 8 KB boot stack by nested traps or nested monitors: nothing
  in the code bounds either.  `depth` shows that monitors do nest without end.
* The formatter where `long` has 32 bits: `do_div` divides an `unsigned long`, so
  `printnum` would lose the upper half of a `long long`.
* `tools/`: host programs; `sign.c`, `vector.c` are left from the x86 lab, as is
  `lab1.md`.
* The firmware, apart from its timer.

## 6. Plan

Done: the trap path and its reports, the clock, the composed kernel, the
dispatch of every trap on both widths, the monitor with its commands, the
formatter on the console and in a buffer, the string functions; proofs of all
invariants and action properties that a run finds to hold.

Left:

The formatter with a `long` of 32 bits (`do_div`), beside the present one.
