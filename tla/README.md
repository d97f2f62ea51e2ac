# Verification of PumpkinCellOS

PumpkinCellOS (CIMCos) is a hobby 16-bit computer: an emulator of its machine
(`emulator/`), a toolchain for it (`toolchain/`), boot code (`boot/`), the
beginnings of a kernel, a C library and a shell (`src/`), and manuals (`spec/`).
The program's own core logic that runs today is the emulator, with one thread per
device, a CPU thread and the thread of `main()`, which talk through queues, plain
flags and bit masks; and the toolchain's two front ends, assembler back end and
driver. This project models all of these.

Paths below are relative to `src/`. Run everything in this directory:
`tlc -config X.cfg M` checks a run, `tlapm MProofs.tla` checks the proofs.

## Inventory

| Part | State | Operations | Hard behaviour | What makes it correct |
|---|---|---|---|---|
| Device automaton and queue, `Cx16ConventionalDevice` (`emulator/Cx16.h:191`, `Cx16.cpp:209-304`) | protocol state, argument countdown and buffer, command queue, result word, registers | `out8`, `out16`, `in8`, `in16` (CPU thread), `boot` (worker thread) | two threads, only the queue is locked; 8-bit countdown | commands are queued whole, executed in order, exactly once; a driver and the device agree where a request begins; the mutex comes free and the queue empties |
| Mass storage (`HDD.cpp`) | three registers | argument counts; `do_cmd` puts words together to names, addresses and lengths for operations that are stubs | counts and word orders that driver and device must share | every command is performed once, with its own parameters |
| Power management (`PMI.cpp`, `CPU.cpp:8-48`) | `m_ready`, `m_is_halted`, LED | power button, reboot, shutdown, `CPU::boot` | busy wait on a plain flag written by two other threads | a boot signal is neither lost nor invented |
| Machine: assembly and end (`main.cpp`, `Config.cpp`, `Cx16.cpp:5-40`) | `Device::all_devices`, shared pointers, one thread per device | `main()` up to the button, the display loop, destructors and joins | destruction while threads run; only the order of locals keeps things alive | memory outlives its readers; destruction waits for nothing that need not come |
| I/O buses (`Cx16.h:31`, `Cx16.cpp:96-172`) | device maps, switches | registration, `find_device`, routing | first switch wins, a second registration is ignored | an access reaches the device registered for it |
| Interrupt controllers (`Cx16.h:234`, `Cx16.cpp:41-94`) | mask of raised lines, current line, offset | worker loop with `eoi`, `raise_irq`, `irq_raised`, `number` | the mask is read, changed and written by several threads without a common lock | no line is invented; lines that stay up arrive; numbers belong to lines |
| Processor (`ControlUnit.cpp`, `Executor.cpp`) | registers, flags, vector table, halted flag | `cycle`, `raise_interrupt`, one case per opcode | IRQs between any two instructions, exceptions within handlers, 16-bit wrap, ROM below 384 | handlers nest, comparisons decide, stack stays out of the ROM |
| Main memory, ROM, DMA controller (`Cx16.cpp:182-206`, `CPU.cpp:50-77`) | bytes | read, write | bounds, byte order | part of the processor's and the machine's modules |
| Graphics card and display buffer (`Gfx.cpp`, `Display.cpp:88-117`) | buffer, framebuffer address | clear, pixel, fill, copy | 8-bit loop variables, unchecked index, register written during a copy | the right pixels and no others change; commands end |
| Timer (`PIT.cpp`), display window | two registers; the window | none yet; the loop of `main` | | part of the machine's module |
| Assembler and C++ lexers (`toolchain/compiler/asm/lexer.cpp`, `cpp/lexer.cpp`) | stream, token list | one pass of the loop per token | end of text within a token, comments, escapes | no character is dropped or used twice; the loops end |
| Assembler parser, C++ parser (`asm/parser.cpp`, `cpp/parser.cpp`) | position, tree | recursive descent with alternatives | alternatives that give up do not always go back; null at the end of input | values are used once, within their line; brackets match; a written source is read as meant |
| Assembler back end (`asm/builder.cpp`, `ast.cpp`, `directive.cpp`, `instruction.cpp`, `opcodes.cpp`, `runtimedata.cpp`, `generator.cpp`) | sections, labels, names, symbols, output | one per kind of line, then layout and label replacement | label fix-ups after emission, 8-bit truncation, going on after failures | instructions at their addresses, as long as the processor reads them; jumps arrive |
| Driver and front end program (`toolchain/compiler/main.cpp`, `compiler.cpp`, `util/args.cpp`, `util/exec.cpp`, `frontend/main.cpp`) | arguments, options, files, a child process | parse, open, convert twice, fork and wait | a child that stops, is continued or killed; two files truncated before they are written | command lines mean what they say; the exit status tells of the output; an old object survives a failure |
| Kernel, C library, shell (`src/`), font generator (`utils/fontgen`) | | | | *not modelled*, see below |

How the parts interact. An `OUT` or `IN` of the processor goes over the bus to a
device's `out8/out16/in8/in16`, on the CPU thread. A complete command goes into
the device's queue; its worker executes it (`do_cmd`) while it holds the queue's
mutex. The worker of the PMI controller calls `pmi_reboot` and `pmi_boot` of the
CPU, which write the flag the CPU thread waits for. The CPU asks one interrupt
controller before each instruction. The front end program starts the compiler;
the compiler opens its files and runs a lexer, a parser and a back end over them,
one after the other. At this commit nothing calls `raise_irq`,
`raise_command_irq`, `return_from_interrupt` or `reset_button`; the first is
modelled as the class offers it, the others are left out.

## Modules

| Module | Models |
|---|---|
| `DeviceService` | what a device promises: accept commands into a queue, execute the oldest, read and write registers |
| `ConventionalDevice` | `Cx16ConventionalDevice` with its worker. One action per branch of `out8`/`out16`; `out16` in the middle of a command is two actions, before and under the mutex; the worker's loop is lock, enter `do_cmd`, finish, unlock. Implements `DeviceService` |
| `MassStorage` | the disk's argument counts, and the operation with its parameters that `do_cmd` makes of a command's words |
| `DeviceDriver` | `ConventionalDevice` as the disk (`MassStorage`), and a program that uses it: `OUT8` of a command, `OUT16` of any number of words, `IN16`; register reads and writes. It believes in its own number of words and goes on with its next request whatever the device made of the last |
| `PowerManagement` | the threads of `main`, the CPU and the PMI worker around `m_ready`, each access a step |
| `Machine` | `PowerManagement` extended to the life of the whole machine: `Assembly` is `main()` statement by statement, `Route` the buses, then every device's thread, the closed window, and the destructors, pointer by pointer, with the joins |
| `InterruptController` | workers, raising devices and the asking CPU, each access to the mask and to the current line a step; the program's exceptions, which keep IRQs away |
| `ControlUnit` | one action per kind of instruction, and the taking of an IRQ; memory with its real byte order and bounds |
| `Graphics` | the loops of the drawing commands, pixel by pixel |
| `TextStream` | `std::istream` as the lexers use it: `peek`, `get`, the end and failure bits, and the two lexers' shared helpers |
| `AssemblerLexer`, `CppLexer` | `from_stream`, one step for each pass of its loop |
| `AssemblerParser` | `parse_block` and the parsers it calls, one step for each operation and for each operand of an instruction or a directive; a node names its tokens by their positions |
| `CppParser` | every parser of the C++ grammar: from a position to a tree or to nothing, and the position it leaves behind. `Calls` nests the parsers as deep as the stack has room for (`MaxDepth`); an overflow is a crash |
| `AssemblerFrontEnd`, `CppFrontEnd` | the conversion of a text, first the lexer to its end, then the parser, step by step |
| `FrontEnds` | `Converter::convert`: one of the two conversions runs, each with variables of its own |
| `Assembler` | the Builder, one action per kind of operation, and the Generator, instruction by instruction and section by section; encodings and label replacement as operators |
| `Toolchain` | front end process and compiler process: fork, wait, signals; arguments, files and the two conversions |
| `DeviceDriverProofs` (with those of `ConventionalDevice`), `MachineProofs` (with those of `PowerManagement`), `InterruptControllerProofs`, `ControlUnitProofs`, `GraphicsProofs`, `FrontEndsProofs`, `AssemblerProofs`, `ToolchainProofs` | theorems |
| `MC...` | constants for TLC (`Machine` needs none but those of its `.cfg`) |

Definitions carry the names of the code where they can; `PROJECT.json` gives the
lines of each. A definition with a comment that begins with `Mutant:` is a
plausible bug of the definition it is named after (`Compare_only_sets` of
`Compare`), used to show that a property can fail.

Abstractions. Names, log output and drawing on the window are left out. A data
word is one of a few values. A pixel is one bit, since the fill operations are
bitwise. `do_cmd` of a generic device returns any of `Results`. A run of letters
that is a keyword or a type stands as one character of a text; digits are 0 and 1,
letters are few. A file's contents are one of nine kinds, named for what the
compiler finds them to be; what a conversion makes of a text is said by the front
ends and `Assembler`. Threads are sequentially consistent: the flags are plain
variables and the emulator is built without optimisation, so a busy wait reads
memory each time. What C++ leaves undefined is kept visible: in the toolchain a
null pointer ends in `"crash"`, an address beyond the vector is any byte; `LIVT`
with last index 255 ends in the state `"undefined"`; a thread that uses a
destroyed object sets `undefined`, and from there nothing is claimed; a pixel
outside of the buffer sets `outside`; an uninitialised result word is any of
`InitialResults`.

## Runs

| Run | Shows | Bounds, and why they are enough |
|---|---|---|
| `MCDeviceDriver` | For any bus traffic: the device implements `DeviceService`; commands that take arguments are queued with as many words as `get_argc` says (`CommandsAreWhole`); while the CPU waits for the mutex the worker releases it (`MutexComesFree`); the queue empties (`QueueDrains`). Up to the first command whose words driver and device count differently: framing, each command done once, in order, with its own words, also after the two have lost each other; register contents, and register reads when nothing is queued | two commands of one and of three words with the right number, one with a word too many (which selects a register) and one without any, which the device queues after its counter has wrapped; registers known and unknown anywhere; a counter of four values instead of 256 makes the wrap reachable |
| `MCDoneAsMeant` | violated: what the manual and the boot code say of their requests is not what the device does for them | the real counter of 256; the manual's commands 0x20 and 0x02, and the requests of `boot.s:26-34` |
| `MCMachine` | Every number reaches the device that `main` registered under it; the memory outlives CPU and graphics card; every boot signal starts the CPU unless the window is closed or the program runs for ever (`SignalStartsOrCloses`); destruction waits for ever for no thread but one in a command that does not end, the CPU's with a program that does not halt, and the CPU's in its busy wait (`DestructionEnds`); signals are neither lost nor invented | all of `main`'s devices and pointers; one PMI command, so one reboot or shutdown at any moment of assembly, operation or destruction; the window may be closed at any moment, images may be missing |
| `MCInterruptController` | What the races leave intact: no phantom line, numbers only of raised lines, line 0 or the spurious line; a line that stays lowest is reported, and one that stays up at the CPU's controller arrives unless the program halts or has entered an exception's handler, which nothing leaves | two devices, three raises: one before, one during and one after the other's read-modify-write |
| `MCControlUnit` | `HandlersNest`, `CompareDecides`, `NoPushUnderRom` | every pair of 17 instructions and every other instruction, after four set-ups (stack in memory with and without a table, stack at 0, stack at 65535), with two handlers and an IRQ possible at each instruction |
| `MCGraphics` | On-screen commands change their rectangle as they say, store nowhere else, end | a 3 by 2 display, bytes of eight values, all on-screen rectangles, two commands, one move of the framebuffer |
| `MCAssembler` | An object file has the instructions its lines tell for each section, in their order, where the header and the addresses say; near jumps land where the source means, the processor finds the same instruction boundaries; dropped lines are reported | every source of five lines in two sections out of label (which may be declared again), jumps, plain instruction and section switches, and pairs of some 60 other lines in eight surroundings; a byte of 16 values, so that distances leave the range |
| `MCFrontEnds` | No character of a text is dropped or used twice (`TextAccountedFor`, `UnitAccountedFor`); every value token of an assembler source belongs to one operation, in its line; accepted C++ has matching curly brackets; written sources are read as the operations or trees they were written from; every conversion ends | assembler: three arbitrary tokens after five beginnings, three arbitrary characters after three, all sources of two lines with two operands of every kind; C++: three arbitrary characters after four beginnings, two arbitrary words after seven with two endings, units of one declaration with expressions nested twice (in one of two operands at a time) and statements nested twice, and of a variable and a function; 30 calls within each other, more than any of these texts needs |
| `MCToolchain` | A call that returned true left no running child, and returns whatever happens to the child, but for one that reads a comment for ever; command lines are read as they were written; what an exit status of 0 tells of source and output (`SuccessTells`); a failed compilation leaves the old object | all command lines of three words out of eight, and all written from two options in seven forms with five endings (`-o` given twice, `-o -S`, output over input, languages the compiler does not know); seven kinds of input; writes that fail; stop, continue and kill at every step |
| `MCClearsOnlyCurrent` | violated: the worker's store wipes out a line raised meanwhile | |
| `MCFarJumpArrives` | violated: `JMP` to a label gets a distance in one byte of the address and the place holder in the other | |
| `MCEveryCommandReturns` | violated: a rectangle that reaches coordinate 256 keeps the worker in its loop | |

Each violation quotes the line of the manual or comment it is about in
`PROJECT.json`, "findings".

Some properties name their exception, and what the code does there is listed
under *Differences*:

* `CommandsAreWhole` leaves out commands that take no argument, which are queued
  after 256 words. `FramingAgrees`, `ExactlyOnceInOrder`, `RegistersAsWritten` and
  `QuietRegisterRead` speak of requests up to the first that driver and device count
  differently; that the repository has such requests is `MCDoneAsMeant`.
  `QuietRegisterRead` holds if nothing was queued when the read began.
* `DestructionEnds` and `SignalStartsOrCloses` name the waits of their rows above,
  the first also the use of destroyed objects.
* `NumbersAreReportable` admits line 0, and `LowestIsReported` says nothing of the
  lines above the lowest.
* `FillsRectangle` leaves out copies during which the framebuffer is moved.
* `DroppedLinesReported` leaves out symbols, which no section holds, and labels that
  their section has already.
* `TextAccountedFor` and, for assembler texts, `ConversionsEnd` exclude a last line
  without a line end, `UnitAccountedFor` a comment that ends in two stars and a slash
  (`StarsMatch`). `FrontEndReturns` names the endless comment as well.
* `ReadAsMeant` speaks of units written with white space between their words;
  what stands together without any, as operators can, is not written.
* `SuccessTells` says what 0 means for each language: for an unknown one, that no file
  was touched; for the others, that the compiler found no error, and that there is an
  output, whole unless a write failed. A source the compiler wrongly takes for
  correct is one without errors there.

Where TLC may stop: a halted machine, an ended emulator or process, a program
that sends no more, a converted text. The runs of `Machine`, `ControlUnit`,
`Graphics`, `Assembler`, `FrontEnds` and `Toolchain` say `CHECK_DEADLOCK FALSE`
for that. The device's runs and the interrupt controller's check deadlock.

Fairness. Worker loops never stop while the emulator runs, so the worker, the
CPU thread and `main` are weakly fair. Nothing is assumed of who gets the queue's
mutex, which the worker's loop releases and takes again at once: `std::mutex`
promises no order, so a waiting `out16` may wait for ever in the model. In
`DeviceDriver` a command ends, as the disk's do (`HDD.cpp:89`); in `Machine` none
need end, since one of the graphics card does not (`MCEveryCommandReturns`), no
program need halt, and nobody need close the window or send a command. Devices
need not raise lines; once in `raise_irq` they finish it. The toolchain's
conversions are sequential and weakly fair. In `Toolchain` a step of the compiler
is a whole conversion, but there is none for a source that is read for ever. A
stopped child is continued (`WF` of `Continue`; the user's or the shell's doing,
without which no program can return), and it is strongly fair because stops and
continues may alternate for ever.

## Proofs

TLAPS proves for every value of the constants, from the assumptions named in
each module:

* `DeviceDriverProofs`, of the device alone: the invariant `IInv` is inductive; hence type
  correctness, `CommandsAreWhole`, `ArgumentsCounted`, `ArgumentsInRange`. That
  commands are queued by the countdown (`QueuedByCountdown`) is not inductive: it
  needs that the countdown agrees with the buffer (`ArgumentsCounted`), which needs
  that a command begins with an empty buffer (`NoLeftoverArguments`); that `do_cmd`
  runs on a non-empty queue is `ExecutesQueued`. `Implementation` shows that every
  step of the device is a step of `DeviceService` or leaves its variables alone.
* `MachineProofs`. Of `PowerManagement`, `IInv` is inductive; hence
  `StartsAreSignalled` and `SignalKept`. The strengthening counts signals:
  whenever the flag is up, or was seen up, one more signal than starts was given.
  `OffUntilPowered` is part of it because a signal before the button would break
  the count's base. Every step of the machine is a step of `PowerManagement` or
  leaves its variables alone (`MachineIsManaged`), so both hold of the machine,
  its assembly and its destruction. `LifeInv` then says who holds what at each
  place of `main()` and of its destructors: objects are alive while somebody
  holds them, a thread that runs has its device, a bus its devices. From it
  follow `MemoryOutlivesReaders` and, with the registrations done so far as part
  of it, `AccessReachesRegistered` for all device numbers. That a first switch or
  a first reader exists rests on the least element of a set of naturals
  (`LeastNatural`).
* `InterruptControllerProofs`: `IInv` is inductive; hence `NoPhantomLine`,
  `NumbersAreReportable`, `NotNested` (with the exceptions that keep IRQs away). A
  phantom line could only come from a mask that a thread has loaded earlier, so
  the invariant speaks of loaded masks (`LoadedWereRaised`) and of the current
  line (`CurrentIsReportable`).
* `ControlUnitProofs`, for every ROM image, memory size and interrupt controller,
  and programs of any length: `HandlersNest` is inductive, because entering a
  handler is the only step that changes its flags. `NoPushUnderRom` needs that
  the stack pointer is a word, and `CompareDecides` that operands are numbers
  (one of less, equal, greater holds); both rest on `Numeric`: registers, memory,
  vector table and instruction pointer hold natural numbers, whatever opcode is
  met. `Numeric` is weaker than `TypeOK`, which also bounds them.
* `DeviceDriverProofs`, of device and driver, for every device, every set of
  requests with any number of words, and any number of commands
  (`DriverAssumption`: values on the bus are bytes and words, register ids bytes):
  `DriverIInv` is inductive. Its core, `Framed`, holds as long as all requests had as
  many words as the device counts, the one under way included: `InStep` says what the
  automaton is at from how much of the request's script is sent, the words in its
  buffer included. `FramingAgrees`, `RegistersAsWritten` and `QuietRegisterRead`
  follow. `ExactlyOnceInOrder` adds the books: as long as the two agree, done, then
  queued, is what was asked, but for a command not queued yet (`Accounts`); once they
  do not, the commands up to there stay done or queued as they were (`KeptInOrder`),
  because whatever else the device makes of the traffic joins the queue behind them.
* `GraphicsProofs`, for every display that a coordinate can count, every main
  memory and every set of commands: `StaysInBuffer` and `FillsRectangle`. The
  strengthening is the loop invariant `FilledSoFar` (pixels passed are as meant,
  the others as before), which needs that the loops stay in the rectangle and
  hence never wrap (`LoopsInRectangle`), and that no two pixels share a cell.
* `FrontEndsProofs`, of the assembler's side, for every set of texts.
  `TextAccountedFor`: every pass of the lexer's loop adds a token, passes over a
  comment or takes nothing (`LexingStep`), and the stream behind it is further on
  in the same text (`LexerTypeOK`); a place where no comment opens and the extent
  of the token are what `Stands` says, which for a number of one digit at the very
  end of a text is wrong, hence the hypothesis that the last line ends.
  `ValuesUsedOnce` and `OperationsWithinLines` follow from `ReadingInv`: the
  operations take exactly the values before the position, each within its line
  (`Reads`). While an operation still gets operands that is not inductive, because
  nothing tells what lies between its name and the position; there `Growing`
  splits it off (`Spans`). Whatever alternative parse_operand takes, its operand
  `Fits`: it has the values between the two positions, in order. All this is said
  of `AssemblerFrontEnd` alone and, in `SourcesAlwaysRead`, of the process that
  converts units as well.
* `FrontEndsProofs`, of the C++ side, for every set of units and every `MaxDepth`.
  `CurlyBracketsMatch` follows from `UnitInv`: what lies before the position is
  `Balanced`, no block closed that was not opened before. What a parser finds is
  balanced (`Sound`). A parser that gives up leaves tokens behind, and a code block
  that is not closed leaves a curly bracket; of the parsers that another goes on
  behind it has to be shown that they do not (`Matched`). One lemma for each parser
  says this from what its calls find (`CallsMatch`), and `CallsOfParsersFit`
  carries it through any depth. That is an induction on numbers, which the proof makes
  from the least depth that would fail; the recursive function `Calls` itself has
  to be shown to exist for it (`CallsAre`). `UnitAccountedFor` is `CppLexAccounts`:
  in each pass of the lexer, white space, a comment as a whole (`BlockEndIs`), or
  the one token. The attempt to prove it showed that its hypothesis had been too
  weak: a comment that *holds* the end of another, as in `a/*/**//`, was let
  through, and the lexer goes on behind it. `StarsMatch` now speaks of the comment
  that opens at the position, and the run has a text that begins like that.
* `AssemblerProofs`, for every set of source files whose operations the parser can
  make, every header size, number of ports and size of a byte.
  `DroppedLinesReported` follows from `Books`: lines listed and assignments made
  are the lines executed, unless the Builder has a failure to report. A label that
  is declared again is in neither. `Placing` says that what the Builder put into a
  section is what the lines told for that section (`told`), one instruction with
  an opcode its line means for each (`OpcodesMeant`); `InstructionsInPlace`
  compares the file with `told`, not with the section. `Layout` is the invariant
  behind the object file. `Chained`: the instructions of a section lie one behind
  the other, each as long as its opcode says (`Shaped`), and the entries of the
  section are theirs. `Copied`: `section_payload` still has their bytes. `Placed`:
  so has `payload` from the header's address on, with the byte behind the opcode
  replaced where an entry asks for it. What makes it inductive is that an entry's
  place is behind an opcode and so belongs to no other instruction
  (`PlacesDiffer`). `DecodedAsEmitted` is what `Layout` says when the file is
  written, `InstructionsInPlace` what `Layout` and `Placing` say.
  `NearJumpsArrive` also needs `AsTold` (labels and instructions of a section are
  those of its lines, across switches of sections) and arithmetic: a byte that is
  the distance but for whole bytes lands on the target (`Reaches`), and the
  distance to a number, taken in 16 bits from an offset in 8, is one
  (`DistanceToNumber`).
* `ToolchainProofs`: `ChildHasEnded`, from the truth of what `waitpid` tells
  (`ReportIsTrue`) and from the compiler's having no other effect on its own
  process than to exit (`ExitsAtMost`). `OutputInvariance` says what a file holds
  at each place of the compiler; `SuccessTells` and `OldObjectKept` follow, for
  all command lines, languages that are unknown and writes that fail included.
  `CommandAsMeant` assumes of a command line only how it is written
  (`CommandsAssumption`, which TLC checks of the run's): options up to some word,
  which begin at certain places and have a value each if they take one, then
  inputs, which `--` may precede; of an option given twice the last counts. The
  invariant (`ReadSoFar`) is that what is read is what was written before the word
  that is next, and that this is no option's value: `NextOption`.

Only model-checked:

* Liveness (`MutexComesFree`, `QueueDrains`, `LowestIsReported`, `ConversionsEnd` and
  the like): it needs fairness and ENABLED.
* `ReadAsMeant`: what a written text is read as is an induction over texts and
  trees.

## Differences met while modelling, without a run of their own

Devices and machine

* `IN16` may return before its command was executed (`Cx16.cpp:279`; manual
  `spec/spec/Cx16/OLD-cx16-sdm_io.txt:275`), and a register read while a command
  is queued can return the command's result: both write `m_command_result`
  (`Cx16.cpp:241,300`; manual line 291), which starts uninitialised in a device
  with a constructor of its own (`HDD.cpp:3`).
* A command without arguments is not queued after its `OUT8`: the countdown is
  decremented before the comparison and only in `out16` (`Cx16.cpp:255`), so it
  waits for 256 words. The manual has such commands for the disk (0x20, line 537),
  the interrupt controller (0x02, line 603) and power management (0x02, line 616).
* `boot.s:28-34` and `bios.c:71-77` send three words for name and extension where
  the disk takes four (`HDD.cpp:40`). The total is six for both, so the framing
  holds, but the address 0x0400 becomes the end of the name, and the offset and the
  size become address and length; `bios.c:79` says that the IRQ handler sets `dx` to
  1, which sets it to 0 (line 49). The manual gives names of up to six words (line
  506), an address with command 0x02 (line 486) and an offset with 0x04 (line 494),
  which the disk does not count (`HDD.cpp:55`); likewise command 0x06 of the graphics
  card (line 673).
* `out16` waits for a mutex that the worker takes again right after it releases it
  (`Cx16.cpp:295`): nothing promises that the CPU ever gets it.
* A worker in a command that does not end, or a program that does not halt, is
  joined for ever (`Cx16.cpp:28`). The CPU's busy wait never asks `running()`:
  closing the window while it waits hangs in its join, and threads use parts of
  their device that are destroyed already (`CPU.cpp:23`, `Cx16.cpp:28`).
* A ROM image that is too big is only logged (`CPU.cpp:50`).
* The legacy interrupt controller's lines never reach the CPU, which asks the
  fast one, whose `m_irqc` is null (`main.cpp:66`, "Cascading IRQ").
* Commands to an interrupt controller are queued and never executed, because
  its `boot` replaces the loop (`Cx16.cpp:41`); the number the CPU reads may be
  that of line 0, which nobody raised (`Cx16.cpp:48`, `Cx16.h:253`).
* Shutdown switches the LED off and nothing else (`PMI.cpp:47`); a reboot starts
  only a CPU that halts (`PMI.cpp:43`, `CPU.cpp:23`), and a halted CPU does not
  look for IRQs (`CPU.cpp:29`), which `boot.s:36` waits for. Nothing clears the
  flag of an exception, so that no IRQ is taken after the first (`ControlUnit.cpp:34`).
* Words are stored low byte first and read high byte first (`MemoryData.h:31`).
* `IRET` (0xbb) is an invalid instruction and `return_from_interrupt` has no
  caller; `LIVT` with an address is 0xb6, not 0xb5, and `PUSH [bp+a]` pushes the
  address (`ControlUnit.cpp:247,297,323`).

Assembler

* A comment in a last line without a line end is never left (`asm/lexer.cpp:50`).
* The check for a line end behind operands counts from 1 and never fails
  (`asm/parser.cpp:10`); an instruction without operands in the last line,
  without a line end, gets an operand and becomes a place holder (line 214).
* Conditional jumps to labels from offset 128 on are refused (`opcodes.cpp:32`);
  `Jcc ax` is emitted as the unconditional jump (line 17); both bytes of an
  immediate value of `OUT` are its low byte, and `OUT8` has two of them where
  the processor reads one (line 64, manual `asm-by-operations.txt:16`).
* A label that its section lacks is taken for the section's first instruction
  (`runtimedata.cpp:78`), one behind the last instruction reads beyond a vector
  (line 79), and an instruction before the first section dereferences a null
  pointer (`instruction.cpp:157`).
* A second declaration of a label in its section is dropped without a message and
  reported as done (`ast.cpp:39`); `.type` before `.globl` and a second `.globl` of a
  name have no effect and no message either.
* Whether the object could be written is not asked (`asm/generator.cpp:79-81`): the
  compiler returns 0 with a part of it, or nothing, in the output.

C++ front end, driver

* A parser that gives up behind tokens it took can leave the position there: of
  `int a = ( 1 1` the first literal is lost (`cpp/parser.cpp:210`; line 201 does
  go back). Line 110 dereferences a null token at the end of input.
* A comment that is not closed is read as operators; one that ends in two stars
  and a slash goes on (`cpp/lexer.cpp:61`).
* An unknown language given with `-x` ends in 0 and does nothing
  (`compiler/main.cpp`); the front end returns 0 whatever became of its child,
  and `spawn_process_and_wait` returns true whatever the child returned
  (`util/exec.cpp:12`).

## Not modelled, and why

* The SDL window, loading of images and the log are I/O; a missing image is a
  branch of `Machine`.
* The disk's file operations are stubs; the timer does not tick; the linker has
  no code.
* Printing of the C++ tree, and numbers that `stoi` refuses.
* Relocation entries of the object file, which nothing adds.
* `src/sys/libc/pcos.c` and the shell are one function that splits a string, among
  declarations without definitions; it uses an undeclared variable and is built
  by nothing. The kernel's `boot.s` is a stub.
* The font generator displays an image with a vendored decoder
  (`utils/fontgen/stb_image.h`, half of all lines of the repository).

## What could follow

1. `ControlUnit` with `InterruptController` in place of arbitrary IRQ numbers.
