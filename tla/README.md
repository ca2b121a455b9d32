# Verification of the operating system in `src/student-distrib`

TLA+ models of a small x86 operating system (three text terminals, six
processes, round-robin scheduling by the PIT, a read-only file system, a
virtualised real-time clock), TLC configurations that check them on small
instances, and TLAPS proofs of the main results for every instance.

Contents: [the system](#the-system), [the modules](#the-modules),
[the runs](#the-runs), [fairness](#fairness), [the proofs](#the-proofs),
[disagreements found](#disagreements-found), [what is not
modelled](#what-is-not-modelled), [plan](#plan).

## The system

One processor runs everything. User programs and most system calls run with
interrupts enabled; `execute`, most of `halt`, `terminal_write`, `edit_buffer`,
`switch_screen` and all interrupt handlers run with interrupts disabled. So
there are four kinds of actors that interleave: the programs of the terminals
(each terminal has one that runs, the others wait in `execute` for a child), the
PIT, the RTC and the keyboard.

| Part | Source | State | Operations | Correct when |
| --- | --- | --- | --- | --- |
| Processes and scheduler | `syscalls.c`, `pit.c` | `cur_processes`, the PCBs (`parent_pid`, `esp`, `ebp`), `terminal_array[].pid/flag/base_tss_esp0`, `curr_terminal`, `base_shell`, the program page, `tss.esp0`, `vid_map[0]` | `system_execute`, `system_halt`, `system_vidmap`, `scheduler` | every terminal is a stack of programs of which the topmost runs; no pid, stack pointer or terminal is ever lost; every terminal is served |
| File system | `file_sys.c` | none (the disk is read-only); `dentry_counter` | lookup by name and index, `read_data`, `read_file`, `read_directory` | names match exactly, a read is a slice of the file, a listing shows each entry once |
| File descriptors, arguments | `syscalls.c` | `pcb->file_descriptors`, `pcb->args` | `system_open`, `close`, `read`, `write`, `getargs` | a process's files and arguments are its own |
| Terminal input | `terminal.c`, `keyboard.c` | per terminal `buffer`, `buffer_size`, `waitingInRead`, `enter_flag` | `keyboard_handler`, `edit_buffer`, `terminal_read` | keys edit the line of the terminal displayed, and an entered line is given, once, to the program that reads |
| Screen | `lib.c`, `keyboard.c`, `terminal.c` | video memory and a backup page per terminal, cursors, `DISPLAY_ON_MAIN_PAGE`, `terminal_flag` | `putc`, `clear`, `erase_char`, `move_cursor`, `switch_screen`, `terminal_write` | each terminal has an image of its own, whichever is displayed |
| Modifier keys | `keyboard.c` | `shift_held`, `caps_locked_activated`, `caps_lock_held`, `ctrl_held`, `alt_held` | `keyboard_handler`, the key handlers, `typing_handler` | the flags follow the keys, and a key yields the character of the modifiers held |
| Clock | `rtc.c` | `RTC_frequency`; per terminal `RTC_max_counter`, `RTC_counter`, `RTC_block` | `RTC_handler`, open, read, write | a read waits for the end of a period of its own terminal, and ends |
| Interrupts | `idt.c`, `interrupt_link.S`, `i8259.c`, `kernel.c` | gates; masks, requests and EOIs of both controllers; the handlers on every kernel stack | `i8259_init`, `enable_irq`, `send_eoi`, the linkage, `entry` | a request is held until it is served, every interrupt is acknowledged once, and nothing comes between the accesses of a handler |
| Paging | `page.c`, `page_setup.S` | page directory and tables, the translation cache | `init_page`, `process_page`, `flushTLB` | a program reaches its own memory only, and no translation is stale |
| C library | `lib.c` | none | `memset`, `memcpy`, `memmove`, the string functions, `itoa`, `printf` | they do what their C namesakes do, at every alignment and boundary |
| User programs | `syscalls/`, `fish/` | their own | calls of the kernel; `grep` searches files piece by piece | no line is lost or cut between two reads |

The parts meet in `terminal_array`, `curr_terminal` and `screen_terminal`. The
scheduler moves `curr_terminal`; the keyboard moves `screen_terminal`; every
other part finds "its" process, line, page or counter through one of the two.
Using the one for the other, or either after it may have moved, is the typical
error of this system, and most properties are aimed at it.

What is hard here: a tick between any two instructions of a program or of a
system call; keys that interrupt one terminal and act on another; stack
pointers stored in one place and loaded in another, much later, by another
actor; PCBs, pids and stack pages that are used again; shared variables
(`dentry_counter`, `cur_args`, `RTC_frequency`) of calls that are preempted;
EOIs that wait for a suspended handler; and the start, when the scheduler itself
executes the base shells. Nothing is persisted, there are no locks and there is
one processor, so crash recovery, deadlock between locks and memory ordering do
not arise. `PROJECT.json` lists the hazards line by line.

## The modules

### `ProcessManager`: processes, kernel stacks, scheduler

The kernel learns which process is current only from
`terminal_array[curr_terminal].pid` and saves the stack pointer of whatever it
suspends in the PCB found that way. The model keeps apart what the processor
really executes (`cpu`: whose kernel stack is loaded and where that thread is)
and what the kernel believes (`pcb`, `terminal_array`, `page`, `tss`).

A saved `esp`/`ebp` pair is abstracted to the continuation it stands for:
`UserThread(p)`, `ExecuteFrame(p)` (inside `system_execute`) or halt's last
instructions. Entering a kernel stack afresh destroys what is on it: every
saved pair into that stack becomes `LostContext` (`ForgetStack`).

`Execute`, `ExecuteFails`, `HaltRestartsShell`, `HaltTeardown` + `HaltReturn`,
`Vidmap`, `Tick` (the next terminal resumes, is booted, or cannot be booted) and
`SwitchScreen` are whole handlers. `halt` is two actions because it enables
interrupts before it loads the parent's stack pointer.

`Environment` names three events the code does not exclude and its users rarely
cause: an execute before all base shells are up, an execute by a program in the
background, a tick inside the end of halt. The code mistakes one process for
another when they happen (see the findings), so the strong properties are
stated for `Environment = {}` and the weaker ones for every `Environment`.

### `Sessions`: what the process manager promises

One stack of programs per terminal, only the topmost of the served one runs, and
service in turn. No parent links, stack pointers or page directory.
`ProcessSessions` gives the refinement mapping: the session of a terminal is its
chain of `parent_pid` links. `Sessions` is safety alone; that every terminal is
served again and again is `EveryTerminalServed` of `ProcessManager`.

### `FileSystem`, `FileDescriptors`

`FileSystem` holds the pure part as operators: `read_dentry_by_name` with its
`strlen`/`strncmp` logic (including names that fill the field and so have no NUL
on disk), `read_dentry_by_index`, `read_data` (`Places` are the blocks and
offsets a slice is gathered from), and the parsing of a command line in
`system_execute`. `FileSystemInputs` states what these operators compute, for every
input of given sizes: each initial state is one input (`Inputs` has the variable
all such modules share).

`FileDescriptors` adds the descriptor tables of the PCBs, `dentry_counter` and
`cur_args`. Which process runs comes from `Sessions` (an `INSTANCE`): a model on
top of what `ProcessManager` was shown to implement. Only `read_directory`
touches memory that several processes share while interrupts are enabled, so it
alone is split into its accesses (compare, fetch, load, store).

### `TerminalInput`, `TerminalLines`

`TerminalInput` is `edit_buffer` on the record of the displayed terminal, the
loop and the copy of `terminal_read` on that of the served one, and the
keyboard handler up to its EOI. `edit_buffer` and `switch_screen` end with
`sti()`, before the handler's `send_eoi`: from there on a tick may suspend the
handler, and until its terminal is served again the PIC delivers no key
(`handler`). Tab is four calls with such gaps in between. The flag is polled
with interrupts disabled from the test to the end of the copy, so `ReadReturns`
is one step.

`TypingAhead` says whether keys may come between Enter and the turn in which the
reader takes its line. They may in the code, which then breaks its own promise
(see the disagreements), so the run and the theorem about newlines take
`TypingAhead = FALSE`; type correctness is proved for both values.

`TerminalLines` is what it implements: one line per terminal, edited while its
program reads, given once when entered, cut to what was asked for but ending in
a newline. `TerminalInput` states apart that a line entered is given at all
(`LinesGiven`), for that takes fairness.

### `Screen`, `TextScreen`, `Consoles`

`TextScreen` is what `putc` (with `check_size` and scrolling), `erase_char` and
`clear` do to one page and cursor. `Screen` adds the pages: the one displayed,
the backups, which of them is drawn on (`OnBackup`, from `curr_terminal`,
`screen_terminal` and `DISPLAY_ON_MAIN_PAGE`), the copies of `switch_screen`,
and the hardware cursor. `Consoles` is what it implements: one image and cursor
per terminal, on which only its own program and the keys typed to it draw. All
callers that are modelled hold interrupts off while they draw, so each is a step.
`PutAll`, a text drawn character by character, is a recursive function, so that
proofs can go along the text.

### `Keyboard`

From scan codes to the calls of `edit_buffer` and `switch_screen`: the dispatch
of `keyboard_handler`, the handlers of the modifier keys, `typing_handler` and
its four tables. The keys go down, repeat and go up in any order (`down`,
`toggled` and `lifted` are what the hands really did; the flags are what the
code believes). The right Ctrl and Alt send the codes of the left ones after
`0xE0`, which the handler takes for one more code (224, in `OtherCodes`).
`FakeShift` is the Shift code a keyboard itself sends around an extended key;
`faked` keeps what it said until a real Shift moves. `printed_char`, which the
code uses without a value for codes beyond its tables, is any byte somebody
looks for, or another.

### `Paging`

`EXTENDS ProcessManager` and conjoins to every step of it the writes to the page
directory, to `vid_map` and to the table entries which that handler makes, and its
flush. The processor may fetch a translation at any moment and keeps it in `tlb`
until `flushTLB`; entries are marked global, so what the flush removes depends
on `cr4`. `page_directory` is written as the code does, index by index; `Walk`
is the processor's walk through it. `PagedVidmap` is one step: the writes of
`system_vidmap` are followed by a flush, and a tick between them rewrites
`vid_map` and flushes itself.

### `Interrupts`

The two controllers (request, in-service and mask registers, vector bases), the
gates, the linkage and the order of `entry`. Each terminal has a stack of frames,
the handlers active on its kernel stack; each frame knows how far it is (entered,
EOI sent, inside the scheduler, ...). A tick leaves one stack in the middle of
`scheduler` and goes on in the middle of `scheduler` on another. Devices hold
their line until the register is read (clock, keyboard). The other modules
rely on what is checked here: `RTC_handler`, each `edit_buffer` and `scheduler`
are single steps for everybody else.

### `CLibrary`, `UserPrograms`

Pure functions as operators: filling and copying memory in bytes and double
words, strings, numbers as text, `printf` (the real format parser), and grep's
`do_one_file` with its buffer. Loops are recursive functions of the number of
turns taken, and a turn is an operator: `PrintfStep` on the state of the format
parser, `Onward` on the variables of grep's two loops, of which `Beginning` and
`ReadOn` keep the name of the place in the code (`at`).

`CLibraryInputs` and `GrepInputs` state what they promise: a number is the text
whose digits give its value, `printf` prints a list of tokens in order, grep
prints the lines that contain the text, where a line is what lies between two
newlines of the file, not of a buffer. `MCFunctions` takes all the inputs
together for TLC.

### `Rtc`

The countdown per terminal in `RTC_handler`, and open, write and read as
sequences of memory accesses with ticks and clock interrupts between any two of
them. Two history variables count interrupts since a read began.

### Correspondence

`map` in `PROJECT.json` gives the source lines of every definition. Definitions
whose name ends in a suffix after an underscore (`HandOver_ToScreen`) and whose
comment begins with "Mutant of" are variants with a plausible bug; each shows
that one property can fail, and no other definition uses them.

## The runs

| Run | Instance | Distinct states | Shows |
| --- | --- | --- | --- |
| `pm_disciplined` | 3 terminals, 6 pids (the real numbers), `Environment = {}` | 46,905 | the kernel's idea of who runs, saved stack pointers of suspended terminals and of waiting parents, execute returns only after the child, refinement of `Sessions`, and every terminal is served |
| `pm_any` | 2 terminals, 4 pids, all of `PossibleEvents` | 8,276 | the parent links stay sound whatever happens; here, too, a base shell finds no free pid |
| `pm_background` | 3 terminals, 6 pids, executes in the background | | violation |
| `paging` | 3 terminals, 5 pids, `Environment = {}` | 14,214 | no stale translation, programs apart, the video page becomes right again |
| `interrupts` | 2 terminals, stacks of at most 3 frames | 16,602 | one handler owes each EOI, shared work is never interrupted, suspended stacks end in `scheduler`, keys and clock keep being served |
| `functions` | see below | 134,581 | lookup, slices, command lines, memory, strings, `printf` and grep agree with their definitions |
| `files` | 2 terminals, 3 pids, 1 descriptor, a directory of 2 entries and a file of 2 blocks | 278,795 | descriptors are reset, kept, read contiguously; a lone listing is complete |
| `files_args` | 2 terminals, 3 pids, 2 descriptors | | violation |
| `rtc` | 2 terminals, 3 frequencies | 51,280 | reads wait for whole periods, are released at the first end, and return |
| `keyboard` | all codes of the tables, a few beyond, both keys of each pair of modifiers | 314,712 | the flags follow the keys, the keys type what they show |
| `terminal` | 2 terminals, buffer of 3, reads of 2 and 4 bytes | 104,788 | refinement of `TerminalLines`, the newline at the end, entered lines are given and the keyboard comes back |
| `screen` | 2 terminals, 2 x 2 cells, buffer of 3 | 600,376 | refinement of `Consoles`, the hardware cursor, the typed line before the cursor, Backspace |

Why the bounds are enough:

- *Processes.* Three terminals are needed to tell "next" from "other"; six pids
  leave three beyond the base shells, so chains of four, two nested terminals at
  once and exhaustion all occur. The proofs lift both bounds. In `pm_any` four
  pids for two terminals let executes before boot use up all pids.
- *Files.* Blocks of two bytes make every read start, end and cross at a
  boundary. One descriptor per process makes the table full and reused; three
  pids for two terminals make PCBs reused by other terminals. `MaxPos` and
  `MaxCounter` (4 each) go beyond file and directory by at least one. Races of
  resets and increments can drive `dentry_counter` to any value, so some bound
  is needed, and all values past the end behave alike. `offset + length` stays
  below `UintValues`, as `MaxPos < UintValues` says of positions.
- *Functions.* Names of up to 3 characters in a field of 3, so full fields
  occur, looked up by strings of up to 4; files of up to 5 bytes in blocks of 2
  under every placement; 12 values of a `uint32_t` let every slice, also beyond
  the end, be asked for. Pieces of memory of up to 9 bytes from every alignment
  have heads, double words and tails; numbers of 2 hexadecimal digits have all
  lengths; grep's buffer of 3 and texts of up to 8 let a line cross two reads.
- *Interrupts.* A stack of 3 frames holds a tick inside a key inside a clock
  interrupt, the deepest nesting of different devices; `MaxDepth` delays devices
  and refuses no interrupt that was raised. A new tick is not raised while the
  frame of the last is still at its entry or in the scheduler (a few
  microseconds of 10 ms).
- *Paging.* Five pids are a chain of three beside two shells; all 3 terminals
  have backup pages of their own.
- *Terminal input.* A buffer of three has an empty, a partial and a full line;
  requests of 2 and 4 are shorter and longer than line and buffer.
- *Screen.* Two rows and columns are the least with a row end that is not the
  screen's end; a line of two characters fits, as `LineFitsOnScreen` requires of
  the real numbers (127 characters, 24 rows of 80). A written text of three
  characters wraps and scrolls within one call.
- *Clock.* Frequencies 1, 2 and 4 of 4 give counters of 4, 2 and 1, the least
  one included.

`CHECK_DEADLOCK FALSE` is set where the system really may stop: in `pm_any` and
the process run that expects a violation, a processor that loads a lost stack
pointer executes nothing the model knows.

## Fairness

- The PIT interrupts every 10 ms for ever, and the PIC holds a request until the
  processor takes it. Where interrupts are at times disabled the tick is enabled
  only at times: strong fairness (`ProcessManager`). Elsewhere the tick is always
  enabled: weak fairness. The RTC likewise.
- An instruction the processor has reached is executed: weak fairness of
  `HaltReturn`; strong fairness of the steps inside a call that a terminal takes
  in its turns (`Rtc`, `TerminalInput`), since the turn, not the step, comes and
  goes. For `terminal_read` this rests on the build: in its polling loop the
  processor reaches `cli()` and the test of the flag in every turn.
- `Interrupts`: a handler, `entry` and a system call that has disabled interrupts
  go on (weak fairness), and a request that the controllers can deliver again
  and again is delivered (strong fairness, since interrupts are on only at
  times). Ticks and clock interrupts are raised under strong fairness because the
  bounds above suspend them at times.
- What is served also depends on the load: a line of higher priority always goes
  first. `KeysServed` therefore assumes `TicksPause` (again and again a moment
  without a tick pending: a tick is handled well within 10 ms), and `ClockRunsOn`
  assumes `KeysPause` (nor a key pending or half handled: no one types without a
  pause). Without them the lower lines starve, in the model as on the hardware.
- `Paging`: strong fairness of the tick and weak fairness of `HaltReturn`, as in
  `ProcessManager`; none for what the processor fetches.
- No fairness is assumed of programs' decisions to make a call, or of keys.

## The proofs

`tlapm` checks 14,382 obligations in eight modules. Every invariant, every action
property and every refinement the passing runs check is a theorem; what is left to
TLC is liveness.

**`ProcessManager_proofs`** (2,462), for any number of terminals and at least as many
pids:

- `TypeCorrect`, `ChainsSound`: for every `Environment`. `ChainsAreSound` is not
  inductive alone: it does not say that the terminal being scheduled has a
  process for `halt` to take down, nor that an ordinary execute finds
  `base_shell` clear and puts its child under a parent. `SafetyInv` adds that
  the scheduled terminal is booted and that `base_shell` is left set only when
  a boot found no pid.
- `KernelAgreesWithCpu`, `TerminalsResumable`, `ParentsIntact`,
  `ReturnsAfterChild`: for `Environment = {}`. `DisciplinedInv` adds `BootOrder`
  (until every terminal was served once, the live processes are the base shells
  0 .. `curr_terminal`, so the next finds a pid), `TssOfYoungest` and that the
  processor is never lost. The core of the argument is which saved pairs a step
  may destroy: resuming a thread forgets the pairs into its own stack, and every other saved
  pair leads into the stack of the process that saved it (`FrameOwners`).
- `SessionsImplemented`: for `Environment = {}`, the refinement of `Sessions`. The
  mapping computes a chain by recursion along `parent_pid`. `ChainFound` shows
  once that whatever follows the links from the youngest process to a base shell
  without meeting a process twice is that chain; it needs that such a chain is no
  longer than there are pids. `SessionsInv` then says that every booted terminal has one,
  and each step is a lemma about chains: execute puts one process on top
  (`ExecuteBegins`), halt takes it off (`HaltLeaves`), a tick changes none but an
  empty one (`TickServes`, `TickServesNew`).

The same module has the theorems of `Paging`, which are about the composition and
use those above. `PagingImplementsProcessManager` shows that every behaviour of
`PagingSpec` satisfies the initial condition and the steps of `ProcessManager`, so that the theorems above hold of the composition and are
used in it. `TranslationsFresh` holds for every `Environment`; `ProgramsIsolated`
for `Environment = {}`, because it needs `KernelAgreesWithCpu` to know whose
memory is whose. The invariants: the program entry of the directory is that of
`page` and the video entry is there once `system_vidmap` was called
(`DirectoryFollows`), `vid_map[0]` names a page whenever it is present
(`VideoPageSet`), and every cached translation is one the tables give now
(`TlbFollows`).

**`Interrupts_proofs`** (1,074), for any number of terminals and stacks of any
depth: `InterruptsTypes`, `SharedWorkUninterrupted`, `StacksEndInScheduler`,
`EveryInterruptAcknowledgedOnce`. The properties about the top of the running
stack are not inductive without what the start looks like while devices are
still masked (`SetUp`) and what every frame below the top may be; that a device in
service has exactly one frame that owes its EOI is proved by exhibiting that
frame and showing it alone (`OneOwes`) before it is turned into a cardinality.

**`FileDescriptors_proofs`** (1,346), for any disk and any number of terminals, pids
and descriptors: `FilesTypes`, `NewProgramsHaveNoFiles`, `FilesStayOpen`,
`FilesReadInOrder`, `LoneListings`. The invariant has four parts: no program is in
two sessions (`SessionInv`); what a descriptor names is on the disk and its
history agrees with its position (`TablesInv`); every read of a directory under
way is the youngest program's, through a descriptor of a directory (`ListersInv`); and the listing that runs
alone holds the counter in step with what it has returned (`RoundInv`). `FilesStayOpen` says
who may take an open file away: its own program by `close`, and a child's `halt`,
which closes the files of the program it returns to (see the disagreements).
Contiguity rests on `MaxPos < UintValues`: positions stay where 32 bits do not wrap around.

**`Functions_proofs`** (5,895): what the pure functions compute, for every input of
any size.

- `LookupExact` (two C strings that agree up to a length that neither exceeds are
  the same, `StrncmpIsEquality`), `ReadSlice` (after i bytes the loop over blocks
  has come to the place of byte `offset` + i, `PlacesAre`, which lies in a block of
  the file, `InBlocks`), `CommandSplit` (the loops cut a line into five adjacent
  pieces, `CommandIsCut`).
- `MemoryAndStrings`: each loop over memory has stored exactly its first i units
  after i turns. `memset` and `memcpy` go by bytes to a multiple of four, by double
  words and by bytes again; that the three pieces meet without gap or overlap is
  the core. `memmove` reads only what it has not yet overwritten, from
  either end.
- `PrintfExact`: for words of any width and any list of tokens. `itoa` leaves the
  digits in reverse and `strrev` turns them; that a value has no more
  digits than the buffer (`WordsFit`) is where the size of `conv_buf` matters. A token
  takes one to three steps of the parser (`TokenRuns`), from its own part of the format
  to its own arguments, and leaves the parser where the next expects it:
  `alternate`, above all, is off again.
- `GrepExact`: for buffers and files of any size. The invariant of the two
  loops (`AtRead`, `AtLine`, `AtEnd`) says that the buffer holds the bytes
  of the file from the first line not yet searched to where the file goes on, with
  no newline behind them, and that the lines shown are those that match and begin
  before it (`Shown`). It rests on one fact about the code: a line
  that begins at 0 and has no newline in the buffer either fills the buffer or
  has come to the end of the file, so it is complete and may be searched. `Left` counts the
  steps left and falls with each (`Advances`), so `MostSteps` of them reach the
  end: the bound of the recursion cuts off nothing.

**`TerminalInput_proofs`** (983), for any number of terminals, any buffer and any
requests: `InputTypes`, whatever `TypingAhead` is (`TabHasRoom`: a Tab goes on only
with a line that has room); and for `TypingAhead = FALSE`, `LinesEndInNewline`
(`EndsEntered`: a line is entered only with the newline of Enter at its end) and
`InputImplementsLines`, the refinement of `TerminalLines`. The latter
needs that no other character of a line is a newline (`Marked`), for the loop
that copies stops at the first one it meets; `CopiedIsCut` is the lemma.

**`Rtc_proofs`** (184), for any number of terminals and any frequencies:
`ClockTypeCorrect` (in particular no division by 0), `ReadsNotLate` and
`ReadsNotEarly`. The invariant is `CountdownInStep`: during a read, interrupts
counted so far and the remaining countdown add up to a period.

**`Keyboard_proofs`** (743), for any set of other codes: `ModifiersTracked` (each handler's flag
against its pair of keys, `DownHistory` and `UpHistory`), and
`KeysTypeShown`, code by code of the four tables, from the flags being what
`ModifiersFollowKeys` says of them.

**`Screen_proofs`** (1,695), for any number of terminals and any size of screen and
texts:

- `ScreenTypeOK`: cells, cursors and texts keep their types, so nothing is drawn
  outside a page.
- `DisplayedCursor`: it does not depend on what is drawn, only on
  `move_cursor` being the last call of whoever moves a cursor.
- `ScreenIsConsoles`: the refinement of `Consoles`. The image of a terminal is the
  screen page if it is displayed and its backup page otherwise (`ConsoleOf`); a
  step changes the image of one terminal (`Becomes`), whichever page that is, and
  a switch changes none.
- `LineKept`, with `LineStands` in the invariant: a character wraps, scrolls and
  moves the line with it, and `LineFitsOnScreen` says the line never scrolls off.
  It is used again for `BackspaceErases`: the cell before the cursor holds the
  last character typed, also when the cursor is at the beginning of a row.

Assumptions on the constants are the named `ASSUME`s of the modules; TLC
evaluates them in the runs. Those of `Screen` (`CharsAssumption`,
`TextsAssumption`) say that the bytes `putc` and `terminal_write` treat
specially are not among the characters typed, and `LineFitsOnScreen` holds of the
real numbers; `LettersAssumption` says that of names and commands. `Environment = {}` and `~TypingAhead` are hypotheses of single theorems, and
the code meets them only while its users do: see the disagreements.

The theorems about functions are of the specifications `LibraryInputs`, `GrepInputs`
and so on, whose initial states are all inputs; those of the run are some of
them: `printf` with one token of each kind or two with a few numbers, grep with
a buffer that held one byte everywhere. Three hypotheses of `GrepExact` are in the
definition of its inputs. Texts have no NUL (`LineCharsAssumption`), which ends a
C string. No line is longer than the buffer (`LinesFit`): the code
cuts such a line in two. And the buffer, an array on the stack that nothing
initialises, holds no newline at first: at the end of what was read the code
looks at a byte behind it, and would take an old newline for one of the file.

The library's induction theorems take an operator as a parameter and cannot be
instantiated. What is proved about recursive functions (chains, texts, places in
a file, loops) goes by the least element at which the claim fails, from
`WellFoundedInduction` (`LeastOf`, `LeastNumber`); `StepByStep` gives a function
that follows given steps, which is what a recursive definition is.

Only model-checked: all liveness (`EveryTerminalServed`, `VideoPageRecovers`,
`KeysServed`, `ClockRunsOn`, `ReadReturns`, `NobodyWaitsForEver` and the like),
which is out of the prover's reach.

## Disagreements found

With a run that exhibits them:

- `pm_background` (`syscalls.c:187`): `execute` takes the youngest process of
  `screen_terminal` for its caller. Called in the background it attaches the
  child to the wrong terminal, and the scheduler then resumes the wrong stack.
- `files_args` (`syscalls.c:127`): all processes share one buffer of arguments.

Found while modelling, without a run of their own:

- `halt` enables interrupts just before it loads the parent's `esp`
  (`syscalls.c:347`); a tick there overwrites it. The disciplined
  runs exclude it by name (`tick_in_halt`), `pm_any` includes it.
- `halt` closes the descriptors of the parent, to whom it has just given the
  terminal (`syscalls.c:330`); its own stay marked until the pid is used again.
  It is the one exception in `OpenFilesKept`.
- The frequency of a terminal can be replaced by another terminal's between its
  store and its use (`rtc.c:86-87`).
- A Backspace after Enter and before the reader's turn erases the newline and
  leaves `enter_flag` set (`terminal.c:169`): `terminal_read` then returns 0
  bytes, although it "Checks if the very last byte is the End of Line."
  (`terminal.c:88`). With `TypingAhead = TRUE` TLC shows it in six steps: Read,
  Enter, EOI, Backspace, EOI, ReadReturns. The key also moves the cursor to the
  end of the row before.
- Enter on a line that is entered and full writes behind the buffer
  (`terminal.c:188`). `TerminalInput` and `Screen` leave that key out.
- `system_vidmap` maps the screen also for a program in the background
  (`syscalls.c:505`, against `pit.c:85-90`), and `switch_screen` gives the
  running program the backup page of the terminal that leaves the screen,
  whoever runs (`keyboard.c:371`). Both last until the next tick, which is what
  `VideoPageRecovers` says.
- Releasing one of two Shift keys clears `shift_held` while the other is held
  (`keyboard.c:131`), and so do the two Ctrl and the two Alt keys with their
  flags; `lifted` names the case in `ModifiersFollowKeys`. The Shift codes that
  a keyboard puts around an extended key change `shift_held` like a key of the
  user's (`faked`).
- `memmove` leaves the direction flag set after a backward copy (`lib.c:470`),
  where compiled C expects it clear. No one calls `memmove`, and the functions of
  `lib.c` that move strings clear the flag first; `CLibrary` leaves it out.
- `typing_handler` uses `printed_char` uninitialised for scan codes outside the
  tables, key releases among them (`keyboard.c:201`, `keyboard.c:239`).
- The codes by which `F1` to `F3` are recognised are those of their release, so
  the display is switched when the key goes up.
- The clock runs at 8192 Hz (`rtc.c:54`) while `RTC_max_counter` is computed for
  1024 Hz.
- `dentry_counter` can be incremented from a stale value, so listings by several
  processes at once may skip or repeat entries (`file_sys.c:226`).
- Exceptions go through trap gates and print with interrupts enabled
  (`idt.c:94`): a tick, key or switch inside `putc` changes the page or the
  `terminal_flag` it goes on with. Entry 20 of the table is present without a
  handler (`idt.c:39`).
- A key pressed before `i8259_init` loses its edge, and the keyboard requests no
  interrupt again until it is read.
- `grep` reads the byte behind what it was given, at the end of a full buffer one
  that nothing has written.

## What is not modelled

- Programs that draw through `vidmap`, and the text of exceptions, which `putc`
  draws with interrupts enabled: `Screen` has the callers that disable them.
  `Interrupts` has exceptions as far as they enter, stay interruptible and halt.
- A shell that cannot be booted inside the scheduler, spurious interrupts and
  `disable_irq` (never called) in `Interrupts`. In `Keyboard` the `0xE0` before a
  code is a code of its own that may come or not, as the handler forgets it.
- The multiboot structure, GDT, LDT and TSS descriptors, port macros and device
  registers other than those named: set-up without later state. The kernel's tests
  and the debugging macros: not part of the running system.
- The write calls of files and directories, `terminal_open` and `terminal_close`,
  `terminal_read` with a bad pointer or size, and other calls refused without an
  effect: they change nothing.
- Requests of files for which offset + length reaches 2^32 (`file_sys.c:117`), and
  lines longer than grep's buffer.
- User programs other than grep: any call at any time stands for them.
- Parts are composed where they share state: `Paging` with `ProcessManager`,
  `FileDescriptors` with `Sessions`. `Rtc`, `TerminalInput` and `Screen` use of the
  scheduler only that `curr_terminal` moves round robin, and of the interrupts
  only what `Interrupts` shows; they are not one product.

## Plan

Done, in this order: `ProcessManager` and `Sessions`; `FileSystem` and
`FileDescriptors`; `Rtc`; `TerminalInput`; `Screen`; `Keyboard`; `Interrupts`;
`Paging` over `ProcessManager`; `CLibrary`, `UserPrograms` and `MCFunctions`;
proofs for every component with state, then for the pure functions.

Left:

1. `Screen` with programs that draw through `vid_map` (the pages are in `Paging`)
   and with exceptions, which take `putc` apart.
2. RTC descriptors in `FileDescriptors`, over what `Rtc` promises.
