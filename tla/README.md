# XiOS in TLA+

A verification project for the XiOS kernel (`src/student-distrib/`): TLA+
modules for the parts that carry its logic, TLC runs that check them on small
instances, and TLAPS proofs for every size. `src/spec/mp3.txt` is the course
document the kernel implements; where the kernel was found to depart from it, or
from its own comments, a run or one of the further configurations of section 3
shows it.

## 1. The system

XiOS is a Unix-like kernel for one x86 CPU. The system-call gate and the
hardware interrupts are *interrupt gates*: IF is clear while a handler runs, so
a handler is one atomic step unless it opens a window itself. Interrupts are
enabled only

* in user mode,
* in the idle loop that ends `kernel.c:entry()`,
* in the waiting loops of `keyboard_read` and `rtc_read` (`sti` around `schedule()`),
* in exception handlers, which are *trap gates* (`interrupt.c:35`),
* in `fdc_irq_wait` and in the last lines of `line_click` (`keyboard.c:1111`).

That list decides what a step is in every module below.

| Component | State | Operations | Meets | What makes it correct |
|---|---|---|---|---|
| Processes and scheduler (`task.c`, `pit.c`, `syscall.c`) | PCBs, run queue, `current_process`, CR3, `tss.esp0`, `process_in_terminal` | timer tick, execute, halt, exception, Start click, blocking read | everything | a program runs on its own pages and stack; everyone else can be resumed; a terminal has one foreground process; everyone gets a turn |
| Run queue (`task.c:261-406`) | `task_t` blocks with `next`, `prev`; `head`, `tail`, `num_tasks` | `add_process`, `close_process`, `next_task` | scheduler, allocator | it is a sequence |
| Allocator (`mem.c`) | two sorted region lists, 500 region records, the storage | `kmalloc`, `kfree` | task blocks, file names, terminals | no byte lost or shared; blocks are zeroed; NULL only if nothing fits |
| RTC (`rtc.c`) | hardware rate, tick count, users per rate | open, read, write, close, interrupt; halt leaves files open | file table, scheduler | users counted exactly; a read waits for a tick and returns |
| Line editor (`keyboard.c`) | `keyboard_buffer` with size and cursor, history, read buffer | keys, click, Tab, Enter, Up, Down | file system (names), allocator | it edits a line of text |
| Terminals (`keyboard.c`, `status.c`) | shown terminal, video memory, backing and scrollback pages, read flag | write, read, Alt+Fn, click, PgUp, PgDn | scheduler, line editor, vidmap | no screen is lost; a reader gets its own line |
| vidmap, paging (`paging.c`, `syscall.c:393`) | page directories and tables, `vidmap_flag`, the TLB | vidmap, remapping at a terminal switch, load of CR3 | scheduler, terminals | a program draws on the screen or on its own terminal's page |
| File table and file system calls (`syscall.c`) | eight descriptors per process | open, read, write, close | file system, RTC, terminals, sound | a descriptor stays the file it was opened for |
| File system, loader (`fs.c`, `task.c:36`) | read-only image | lookup, `read_data`, `file_read`, `directory_read`, `load_program` | file table, execute, Tab | the bytes of the file, in order, no more |
| Sound (`sb16.c`) | playback state, double buffer | play, pause, resume, stop, card interrupt | file table of the kernel process, scheduler | chunks are heard in order; the handler reads the file that plays |
| Floppy (`fdc.c`) | interrupt flag, motor state, DMA buffer | reset, calibrate, seek, read, write, interrupt | controller | the right bytes move, with the motor on and the heads in place; a call returns |
| Mouse, PIC, spin lock, library, shutdown, `efs.c` | | | | device I/O or output |

Components meet through calls, through shared globals (`current_process`,
`current_terminal`, `process_in_terminal`, `scrollback_offset`) and through two
subscriber lists (left clicks, attribute changes). What is hard to test is the
order in which interrupts meet these globals, and long legal sequences of
operations on hand-made data structures. PROJECT.json lists these hazards one
by one, with the property that would catch each.

## 2. Modules

| Module | Models | Kind |
|---|---|---|
| `QueueOps` | `Rotate`, `Without` on sequences | operators |
| `RunQueue` | the run queue as a sequence | abstract specification |
| `TaskQueue` | `task.c:261-406`, the linked list | implements `RunQueue` |
| `Sched` | `task.c`, execute, halt, exceptions, ticks, Start clicks | component; uses `QueueOps` |
| `SchedTrap` | `Sched` with the exception's halt in two steps | extends `Sched` |
| `Heap` | disjoint blocks of zeroed memory | abstract specification |
| `Kmalloc` | `mem.c` | implements `Heap` |
| `Rtc` | `rtc.c` | component |
| `LineText` | a line with a cursor, a log and completion | abstract specification |
| `LineEdit`, `MCLineEdit` | the line editor of `keyboard.c` | implements `LineText` |
| `Terminal` | pages, switching, `keyboard_read`, `keyboard_write` | component |
| `Vidmap` | `paging.c`, `syscall_vidmap`, the remapping of `switch_terminals`, the TLB | extends `Sched` |
| `FileTable` | a table of descriptors | operators |
| `Files`, `MCFiles` | `fs.c`, open, read, write, close, `load_program` | component; uses `FileTable` |
| `Sound`, `MCSound` | `sb16.c`, `soundctrl`, `shutdown`, the card | component; uses `FileTable` |
| `Disk` | a disk that is read and written by cylinders | abstract specification |
| `Fdc` | `fdc.c` and the floppy controller | implements `Disk` |
| `SequenceProofs` | lemmas on `QueueOps`, insertion, removal and slices of sequences | proofs |
| `KeyboardProofs` | `Terminal` and `LineEdit` | proofs |
| `TaskQueueProofs`, `KmallocProofs`, `FilesProofs`, `FdcProofs` | the module of that name | proofs |
| `SchedProofs` | `Sched` and `Vidmap` | proofs |
| `DriverProofs` | `Sound` and `Rtc` | proofs |

`Sched` uses the sequence operations that `RunQueue` is made of, and `TaskQueue`
shows that the pointers of `task.c` implement them: together they cover
the scheduler down to its pointers. `LineEdit` and `Terminal` split
`keyboard.c` in two: the first says what a line is, the second which terminal it belongs to and
when a process gets it. `Vidmap` composes the page tables with the whole of `Sched`: its
processes are `Sched`'s, and each of its steps is a step of `Sched` or leaves `Sched`'s state alone.

### Sched

The variables are the fields and globals of the same names. Added are `cpu`,
what the processor really executes, as opposed to what `current_process` says,
and `page_pid` and `esp0` for CR3 and the TSS. A context has a mode (where
interrupts are enabled), the program whose user registers it holds, and the
kernel stack its frames are on. `KernelEntry` takes the stack from `esp0` like
the hardware; `task_switch` and `halt` resume whatever context the PCB holds,
through `ret_addr`. Nothing in the model forces the right
context to be there. That is what the invariants say.

`execute` has its three outcomes: the program loads, it does not load (the PCB
has been written and the caller's pages loaded back), or there is no pid or terminal.
`schedule()` with no active task goes to the mode "spin", the endless loop of
`task.c:453-456`. A jump to an address that does not fit the mode is "dead".

Three specifications use these actions:

* `Spec`: Start clicks arrive in the idle loop, and the `syscall_halt` of an exception
  handler is one step. The safety results, checked and proved, are about `Spec`.
* `MouseSpec` adds Start clicks at any point where interrupts are enabled. It
  violates `RunsAsItself` (`SchedStart.cfg`).
* `TrapSpec` (`SchedTrap`) lets interrupts into the exception's halt. It violates
  `ParentKept` (run `sched_trap`).

So the theorems say that the scheduler is right apart from these two windows,
and the two configurations say that the windows are real.

### TaskQueue and RunQueue

`TaskQueue` has the record of the queue and one step per operation, pointer
assignments included; the abstract queue is read off by walking `next` from
`head` (`WalkOf`).

### Kmalloc and Heap

The lists are sequences of regions sorted by address, and one turn of
`kmalloc`'s loop is a step, because a turn may merge two neighbours even if the
request fails later. `dirty` is the set of bytes that are not zero. When the
region records run out, `fault` is set: the code reads through NULL there.

### Rtc

`freq_users` includes the memory behind the array, since `log2(1024)` returns
1024 and the code counts there. `desired_tics` is `rtc_read`'s local variable;
other processes change the rate while it waits. `Exit` is a halt, which closes
nothing; `abandoned` counts what is left behind. `Pow2` is C's `1 << i`.

### LineEdit and LineText

The keyboard buffer is an array whose zero bytes matter: each key edits the
array, the size and the cursor by its own loop. History entries and the read
buffer are strings, as `strncpy` pads them. `history_move` may go one past the
history; when that is also one past the array, the bytes found there are the
cursor coordinates of the terminal (`BehindHistory`). `strcmp` is the repository's: the
position where two strings differ, or -1. `fault` marks the two places where
`tab_complete` leaves its arrays; the model stops there. `Found` is the loop over the directory entries as a
recursive function, `Taken` one turn of it. Definitions that share a name with one of `Terminal` carry `Line` in theirs.

`line_click` divides the line into rows of the width of the first one. `LineFits` says when that is right: the line begins at the
margin, or it is shorter than two first rows. `LineSpec` is the editor with clicks on any line; `FittingSpec` is the
editor in which lines that do not fit may be typed and edited but are not clicked.

`LineText` is the promise: read() gets the line without its trailing blanks and with a line feed (mp3.txt:766), and
Up and Down show remembered lines, or an empty one below the newest. The code departs from it in two places, which
`LineEdit` names: `LineFeedLost` (`handle_enter` writes zeros over trailing blanks, so the line feed behind them is not
copied, `keyboard.c:504-522`) and `BehindHistoryShown` (Down on a full history shows the bytes behind it,
`keyboard.c:543`). `ImplementsLineText` says that every step is one of `LineText` or one of these two;
`KeepsToLineText`, without them, fails (`LineFeed.cfg`, `LineRecall.cfg`). What Tab does after a blank no document
says; `LineText` lets it yield any beginning of any name.

### Terminal

A page of text is opaque: where it began and how often it was written to. `video`
is what the screen shows, `page[t][0]` the backing page of `t` and `page[t][k]` its scrollback
pages. Scrolling changes every page of its terminal. Every copy between them is the `memcpy` of `map_backing_page`
or `unmap_backing_page`; `scrollback_offset` is one global and `video_memory` is per terminal,
as in the code. The history variable `text` counts what each page should hold. `keyboard_read` is
three steps after its first `schedule()`, because it tests its condition with
interrupts enabled. `ShellHalts` is the `clear()` of `syscall_halt` (`syscall.c:321-323`), which wipes whatever page is in
video memory. `Next` has it where no scrollback page is shown; `HaltSpec` has it anywhere and
violates `ScreenKept` (`TerminalHalt.cfg`): the page that was shown stays as it was, and the terminal's
own is not cleared.

### Vidmap

Of a process's tables only the entry for 256 MB matters: the directory entry, which names page table 0
or 1, and the first entry of each. `syscall_vidmap` maps through table 1; `switch_terminals`
maps through table 0 (`keyboard.c:937`, `:955`), so from then on the first 4 KB are mapped too, although
`paging.c:53` leaves them out. `PageOf` follows the directory. `Switched` is
the remapping of `switch_terminals`: first the foreground process of the terminal that is left, then the
one of the terminal that is shown, each only if its `vidmap_flag` is set. `tlb` is the translation the CPU has
cached; only a load of CR3 empties it. Tables outlive their process and its pid is
reused; `vidmap_flag`, which `new_process` clears, is all that keeps a new process from drawing on a stranger's
page. Blocking reads and faults of `Sched` are left out, since to the tables they are a tick and a halt.

### FileTable, Files

A descriptor is the operations it dispatches to, the inode and the position; a free one has no operations.
`CopyBlocks` is the loop of `read_data` as a recursive function. Lengths are compared
as unsigned numbers (`WordSize`), a block number out of range makes the whole read return -1, and
`file_read` adds that -1 to the position, as in the code. `load_program` compares the -1 as an unsigned
number too, which is why `IntactProgramWhole` speaks of undamaged files. One layout
is excluded by an assumption: a file whose length ends in the block behind the last one its
inode can name, for which `read_data` reads past the inode. A directory entry is a name and its size, the bytes up to the
next zero: a name of 32 bytes has none, and the copy runs on into the type field, which is zero only for the clock. `directory_read`
copies all of it whatever length it is given; `spilled` records that a read has written more than was asked for.

### Sound

A call of the driver is a function on the record of all it changes (`Here`), applied by `Become`. Files are
read through the kernel process's table, but `reset_playback` closes the descriptor in the table of
whichever process is current. The card plays the halves in turn and raises an interrupt after each; with
16-bit samples the count it was given covers both halves, so that it interrupts half as often. A half of the buffer is
known by the file and the position it was read from. Files may have a bad block (`bad`): a read that meets it copies
what is before it, returns -1 and moves the position by -1, at the start of the file to 2^32 - 1 (`PosAfter`). The
driver keeps that -1 in a `uint32_t`, where it is no short chunk (`Short`) and, cut to 16 bits, a count of both halves.
Positions count from the start of the data, with `HEADER` bytes before it. As in the code:
a descriptor of the kernel leaks whenever a playback ends while a program is current,
and for every file that is neither 8 nor 16 bits wide; mode bits are never cleared; after a file that ends in a
short chunk `current_block` is left at the second half and the card is started again (`sb16.c:546`); and the chunks
still in the buffer when the end of a file is found are zeroed before they are played.

### Fdc and Disk

`pc` is the function the driver is in and `step` whether it issues a command, waits in `fdc_irq_wait` or
reads the result. `chip`, `at`, `irq`, `disk` and `motor` are the hardware, as the driver uses it: a command is
issued, carried out or failed, and the result asked for. `fdc_interrupt_occurred` does not say which
command the interrupt was for, so an early or stray interrupt ends the next wait; what protects the data is that the driver
asks for the result afterwards. `ChipRefuses`, a write to a protected disk, sets "not writable" with or without the error code
of ST0: `fdc_check_error` tests that code first (`fdc.c:399`, `:453`), and with it the driver retries instead of giving up. `ChipFails` may leave the heads anywhere and a transfer half done.
`Disk` is what a caller may rely on: cylinders arrive whole and in order, other memory is untouched, and a call that
returns 0 has moved everything.

## 3. Runs

Twelve runs: ten passing, two that show a disagreement.

| Run | Instance | Checks |
|---|---|---|
| `sched` | 4 pids, 2 terminals, 2 shells | `TypeOK`, `RunsAsItself`, `ContextsKept`, `TerminalOwner`, `ParentWaits`, `RoundRobin` |
| `task_queue` | 5 task blocks | `TypeOK`, `ListOK`, `ImplementsRunQueue` |
| `kmalloc` | 8 bytes, sizes 1-3, 9 records, 3 blocks held | `TypeOK`, `Partition`, `FreeIsClean`, `FailsHonestly`, `ImplementsHeap` |
| `rtc` | rates to 8 Hz, 2 files, 5 ticks, 1 file left open | `TypeOK`, `UsersCounted`, `RateServesOpen`, `ReadReturns` |
| `line_edit` | lines of 3, history of 2, 5 names | `LineTypeOK`, `LineOK`, `ImplementsLineText` |
| `terminal` | 3 terminals, 2 with a process, 1 scrollback page | `TypeOK`, `ScreenKept`, `ReadReturns` |
| `vidmap` | as `sched`; pids 1 and 3 draw | `OwnPages`, `DrawsWhereShown`, `RemapTakesEffect` |
| `files` | 1 process, 4 descriptors, blocks of 2 bytes, 4 files | `ReadsInOrder`, `DirectoryInOrder`, `StandardKept`, `IntactProgramWhole`, `DescriptorsKept` |
| `sound` | 1 program and the kernel, chunks of 2 bytes, 7 files | `PlayingFileOpen`, `HeardInOrder`, `PlaybackEnds` |
| `fdc` | 3 cylinders of 2 bytes, 2 errors, 1 stray interrupt | `TypeOK`, `MotorFollows`, `TransferInPlace`, `DiskPromise`, `CallReturns` |
| `sched_trap` | as `sched`, 3 terminals | `ParentKept` fails: a tick in the halt of an exception handler overwrites the parent's context (`interrupt.c:37`) |
| `terminal_read` | 2 terminals, both with a process | `ReadsOwnTerminal` fails: Alt+Fn between test and copy makes a process take another terminal's line (`keyboard.c:682`) |

Fourteen more configurations show further places where the code departs from its comments or from mp3.txt. TLC
finds each property violated:

| Configuration, module | Property | What the code does |
|---|---|---|
| `SchedHang.cfg`, `Sched` | `ScheduleStops` | with only the idle task queued `schedule()` never returns: an unsigned counter is compared with 0 (`task.c:456`; `:450` means to limit the loop) |
| `SchedStart.cfg`, `Sched` | `RunsAsItself` | a Start click leaves the new shell's pages and kernel stack under the interrupted program (`task.c:222`) |
| `KmallocFault.cfg`, `Kmalloc` | `RecordsSuffice` | two sizes in turn, with two blocks held, fragment the free list until the region records are used up, and `add_region` reads through NULL (`mem.c:56`; `:41` promises a pointer or NULL) |
| `RtcRead.cfg`, `Rtc` | `ReadWaitsForTick` | `log2(1024)` is 1024: users of the top rate are not counted, the clock is slowed and their reads return at once (`rtc.c:221`) |
| `SoundClose.cfg`, `MCSound` | `UsersFilesKept` | the end of a playback closes a descriptor of the program that happens to run (`sb16.c:516`; `syscall.c:267` calls descriptors specific to the current process) |
| `VidmapHidden.cfg`, `Vidmap` | `HiddenHides` | a program that calls vidmap while hidden, or waited for a child during a switch, draws on another terminal's screen (`syscall.c:400`; mp3.txt:502) |
| `FilesDamaged.cfg`, `MCFiles` | `ProgramWhole` | a program with a bad block is started although only its header was read (`task.c:66`; `:64` says "ensure that all is read") |
| `FilesDirectory.cfg`, `MCFiles` | `NoMoreThanAsked` | a directory read copies the whole name into a buffer that is shorter (`fs.c:191`; `syscall.c:270` says "no more than nbytes will be written", mp3.txt:768 "as much as fits") |
| `LineFeed.cfg`, `MCLineEdit` | `KeepsToLineText` | Enter behind a trailing blank hands over the line without its line feed (`keyboard.c:512`; mp3.txt:766 "should include the line feed character") |
| `LineRecall.cfg`, `MCLineEdit` | `KeepsToLineText` | Down on a full history shows the bytes behind it (`keyboard.c:543`; `:537` speaks of the line at that offset in the history) |
| `TerminalHalt.cfg`, `Terminal` | `ScreenKept` | a shell that halts while a scrollback page is shown clears that page off the screen and leaves the terminal's own as it was (`syscall.c:321`) |
| `FdcProtected.cfg`, `Fdc` | `EveryCallReturns` | a write to a protected disk that the controller ends with an error code is retried for ever (`fdc.c:399`; `:454` gives up on a disk that is "not writable") |
| `SoundDamaged.cfg`, `MCSound` | `EveryPlaybackEnds` | a read that fails returns -1, which is no short chunk: a file with a bad block plays for ever (`sb16.c:529`) |
| `SoundRunsOn.cfg`, `MCSound` | `CardStops` | behind a short last chunk the auto-init transfer is started again, and the card plays zeros and interrupts for ever (`sb16.c:546`; `:534` says "stop playback after the current block") |

Each property of a passing run has a mutant in PROJECT.json: a plausible mistake in one
definition, with which TLC finds the property violated. The mutants are defined
next to the definition they replace.

**Why the bounds are enough.** `sched`: with two shells and one more pid, one
shell can wait for a child, the table runs out, terminals run out, and shells can
die and be restarted from the idle loop. Deeper nesting and more terminals repeat these cases, and the
theorems cover them. `task_queue`: removing a head, a tail and a
middle element among several, and all smaller queues. `kmalloc`: a hole of every size
between blocks, splits, exact fits, merges of two regions that leave a third, and records that run
out. `rtc`: the top rate, the rate below it, refused and accepted writes, and the two ways
for another user to change the rate during a read. `line_edit`: every cursor position in
lines of up to three characters, a full line, a history that shifts, words with one, several and no
matching names, and a line that wraps once. Lines are shorter than two first rows: on longer
ones `line_click` puts the cursor past the end of the line (`keyboard.c:1090-1107`), which TLC
shows in the same model with `NumCols` one less. `terminal`: a shown, a hidden and a processless terminal, each
scrolled or not when it is left; page versions modulo 2 distinguish a page from the one
before it. `vidmap`: a shell that draws, a child that draws, and a shell that does not, on
two terminals, with pid 3 reused on either terminal. `files`: blocks out of order, a file that fills its last block
and one that does not, one with a bad block, one too long; reads of 0, 1, 2, 3, 7 and -1 bytes
end before, at and behind the end of a block and of the file; two free descriptors run out. Names are 1 to 3 bytes long, so that some
of these lengths are too short. `WordSize` is 16. `sound`: files longer than the
buffer, shorter than a chunk, of 8, 16 and 24 bits, one that is no sound file, one with a bad block in its first chunk and
one with a bad block behind it; the kernel's two free descriptors run
out through the leak. `fdc`: calls of no byte, one and a half cylinders, the whole disk and more than the disk, on
protected and unprotected disks; two errors in any command, a stray interrupt at any point. Counters are bounded by `MaxTics`, `MaxAbandoned`, `MaxLive`, `MaxPos`, `MaxErrors`, `MaxStrays` and `Versions`, in the
guards or modulo.

`line_edit` switches deadlock checking off because the model stops at `fault`.

**Fairness.** `RoundRobin` assumes that the timer goes on ticking: the PIT is
programmed at boot and its interrupt is never masked again. It is conditional on
programs not being started for ever, because `add_process` puts new tasks at the *head* of the
queue (`task.c:274`): a loop of execute and halt in one terminal starves the others, although
mp3.txt:500 asks for time slices for every process. `Rtc!ReadReturns` assumes that the RTC
goes on interrupting and that a waiting read is polled; `Terminal!ReadReturns` that a waiting
reader is polled (both polls are turns that `RoundRobin` provides), that the user stays at its terminal and goes on pressing
Enter. `RemapTakesEffect` assumes the ticks of `RoundRobin` and, as its premise, a second active
task: with one alone nothing reloads CR3. `PlaybackEnds` assumes that the card plays on and that its interrupt is taken,
and excludes a paused playback and a file with a bad block. `CallReturns` assumes that the driver and the handler run and that the controller
ends what it begins; it is about calls other than writes to a protected disk, and its premise is that no stray interrupt arrives. With one, a wait for a seek
can end before the seek does, the driver issues the command again, and TLC finds this repeating for ever: every result
is asked for one command too early. No other fairness is assumed.

## 4. Proofs

| Theorem | Establishes |
|---|---|
| `SchedProofs!SchedInvariance` | `Spec => []SchedInv`, any number of processes, terminals, shells |
| `SchedTypeCorrect`, `ProgramsRunAsThemselves`, `ContextsAreKept`, `TerminalsHaveOneOwner`, `ParentsWaitForOneChild` | the five safety properties of run `sched` |
| `TaskQueueProofs!ListInvariance` | the links, the count and the allocated blocks stay consistent, for any set of blocks |
| `TaskQueueProofs!ListImplementsQueue` | the refinement `ImplementsRunQueue` |
| `KeyboardProofs!TerminalInvariance` | `Spec => []TerminalInv`, any number of terminals, processes, scrollback pages |
| `KeyboardProofs!ScreensAreKept` | `ScreenKept` |
| `KeyboardProofs!LineTypes`, `LineSafe` | `LineTypeOK` and `LineOK` of `FittingSpec`, any buffer, history, screen width and file names |
| `KeyboardProofs!LineIsText` | the refinement `ImplementsLineText`, of `FittingSpec`: a step of `LineText` or one of the two named departures |
| `KeyboardProofs!WholeEditor` | all three of `LineSpec`, as long as `LineFits` |
| `TaskQueueProofs!ListTypeCorrect`, `KeyboardProofs!TerminalTypeCorrect` | `TypeOK` of the two modules |
| `SchedProofs!VidmapInvariance` | `VidmapSpec => []VidmapInv`, any number of processes, terminals, shells, drawers |
| `DrawersKeepToTheirPages`, `CarefulDrawersDrawWhereShown` | `OwnPages`, `DrawsWhereShown` |
| `KmallocProofs!KmallocTypeCorrect`, `MemoryIsPartitioned`, `FreeMemoryIsClean` | `TypeOK`, `Partition`, `FreeIsClean`, any storage, records and requests |
| `KmallocProofs!NullIsHonest` | the action property `FailsHonestly` |
| `KmallocProofs!KmallocImplementsHeap` | the refinement `ImplementsHeap` |
| `FilesProofs!StandardDescriptorsAreKept` | `StandardKept`, any image, any size of the table |
| `FilesProofs!ReadsReturnTheFile`, `DirectoryIsListedInOrder` | `ReadsInOrder`, `DirectoryInOrder` |
| `FilesProofs!DescriptorsAreKept` | the action property `DescriptorsKept` |
| `FilesProofs!UndamagedProgramsAreLoadedWhole` | `IntactProgramWhole` |
| `FdcProofs!FdcInvariance` | `Spec => []FdcInv`, any disk, any number of errors and stray interrupts |
| `FdcProofs!FdcTypeCorrect`, `MotorIsOnWhenNeeded`, `TransfersAreInPlace` | `TypeOK`, `MotorFollows`, `TransferInPlace` |
| `FdcProofs!FdcImplementsDisk` | the refinement `DiskPromise` |
| `DriverProofs!SoundInvariance` | `Spec => []SoundInv`, any sound files, programs, size of the buffer |
| `DriverProofs!PlayedFileStaysOpen`, `SoundIsHeardInOrder` | `PlayingFileOpen`, `HeardInOrder` |
| `DriverProofs!RtcTypeCorrect`, `RtcUsersAreCounted` | `Rtc`'s `TypeOK` and `UsersCounted`, any rates, files and inputs |
| `DriverProofs!RtcServesItsUsers` | `Rtc`'s action property `RateServesOpen` |

Assumptions are the named `ASSUME`s of the modules: `SchedConstants` (at least one
shell, and a terminal and a pid for each, next to the kernel's), `TaskQueueConstants` (NULL is no task),
`TerminalConstants`, `LineConstants` (no letter is the zero byte, a blank or a line feed; a line holds
at least the two coordinates behind the history; names are distinct and not empty), `VidmapConstants` (the kernel process draws nothing), `KmallocConstants`, `FdcConstants` (a disk is whole cylinders),
`FileTableConstants` (room for the two standard descriptors), `FilesConstants`, `ImageConstants` (the image's directory names inodes, a
length is a signed 32-bit number, a block has `BLOCK_SIZE` bytes) and `NoLengthBehindInode` (section 2), `SoundConstants` and `RtcConstants`
(the highest rate is more than 2 Hz, the descriptors are finitely many).

**Scheduler.** The properties are not inductive one by one. That the parent's context is the one
`execute()` saved needs that the parent is idle while its child lives
(or a tick would save over it), that it has one child (or two halts would use the
context), that children are on their parent's terminal, and that the queue has every live task
once. `SchedInv` is the conjunction: `TypeOK`, `QueueOK` (a queue without
repetitions that holds the kernel task), `TreeOK` (the kernel process is the root, and every other process has a live parent and a
terminal, so a fresh pid, one above the largest, has no children), `CurrentOK` (the CPU runs what
`current_process`, CR3 and `esp0` say), `ContextsKept`, `TerminalOwner`, `ParentWaits`. There is one
lemma per action. `SequenceProofs` has the facts about rotating a sequence,
pushing and removing that the steps cite.

**Run queue.** `ListOK` says that some sequence without repetitions is
represented by the links. Each operation is shown to turn a representation of a sequence
into one of the sequence the abstract operation yields (`ListSimulatesQueue`). For the refinement the walk has to be that
sequence at all times: the walk is a recursive function, so `WalkIsQueue` shows that the represented sequence satisfies its equation, and that any
solution agrees with it up to the least place at which it would not.

**Terminals.** `ScreenKept` is not inductive: `PgUp` saves the shown page only if
`scrollback_offset` is 0, and a click on the status bar can leave it non-zero
on a terminal that is not scrolled. `ScrollbackOK` is what saves it: in that state
the shown page equals its backing page, because everything that writes to
the screen resets the offset first.

**Line editor.** `LineTypeOK` and `LineOK` together are inductive (`LineInv`), and under them the string in the buffer, the used part of the
history and the read buffer are a state of `LineText`. There is one lemma per key: the loop leaves an array that holds a text
(`HoldsText`), and that text is, character by character, the one that `LineText` asks for. Enter needs where the trailing blanks begin
(`LastInkFacts`; what is handed over is the line with its line feed or, `LineFeedLost`, the line up to the blanks, `DeliveredIs`) and that the shifted array is the tail of the longer log (`AddToHistoryIs`). For Tab the invariant of the loop is
`Narrow`: after *k* entries `cmd` is empty, or the only match with a blank behind it, or the longest string that all matches
begin with, where two of them end or part. It is carried through the loop by a least counterexample, and
`LongestIs` identifies it with `LongestCommonPrefix`. A length of -1 or a line that is too long is the fault, in which
the line of text does not change. A click is where the theorem is conditional: `ClickPlace` is the arithmetic of rows, and
fails for lines that do not fit. No constant excludes these, since `BUFFER_SIZE` is most of a screen.

**Page tables.** `VidmapInv` adds to `SchedInv` that the kernel process has no `vidmap_flag`
and that a process that called vidmap while shown and has run nothing since is active. The latter with `TerminalOwner`
makes it the process that `switch_terminals` finds in its terminal, so that every switch that concerns it
reaches it. `SchedInv` itself is kept because every step is a step of `Sched` (`SchedProofs!NextInv`); what is proved
anew is the tables, through one lemma on what a switch leaves in them (`SwitchedFacts`).

**Allocator.** All is said about the set of bytes a list covers. Adding a region to a sorted list adds its bytes,
removing and trimming take them away, and merging two neighbours leaves them; each keeps the list sorted, because the regions are disjoint. So the
two lists cover the storage exactly before and after every step. `FailsHonestly` and the refinement need `CallOK`
besides: during a search every region behind the place it has come to is too small, and if it has merged nothing then no two of them
could have been merged.

**Files.** `CopyBlocks` is a recursive function, which the provers know only as *some* function that satisfies its equation.
`CopyBlocksFacts` therefore exhibits a solution (the bytes of the file, cut where the read ends), and shows that any solution
agrees with it, by taking the least place at which it does not. `ReadDataFacts` draws from it what one read returns. The
invariant is about single descriptors: `EntryOK` says that what was read through an undamaged file is the file up to
the descriptor's position. That `find_new_fd` returns a free descriptor is the least-number principle on the table, and
that the standard descriptors stay is `TablesOK`. What a directory has given is its entries up to the position, whatever lengths
were asked for.

**Floppy.** `MotorFollows` and `TransferInPlace` need each other's ground: the motor may be turned off only where
no command is under way (`ChipAt`), and it is known to turn where one is issued (`MotorAt`). The heads
are in place for a transfer because `fdc_seek` goes on only after a result that reports the cylinder, and nothing is
left of the seeks that could still move them. For the refinement `DiskInv` adds where a call is (`CallAt`: as long as bytes are left, its
position is the beginning of its cylinder) and where the bytes are (`BytesAt`: what is to be written stays in the DMA buffer through
seeks, resets and retries, and after a transfer that succeeded the buffer and the cylinder agree). Then every step of the driver or the
controller is a stutter of `Disk`, except the one that accepts a result, which moves a cylinder, and the ends of calls.

**Sound.** `HeardInOrder` speaks of one half of the buffer, and the half is right only if the other one is about to be. `InStep` says where
the three parties are when chunk *k* is due: between interrupts the card is at half `current_block`, the other half holds *k*+1 and the file is
read up to *k*+2; while an interrupt is pending the card has gone on, and the file is read up to *k*+1. The card's step and the handler's step
turn one of the two pictures into the other. Of a file with a bad block only the descriptor is proved to stay. A program cannot disturb them because its own table is not the kernel's.

**Clock.** `TypeOK` and `UsersCounted` are inductive together: a counter can be counted down because the file being closed is one
of those it counts. The step from sets to numbers is the cardinality of a set with one element more or
less. `RateServesOpen` needs besides that `1 << i` grows with *i*; `Pow2` is shown to exist by the sequence of its finite beginnings (`Pow2Facts`).

**Only model-checked.** Liveness (`RoundRobin`, both `ReadReturns`, `RemapTakesEffect`, `PlaybackEnds`, `CallReturns`), which the prover does not
handle. Every other property of a passing run is the subject of a theorem. Clicks on lines that do not fit are outside
the line editor's theorems, because there `line_click` breaks `LineOK` (section 3).

## 5. Not modelled

* *Physical memory layout*: images of pids 47 to 52 lie where `kmalloc`'s storage is (`task.c:258`), and backing pages are
  not page-aligned while `set_pte` drops the low bits (`keyboard.c:935`). `Vidmap` treats a page as a whole, and gives a
  terminal one such page: when a terminal is left scrolled back, `keyboard.c:935` maps the scrollback page that
  `video_memory` names (`keyboard.c:1075`), still a page of that terminal.
* *A shell that does not load*: `kernel_spawn` would return with `current_process` at the kernel process (`task.c:214-218`). The image
  is read-only and boot has loaded the same program from it, so a Start click finds it again; what fails there is
  only that no pid or terminal is left, which `Sched` has.
* *`kfree` interrupted* in the halt of an exception handler (`mem.c:82`): `SchedTrap` has the window, `Kmalloc` the lists,
  no module both.
* *Tab completion past its arrays* (`keyboard.c:631`, `:653`): `LineEdit` marks the fault and stops.
* *Sound*: volume, sample rate and DMA ports; that 16-bit samples arrive in halves of their own; the length of a last
  chunk and of a count of 65535, which are taken as whole halves. A file too long for its inode fails in the header, like one
  that is no sound file.
* *Mouse*: clicks are inputs of `Sched`, `LineEdit`, `Terminal` and `Vidmap`; the packet protocol
  is device I/O. The `sti` in `line_click` is a listed hazard.
* *Cursor and coordinates*, colours, formatting and kernel messages: output only.
  The exception handlers clear the shown screen and print on it (`lib.c:748-873`); `Terminal` has no action for
  them, only for the `clear()` of `syscall_halt`.
* *Spin lock*: with one CPU and interrupts off it is never contended in the modelled steps.
* *PIC, boot, power off*: one-off port I/O. `efs.c` is unfinished and unused.
* *User programs*: `Sched` lets a program make any system call, or fault, at any time.

## 6. Plan

1. `Kmalloc` composed with the exception's halt: `kfree` interrupted between `remove` and `add_region`.
2. The mouse handler with the interrupts that `line_click` lets in.
