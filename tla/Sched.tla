------------------------------- MODULE Sched -------------------------------
(***************************************************************************)
(* Processes, the run queue and the context switch of the XiOS kernel      *)
(* (student-distrib/task.c, syscall.c, pit.c, with the parts of kernel.c,  *)
(* lib.c, status.c and keyboard.c that start, stop or switch processes).   *)
(*                                                                         *)
(* The machine has one CPU.  Interrupt and system-call gates clear IF, so  *)
(* a handler is one step.  A step can begin only where IF is set:          *)
(*   "user"    the user program runs;                                      *)
(*   "wait"    a read() spins in `while (..) { cli; schedule; sti; }';     *)
(*   "except"  an exception handler prints its message (trap gate);        *)
(*   "hlt"     the idle loop that ends kernel.c:entry().                   *)
(* In "spin" schedule() loops for ever with IF clear; "dead" is a jump to  *)
(* an address that is not mapped for the mode, or a failed assert.         *)
(*                                                                         *)
(* A context abstracts registers_t and the stack it points into: whose     *)
(* program the user registers belong to, whose kernel stack holds the      *)
(* kernel frames, and where execution continues.                           *)
(***************************************************************************)
EXTENDS QueueOps, FiniteSets

CONSTANTS
    MaxProcesses,   \* task.h MAX_PROCESSES; pid 0 is the kernel's own
    NumTerminals,   \* keyboard.h NUM_TERMINALS
    NumShells       \* shells started by kernel.c:255

ASSUME SchedConstants ==
    /\ NumShells \in Nat \ {0}
    /\ NumTerminals \in Nat /\ NumShells <= NumTerminals
    /\ MaxProcesses \in Nat /\ NumShells < MaxProcesses

NULL      == -1
KernelPid == 0
Pids      == 0 .. MaxProcesses - 1
Terminals == 0 .. NumTerminals - 1

VARIABLES
    runqueue,             \* pids of the queued tasks, head first
    status,               \* task_t.status of a queued pid
    parent, terminal,     \* process_t.parent, process_t.terminal
    ret_addr,             \* process_t.ret_addr: where a resume continues
    registers,            \* process_t.registers: the saved context
    current_process,      \* the kernel's idea of who runs
    page_pid, esp0,       \* pid whose page directory is in CR3; TSS stack
    cpu,                  \* the context the CPU is really executing
    process_in_terminal,  \* per terminal: its foreground process
    current_terminal      \* the terminal on the screen

queueVars == <<runqueue, status>>
pcbVars   == <<parent, terminal, ret_addr, registers>>
cpuVars   == <<current_process, page_pid, esp0, cpu>>
termVars  == <<process_in_terminal, current_terminal>>
vars      == <<queueVars, pcbVars, cpuVars, termVars>>

Modes    == {"user", "wait", "except", "hlt", "spin", "dead", "none"}
RetAddrs == {"none", "start", "task_switch_back", "syscall_restore_regs"}
Context  == [mode : Modes, user : Pids \cup {NULL}, stack : Pids \cup {NULL}]

NoContext == [mode |-> "none", user |-> NULL, stack |-> NULL]
Dead      == [mode |-> "dead", user |-> NULL, stack |-> NULL]

\* PUSH_USER, PUSH_RETURN_ADDRESS, iret: start p's program on an empty kernel stack.
UserEntry(p) == [mode |-> "user", user |-> p, stack |-> NULL]

\* The context once a gate is entered: from user mode the CPU takes the stack in tss.esp0.
KernelEntry == IF cpu.mode = "user" THEN [cpu EXCEPT !.stack = esp0] ELSE cpu

\* restore_regs and the return through the handler: back in user mode the kernel stack is empty.
Resumed(ctx) == IF ctx.mode = "user" THEN [ctx EXCEPT !.stack = NULL] ELSE ctx

Live == {runqueue[i] : i \in DOMAIN runqueue}

InterruptsEnabled == cpu.mode \notin {"spin", "dead"}

-----------------------------------------------------------------------------
(* The run queue: Rotate and Without of QueueOps are its operations.        *)

Active(p) == status[p] = "TaskActive"

\* How many next_task() calls schedule() makes before it meets an active task.
IsFirstActive(k) ==
    /\ k \in DOMAIN runqueue
    /\ Active(runqueue[k])
    /\ \A i \in 1 .. k - 1 : ~Active(runqueue[i])

-----------------------------------------------------------------------------
(* Context switch.                                                         *)

\* MUTANT of SetCurrentProcess: tss.esp0 keeps the previous process's stack.
SetCurrentProcessOldStack(p) ==
    /\ current_process' = p
    /\ page_pid' = p
    /\ UNCHANGED esp0

\* set_current_process: current_process, CR3 and tss.esp0 change together.
SetCurrentProcess(p) ==
    /\ current_process' = p
    /\ page_pid' = p
    /\ esp0' = p

\* MUTANT of SaveContext: the return address is not recorded.
SaveContextOnly(ctx) ==
    /\ registers' = [registers EXCEPT ![current_process] = ctx]
    /\ UNCHANGED ret_addr

SaveContext(ctx) ==
    /\ registers' = [registers EXCEPT ![current_process] = ctx]
    /\ ret_addr' = [ret_addr EXCEPT ![current_process] = "task_switch_back"]

\* task_switch: save the outgoing context and resume `to' where it stopped.
\* An address that is neither a fresh entry point nor task_switch_back is a
\* kernel address entered with user privileges.
TaskSwitch(to, ctx) ==
    /\ SaveContext(ctx)
    /\ SetCurrentProcess(to)
    /\ cpu' = CASE ret_addr[to] = "task_switch_back" -> Resumed(registers[to])
                [] ret_addr[to] = "start"            -> UserEntry(to)
                [] OTHER                             -> Dead

\* schedule: rotate to the first active task.  tasks_remaining is unsigned, so
\* with no active task the loop never ends.
Schedule(ctx) ==
    \/ \E k \in DOMAIN runqueue :
          /\ IsFirstActive(k)
          /\ runqueue' = Rotate(runqueue, k)
          /\ IF runqueue[k] = current_process
             THEN /\ cpu' = Resumed(ctx)
                  /\ UNCHANGED <<registers, ret_addr, current_process, page_pid, esp0>>
             ELSE TaskSwitch(runqueue[k], ctx)
    \/ /\ \A i \in DOMAIN runqueue : ~Active(runqueue[i])
       /\ cpu' = [ctx EXCEPT !.mode = "spin"]
       /\ UNCHANGED <<runqueue, registers, ret_addr, current_process, page_pid, esp0>>

\* One more turn of schedule()'s loop once it cannot end.
Spin ==
    /\ cpu.mode = "spin"
    /\ runqueue' = Rotate(runqueue, 1)
    /\ UNCHANGED <<status, pcbVars, cpuVars, termVars>>

\* pit_handler: a timer tick wherever interrupts are enabled.
PitHandler ==
    /\ InterruptsEnabled
    /\ Schedule(KernelEntry)
    /\ UNCHANGED <<status, parent, terminal, termVars>>

\* keyboard_read and rtc_read while their condition is false: yield and poll again.
ReadWait ==
    /\ cpu.mode \in {"user", "wait"}
    /\ Schedule([KernelEntry EXCEPT !.mode = "wait"])
    /\ UNCHANGED <<status, parent, terminal, termVars>>

\* The condition holds: read() returns to the user program.
ReadDone ==
    /\ cpu.mode = "wait"
    /\ cpu' = Resumed([cpu EXCEPT !.mode = "user"])
    /\ UNCHANGED <<queueVars, pcbVars, current_process, page_pid, esp0, termVars>>

-----------------------------------------------------------------------------
(* Process creation.                                                       *)

\* MUTANT of PidAvailable: the bound of new_process is off by one.
PidAvailableLate(n) == n <= MaxProcesses

PidAvailable(n) == n < MaxProcesses

IsMaxPid(n) == n \in Live /\ \A p \in Live : p <= n

\* new_terminal: the first terminal without a process of its own.
IsFree(t) == process_in_terminal[t] \in {NULL, KernelPid}

NewTerminal(t) ==
    IF \E u \in Terminals : IsFree(u)
    THEN t \in Terminals /\ IsFree(t) /\ \A u \in 0 .. t - 1 : ~IsFree(u)
    ELSE t = NULL

\* new_process, called on behalf of `par', finds pid n and terminal t (or none).
\* Both searches come before the caller commits to anything.
NewProcess(par, n, t) ==
    /\ IsMaxPid(n - 1)
    /\ IF terminal[par] = NULL THEN NewTerminal(t) ELSE t = terminal[par]

\* What new_process stores in the PCB and shows on the screen.
InitPcb(par, n, t) ==
    /\ parent' = [parent EXCEPT ![n] = par]
    /\ terminal' = [terminal EXCEPT ![n] = t]
    /\ current_terminal' = IF terminal[par] = NULL /\ t # NULL
                           THEN t ELSE current_terminal

\* new_process returns NULL: without a pid it has written nothing, without a terminal it
\* has begun the PCB.
NoNewProcess(par, n, t) ==
    /\ ~PidAvailable(n) \/ t = NULL
    /\ IF PidAvailable(n)
       THEN InitPcb(par, n, t)
       ELSE UNCHANGED <<parent, terminal, current_terminal>>

\* MUTANT of AddProcess: activate_task() does not claim the terminal.
AddProcessUnclaimed(n, t) ==
    /\ runqueue' = <<n>> \o runqueue
    /\ UNCHANGED process_in_terminal

\* add_process: the new task is active, at the head of the queue, and owns its terminal.
AddProcess(n, t) ==
    /\ runqueue' = <<n>> \o runqueue
    /\ process_in_terminal' = [process_in_terminal EXCEPT ![t] = n]

\* syscall_execute of a program that loads: the caller idles until its child halts.
ExecuteLoads(n, t) ==
    /\ PidAvailable(n) /\ t # NULL
    /\ InitPcb(current_process, n, t)
    /\ AddProcess(n, t)
    /\ status' = [status EXCEPT ![n] = "TaskActive", ![current_process] = "TaskIdle"]
    /\ registers' = [registers EXCEPT ![current_process] = KernelEntry]
    /\ ret_addr' = [ret_addr EXCEPT ![current_process] = "syscall_restore_regs"]
    /\ SetCurrentProcess(n)
    /\ cpu' = UserEntry(n)

\* syscall_execute returns -1: the program does not load.  The PCB was
\* initialised and the caller's pages loaded back.
ExecuteBadProgram(n, t) ==
    /\ PidAvailable(n) /\ t # NULL
    /\ InitPcb(current_process, n, t)
    /\ registers' = [registers EXCEPT ![current_process] = KernelEntry]
    /\ page_pid' = current_process
    /\ UNCHANGED <<queueVars, ret_addr, current_process, esp0, cpu, process_in_terminal>>

\* syscall_execute returns -1: new_process found no pid, or no terminal.
ExecuteNoProcess(n, t) ==
    /\ NoNewProcess(current_process, n, t)
    /\ registers' = [registers EXCEPT ![current_process] = KernelEntry]
    /\ UNCHANGED <<queueVars, ret_addr, cpuVars, process_in_terminal>>

Execute ==
    /\ cpu.mode = "user"
    /\ \E n \in 1 .. MaxProcesses, t \in Terminals \cup {NULL} :
          /\ NewProcess(current_process, n, t)
          /\ \/ ExecuteLoads(n, t)
             \/ ExecuteBadProgram(n, t)
             \/ ExecuteNoProcess(n, t)

\* kernel_spawn("shell"), run by the boot code or by a click on the Start
\* segment: the shell becomes a child of the kernel process and runs later.
\* Of what set_current_process(shell) changed, only current_process is put back.
SpawnShell(n, t) ==
    /\ PidAvailable(n) /\ t # NULL
    /\ InitPcb(KernelPid, n, t)
    /\ AddProcess(n, t)
    /\ status' = [status EXCEPT ![n] = "TaskActive"]
    /\ registers' = [registers EXCEPT ![n] = KernelEntry]
    /\ ret_addr' = [ret_addr EXCEPT ![n] = "start"]
    /\ page_pid' = n
    /\ esp0' = n
    /\ UNCHANGED <<current_process, cpu>>

\* No pid or no terminal: kernel_spawn returns with current_process = kernel_proc.
SpawnNoProcess(n, t) ==
    /\ NoNewProcess(KernelPid, n, t)
    /\ current_process' = KernelPid
    /\ UNCHANGED <<queueVars, registers, ret_addr, page_pid, esp0, cpu, process_in_terminal>>

KernelSpawn ==
    \E n \in 1 .. MaxProcesses, t \in Terminals \cup {NULL} :
       /\ NewProcess(KernelPid, n, t)
       /\ SpawnShell(n, t) \/ SpawnNoProcess(n, t)

\* status_click on the Start segment while the idle loop runs.
StartClickIdle == cpu.mode = "hlt" /\ KernelSpawn

-----------------------------------------------------------------------------
(* Process exit.                                                           *)

\* The last lines of syscall_halt: `old' leaves the queue and execution
\* continues at `ret' with the parent's saved registers.
HaltFinish(old, ret) ==
    LET par       == parent[old]
        reclaimed == IF par = KernelPid
                     THEN [process_in_terminal EXCEPT ![terminal[old]] = par]
                     ELSE process_in_terminal
        returns   == ret = "syscall_restore_regs"     \* to the parent's execute()
    IN
    /\ runqueue' = Without(runqueue, old)
    /\ status' = IF returns THEN [status EXCEPT ![par] = "TaskActive"] ELSE status
    /\ process_in_terminal' = IF returns /\ terminal[par] # NULL
                              THEN [reclaimed EXCEPT ![terminal[par]] = par]
                              ELSE reclaimed
    /\ cpu' = IF returns \/ ret = "task_switch_back" THEN Resumed(registers[par]) ELSE Dead
    /\ UNCHANGED <<pcbVars, current_terminal>>

\* syscall_halt, whole.  The kernel process has no parent: the assert fails.
SyscallHalt ==
    LET old == current_process IN
    IF parent[old] = NULL
    THEN /\ cpu' = Dead
         /\ UNCHANGED <<queueVars, pcbVars, current_process, page_pid, esp0, termVars>>
    ELSE /\ SetCurrentProcess(parent[old])
         /\ HaltFinish(old, ret_addr[parent[old]])

\* The halt system call.
Halt == cpu.mode = "user" /\ SyscallHalt

\* A user program faults: the handler runs on the kernel stack, interrupts enabled.
Exception ==
    /\ cpu.mode = "user"
    /\ cpu' = [KernelEntry EXCEPT !.mode = "except"]
    /\ UNCHANGED <<queueVars, pcbVars, current_process, page_pid, esp0, termVars>>

\* The handler ends by calling syscall_halt(-1).
ExceptionHalt == cpu.mode = "except" /\ SyscallHalt

\* Alt+F1..F7 or a click on a terminal's segment: another terminal is shown.
SwitchTerminals(t) ==
    /\ InterruptsEnabled
    /\ current_terminal' = t
    /\ UNCHANGED <<queueVars, pcbVars, cpuVars, process_in_terminal>>

-----------------------------------------------------------------------------
\* The machine when entry() reaches its idle loop: NumShells shells have been
\* spawned, the last one's pages and kernel stack are still loaded.
Init ==
    /\ runqueue = [i \in 1 .. NumShells + 1 |-> NumShells + 1 - i]
    /\ status = [p \in Pids |-> IF p \in 1 .. NumShells THEN "TaskActive" ELSE "TaskIdle"]
    /\ parent = [p \in Pids |-> IF p \in 1 .. NumShells THEN KernelPid ELSE NULL]
    /\ terminal = [p \in Pids |-> IF p \in 1 .. NumShells THEN p - 1 ELSE NULL]
    /\ ret_addr = [p \in Pids |-> IF p \in 1 .. NumShells THEN "start" ELSE "none"]
    /\ cpu = [mode |-> "hlt", user |-> KernelPid, stack |-> KernelPid]
    /\ registers = [p \in Pids |-> IF p \in 1 .. NumShells THEN cpu ELSE NoContext]
    /\ current_process = KernelPid
    /\ page_pid = NumShells
    /\ esp0 = NumShells
    /\ process_in_terminal = [t \in Terminals |-> IF t < NumShells THEN t + 1 ELSE NULL]
    /\ current_terminal = 0

Next ==
    \/ PitHandler
    \/ Spin
    \/ ReadWait
    \/ ReadDone
    \/ Execute
    \/ Halt
    \/ Exception
    \/ ExceptionHalt
    \/ StartClickIdle
    \/ \E t \in Terminals : SwitchTerminals(t)

Spec == Init /\ [][Next]_vars

\* status_click on the Start segment wherever the mouse interrupt is taken.
StartClick == InterruptsEnabled /\ KernelSpawn
MouseSpec  == Init /\ [][Next \/ StartClick]_vars

\* The PIT is programmed once at boot and keeps ticking.
FairSpec == Spec /\ WF_vars(PitHandler)

-----------------------------------------------------------------------------
(* Properties.                                                             *)

TypeOK ==
    /\ runqueue \in Seq(Pids)
    /\ status \in [Pids -> {"TaskActive", "TaskIdle"}]
    /\ parent \in [Pids -> Pids \cup {NULL}]
    /\ terminal \in [Pids -> Terminals \cup {NULL}]
    /\ ret_addr \in [Pids -> RetAddrs]
    /\ registers \in [Pids -> Context]
    /\ current_process \in Pids
    /\ page_pid \in Pids
    /\ esp0 \in Pids
    /\ cpu \in Context
    /\ process_in_terminal \in [Terminals -> Pids \cup {NULL}]
    /\ current_terminal \in Terminals

\* While a program, one of its system calls or its exception handler executes,
\* current_process, the loaded page directory and tss.esp0 are all that program's own
\* (set_current_process) and its kernel frames are on its own kernel stack; the idle loop
\* runs as the kernel process; and no jump has gone to an address that does not fit.
RunsAsItself ==
    /\ cpu.mode \in {"user", "wait", "except"} =>
        /\ current_process = cpu.user /\ page_pid = cpu.user /\ esp0 = cpu.user
        /\ cpu.user \in Live \ {KernelPid}
        /\ cpu.mode # "user" => cpu.stack = cpu.user
    /\ cpu.mode \in {"hlt", "spin"} => current_process = KernelPid
    /\ cpu.mode # "dead"

\* p's saved registers are p's own, on p's own kernel stack.
OwnContext(p) == registers[p].user = p /\ registers[p].stack = p

\* A process that waits in execute() keeps the context execute() saved, and the return
\* address that matches it, until its child has halted: the child's halt is the only way back.
ParentKept ==
    \A q \in Live \ {KernelPid, current_process} : ~Active(q) =>
        /\ ret_addr[q] = "syscall_restore_regs"
        /\ OwnContext(q) /\ registers[q].mode = "user"

\* Every process that is not running can be resumed as itself: besides the waiting
\* parents, each task that schedule() may pick either starts afresh or was saved by
\* task_switch, and so was the kernel's idle loop once a shell has run.
ContextsKept ==
    /\ ParentKept
    /\ \A p \in Live \ {KernelPid, current_process} : Active(p) =>
          \/ ret_addr[p] = "start"
          \/ /\ ret_addr[p] = "task_switch_back"
             /\ OwnContext(p) /\ registers[p].mode \in {"user", "wait", "except"}
    /\ current_process # KernelPid =>
          /\ ret_addr[KernelPid] = "task_switch_back"
          /\ OwnContext(KernelPid) /\ registers[KernelPid].mode = "hlt"

\* Every terminal has at most one active process, and process_in_terminal names it:
\* keystrokes and vidmap remapping go to a live foreground process.
TerminalOwner ==
    /\ \A p \in Live \ {KernelPid} : Active(p) =>
           process_in_terminal[terminal[p]] = p
    /\ \A t \in Terminals : ~IsFree(t) =>
           /\ process_in_terminal[t] \in Live
           /\ Active(process_in_terminal[t])
           /\ terminal[process_in_terminal[t]] = t

\* An idle process is waiting for exactly one child, which shares its terminal,
\* and an active one has none: no shell is left waiting for nobody, and none has two
\* programs that would both return into the one context it saved.
ParentWaits ==
    \A q \in Live \ {KernelPid} :
        IF Active(q)
        THEN \A p \in Live : parent[p] # q
        ELSE \E p \in Live : /\ terminal[p] = terminal[q]
                            /\ \A r \in Live : parent[r] = q <=> r = p

\* Every active task is given the CPU again and again (mp3.txt:499 "switch to the
\* next task in a round-robin fashion").
GetsCpu == \A p \in Pids \ {KernelPid} :
              (p \in Live /\ Active(p)) ~> (current_process = p \/ p \notin Live \/ ~Active(p))

\* From some point on no program is started.
FiniteStarts == <>[][\A p \in Pids : p \in Live' => p \in Live]_vars

\* Every active task is given the CPU again and again, provided programs are not started
\* over and over: add_process puts the new task at the head of the queue, before everyone
\* who is waiting.
RoundRobin == FiniteStarts => GetsCpu

\* schedule() always comes to an end (task.c:450 "Limit the number of tasks so we can
\* stop if all the runqueue tasks are idle").
ScheduleStops == cpu.mode # "spin"

-----------------------------------------------------------------------------
(* The inductive strengthening of the invariants above.                    *)

\* No process is queued twice; the kernel process is always queued and never active.
QueueOK ==
    /\ \A i, j \in DOMAIN runqueue : runqueue[i] = runqueue[j] => i = j
    /\ KernelPid \in Live
    /\ ~Active(KernelPid)

\* The kernel process is the root; every other process has a live parent and a terminal.
TreeOK ==
    /\ parent[KernelPid] = NULL /\ terminal[KernelPid] = NULL
    /\ \A p \in Live \ {KernelPid} : parent[p] \in Live \ {p} /\ terminal[p] \in Terminals

\* ctx is a context of process p as p itself would be saved.
ContextOf(p, ctx) ==
    /\ ctx.user = p /\ ctx.stack = p
    /\ ctx.mode \in IF p = KernelPid THEN {"hlt"} ELSE {"user", "wait", "except"}

CurrentOK ==
    /\ current_process \in Live
    /\ current_process # KernelPid =>
          /\ Active(current_process)
          /\ page_pid = current_process /\ esp0 = current_process
          /\ ContextOf(current_process, KernelEntry)
          /\ cpu.mode = "user" => cpu.stack = NULL
    /\ current_process = KernelPid =>
          cpu.mode \in {"hlt", "spin"} /\ cpu.user = KernelPid /\ cpu.stack = KernelPid

SchedInv ==
    /\ TypeOK
    /\ QueueOK
    /\ TreeOK
    /\ CurrentOK
    /\ ContextsKept
    /\ TerminalOwner
    /\ ParentWaits
=============================================================================
