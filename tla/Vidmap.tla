------------------------------ MODULE Vidmap ------------------------------
(***************************************************************************)
(* Programs that draw through vidmap: the page tables of paging.c, the     *)
(* vidmap system call, the remapping in switch_terminals and the TLB, on   *)
(* top of Sched, whose processes come, go and reuse pids while the user    *)
(* switches terminals.  Reads and faults are left out: to the page tables  *)
(* they are a tick and a halt.                                             *)
(*                                                                         *)
(* Of a process's tables the entry for 256 MB matters: the directory's,    *)
(* which names a page table, and entry 0 of page tables 0 and 1.           *)
(***************************************************************************)
EXTENDS Sched

CONSTANT Artists    \* pids whose programs may call vidmap (bound)

ASSUME VidmapConstants == Artists \subseteq Pids \ {KernelPid}

VARIABLES
    vidmap_flag,    \* process_t.vidmap_flag
    page_tables,    \* per pid: [pd, pt]
    tlb,            \* external: the translation of 256 MB that the CPU has cached
    careful         \* history: p called vidmap while its terminal was shown and has run no
                    \* program since

videoVars  == <<vidmap_flag, page_tables, tlb, careful>>
vidmapVars == <<vars, videoVars>>

\* Physical pages: video memory and the backing page of a terminal.
None       == [video |-> FALSE, terminal |-> NULL]
VIDEO      == [video |-> TRUE,  terminal |-> NULL]
Backing(t) == [video |-> FALSE, terminal |-> t]

\* Where p's accesses to 256 MB go by its tables.
PageOf(p) ==
    IF page_tables[p].pd = NULL THEN None ELSE page_tables[p].pt[page_tables[p].pd]

\* map_4kb_page(where, MB(256), p, _, ptid)
Map4kbPage(tables, where, p, ptid) ==
    [tables EXCEPT ![p].pd = ptid, ![p].pt[ptid] = where]

\* The page of the process in terminal t, if it has called vidmap.
MapForeground(tables, t, where) ==
    LET p == process_in_terminal[t]
    IN  IF p # NULL /\ vidmap_flag[p] THEN Map4kbPage(tables, where, p, 0) ELSE tables

\* MUTANT of Switched: the terminal that is left keeps drawing on the screen.
SwitchedFront(t) == MapForeground(page_tables, t, VIDEO)

\* What switch_terminals(t) does to the tables: the terminal that is left first.
Switched(t) ==
    MapForeground(MapForeground(page_tables, current_terminal, Backing(current_terminal)),
                  t, VIDEO)

\* MUTANT of Flushed: the entries are global and outlive a load of CR3.
FlushedNever(loaded) == tlb

\* load_pages empties the TLB; a change to a table does not.
Flushed(loaded) == IF loaded THEN None ELSE tlb

-----------------------------------------------------------------------------
\* A tick or a halt (or a tick that finds nobody to run): task_switch and syscall_halt load the next process's pages.
Switches ==
    /\ PitHandler \/ Halt \/ Spin
    /\ tlb' = Flushed(current_process' # current_process)
    /\ careful' = [p \in Pids |-> careful[p] /\ p \in Live']
    /\ UNCHANGED <<vidmap_flag, page_tables>>

NewPid == CHOOSE n \in 1 .. MaxProcesses : IsMaxPid(n - 1)

\* MUTANT of NewFlags: the flag of the process that had the pid before stays.
NewFlagsKept == vidmap_flag

\* new_process
NewFlags == IF PidAvailable(NewPid) THEN [vidmap_flag EXCEPT ![NewPid] = FALSE] ELSE vidmap_flag

\* setup_process loads the new pages and, if the program does not load, the old ones again.
Executes ==
    /\ Execute
    /\ vidmap_flag' = NewFlags
    /\ tlb' = Flushed(PidAvailable(NewPid))
    /\ careful' = [careful EXCEPT ![current_process] = @ /\ current_process' = current_process]
    /\ UNCHANGED page_tables

\* A click on Start: the shell's new terminal is shown before the shell claims it.
Starts ==
    /\ StartClickIdle
    /\ IF runqueue' # runqueue
       THEN /\ vidmap_flag' = NewFlags
            /\ page_tables' = Switched(current_terminal')
            /\ tlb' = Flushed(TRUE)
       ELSE UNCHANGED <<vidmap_flag, page_tables, tlb>>
    /\ UNCHANGED careful

Shows(t) ==
    /\ SwitchTerminals(t)
    /\ page_tables' = Switched(t)
    /\ UNCHANGED <<vidmap_flag, tlb, careful>>

\* syscall_vidmap with a pointer it accepts, whether or not the terminal is shown
SyscallVidmap ==
    /\ cpu.mode = "user" /\ current_process \in Artists
    /\ page_tables' = Map4kbPage(page_tables, VIDEO, current_process, 1)
    /\ vidmap_flag' = [vidmap_flag EXCEPT ![current_process] = TRUE]
    /\ careful' = [careful EXCEPT ![current_process] = terminal[current_process] = current_terminal]
    /\ UNCHANGED <<vars, tlb>>

\* The program draws: the CPU walks the tables once and remembers what it found.
Draw ==
    /\ cpu.mode = "user"
    /\ tlb = None /\ PageOf(page_pid) # None
    /\ tlb' = PageOf(page_pid)
    /\ UNCHANGED <<vars, vidmap_flag, page_tables, careful>>

\* init_paging leaves 256 MB and the first 4 KB unmapped.
VidmapInit ==
    /\ Init
    /\ vidmap_flag = [p \in Pids |-> FALSE]
    /\ page_tables = [p \in Pids |-> [pd |-> NULL, pt |-> [i \in {0, 1} |-> None]]]
    /\ tlb = None
    /\ careful = [p \in Pids |-> FALSE]

VidmapNext ==
    \/ Switches
    \/ Executes
    \/ Starts
    \/ \E t \in Terminals : Shows(t)
    \/ SyscallVidmap
    \/ Draw

VidmapSpec == VidmapInit /\ [][VidmapNext]_vidmapVars /\ WF_vidmapVars(Switches /\ PitHandler)

-----------------------------------------------------------------------------
(* Properties.                                                             *)

PhysicalPages == {None, VIDEO} \cup {Backing(t) : t \in Terminals}

VidmapTypeOK ==
    /\ vidmap_flag \in [Pids -> BOOLEAN]
    /\ page_tables \in [Pids -> [pd : {NULL, 0, 1}, pt : [{0, 1} -> PhysicalPages]]]
    /\ tlb \in PhysicalPages
    /\ careful \in [Pids -> BOOLEAN]

Drawers == {p \in Live \ {KernelPid} : vidmap_flag[p]}

\* However pids and terminals are reused, a process that has called vidmap draws on the
\* screen or on the backing page of its own terminal, never on another terminal's: tables
\* outlive their process, and vidmap_flag decides whether a switch touches them.
OwnPages == \A p \in Drawers : PageOf(p) \in {VIDEO, Backing(terminal[p])}

\* A process that called vidmap at the terminal that was shown, and has not run another
\* program since, draws on the screen exactly while its terminal is shown (mp3.txt:503
\* "the page tables of a task need to be updated"), through any number of Alt+Fn, clicks,
\* new shells and exits of others.  Without the two provisos it does not: see HiddenHides.
DrawsWhereShown ==
    \A p \in Drawers : careful[p] =>
        PageOf(p) = IF terminal[p] = current_terminal THEN VIDEO ELSE Backing(terminal[p])

\* The CPU still draws where the tables no longer say.
Stale == cpu.mode = "user" /\ tlb # None /\ tlb # PageOf(page_pid)

\* A remapping takes effect although nobody flushes the TLB for it, as long as there is
\* another task to switch to: a tick loads the pages afresh.
RemapTakesEffect ==
    <>[](\E p, q \in Live : p # q /\ Active(p) /\ Active(q)) => []<>~Stale

\* The foreground process of a hidden terminal does not draw on the screen (mp3.txt:502
\* "tasks running in an inactive terminal should not write to the screen").
HiddenHides ==
    \A p \in Drawers :
        Active(p) /\ terminal[p] # current_terminal => PageOf(p) # VIDEO

-----------------------------------------------------------------------------
(* The inductive strengthening.                                            *)

\* Who is careful is the active process of its terminal: it is the one that
\* switch_terminals finds there.
CarefulForeground == \A p \in Pids : careful[p] => p \in Live /\ Active(p)

VidmapInv ==
    /\ SchedInv
    /\ VidmapTypeOK
    /\ ~vidmap_flag[KernelPid]
    /\ CarefulForeground
    /\ OwnPages
    /\ DrawsWhereShown
=============================================================================
