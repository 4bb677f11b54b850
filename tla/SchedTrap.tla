----------------------------- MODULE SchedTrap -----------------------------
(***************************************************************************)
(* Sched with syscall_halt taken apart where an exception handler calls    *)
(* it.  interrupt.c installs trap gates for the exceptions (reserved3 = 1), *)
(* so unlike the halt system call this one runs with IF set, and an        *)
(* interrupt can come between set_current_process(parent) and the jump.    *)
(***************************************************************************)
EXTENDS Sched

\* Per kernel stack: syscall_halt's locals old_process and ret_addr.
VARIABLE halt_frame

trapVars == <<vars, halt_frame>>
NoFrame  == [old |-> NULL, ret |-> "none"]

\* syscall_halt up to and including set_current_process(parent).
ExceptionHaltBegin ==
    LET old == current_process IN
    /\ cpu.mode = "except"
    /\ parent[old] # NULL
    /\ halt_frame' = [halt_frame EXCEPT ![cpu.stack] =
                         [old |-> old, ret |-> ret_addr[parent[old]]]]
    /\ SetCurrentProcess(parent[old])
    /\ cpu' = [cpu EXCEPT !.mode = "halting"]
    /\ UNCHANGED <<queueVars, pcbVars, termVars>>

\* The rest of it.
ExceptionHaltEnd ==
    LET frame == halt_frame[cpu.stack] IN
    /\ cpu.mode = "halting"
    /\ HaltFinish(frame.old, frame.ret)
    /\ UNCHANGED <<current_process, page_pid, esp0, halt_frame>>

TrapNext ==
    \/ (PitHandler \/ Spin \/ ReadWait \/ ReadDone \/ Execute \/ Halt
          \/ Exception \/ StartClickIdle) /\ UNCHANGED halt_frame
    \/ ExceptionHaltBegin
    \/ ExceptionHaltEnd

TrapSpec == Init /\ halt_frame = [p \in Pids |-> NoFrame] /\ [][TrapNext]_trapVars
=============================================================================
