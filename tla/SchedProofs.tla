---------------------------- MODULE SchedProofs ----------------------------
(***************************************************************************)
(* SchedInv is an invariant of Sched for every number of processes,        *)
(* terminals and boot-time shells, and VidmapInv one of VidmapSpec, whose  *)
(* steps are steps of Sched: the second half is about the page tables, and *)
(* takes what it needs of the processes from SchedInv.                     *)
(***************************************************************************)
EXTENDS Vidmap, SequenceProofs

-----------------------------------------------------------------------------
(* Facts about the states of SchedInv.                                     *)

\* Live is the set of elements of the run queue.
LEMMA LiveElements == Live = Elements(runqueue)
BY DEF Live, Elements

\* Pid 0 is a pid, and no null pointer.
LEMMA KernelPidType == KernelPid \in Pids /\ KernelPid \notin {NULL}
BY SchedConstants DEF KernelPid, Pids, NULL

\* Only pids are queued.
LEMMA LiveType == ASSUME TypeOK PROVE Live \subseteq Pids
BY DEF TypeOK, Live

\* A gate entered where interrupts are enabled finds the running process's own context.
LEMMA EntryContext ==
  ASSUME SchedInv, InterruptsEnabled
  PROVE  KernelEntry \in Context /\ ContextOf(current_process, KernelEntry)
BY KernelPidType
DEF SchedInv, TypeOK, CurrentOK, ContextOf, KernelEntry, InterruptsEnabled, Context, Modes

-----------------------------------------------------------------------------
(* Context switches.                                                       *)

\* schedule(), called by the running process in a context of its own.
LEMMA ScheduleStep ==
  ASSUME SchedInv, NEW ctx \in Context, ContextOf(current_process, ctx),
         Schedule(ctx), UNCHANGED <<status, parent, terminal, termVars>>
  PROVE  SchedInv'
<1> USE DEF termVars
<1>1. CASE \E k \in DOMAIN runqueue :
              /\ IsFirstActive(k)
              /\ runqueue' = Rotate(runqueue, k)
              /\ IF runqueue[k] = current_process
                 THEN /\ cpu' = Resumed(ctx)
                      /\ UNCHANGED <<registers, ret_addr, current_process, page_pid, esp0>>
                 ELSE TaskSwitch(runqueue[k], ctx)
  <2>1. PICK k \in DOMAIN runqueue :
              /\ IsFirstActive(k)
              /\ runqueue' = Rotate(runqueue, k)
              /\ IF runqueue[k] = current_process
                 THEN /\ cpu' = Resumed(ctx)
                      /\ UNCHANGED <<registers, ret_addr, current_process, page_pid, esp0>>
                 ELSE TaskSwitch(runqueue[k], ctx)
    BY <1>1
  <2> DEFINE to == runqueue[k]
  <2>2. InjectiveSeq(runqueue) /\ runqueue \in Seq(Pids)
    BY DEF SchedInv, QueueOK, TypeOK, InjectiveSeq
  <2>3. runqueue' \in Seq(Pids) /\ InjectiveSeq(runqueue') /\ Elements(runqueue') = Elements(runqueue)
    BY <2>1, <2>2, RotateFacts
  <2>4. Live' = Live
    BY <2>3, LiveElements DEF Live, Elements
  <2>5. to \in Live /\ Active(to) /\ to # KernelPid /\ to \in Pids
    BY <2>1, LiveType DEF SchedInv, QueueOK, IsFirstActive, Live
  <2> HIDE DEF to
  <2>6. QueueOK'
    BY <2>3, <2>4 DEF SchedInv, QueueOK, InjectiveSeq, Active
  <2>7. TreeOK' /\ ParentWaits' /\ TerminalOwner'
    BY <2>4 DEF SchedInv, TreeOK, ParentWaits, TerminalOwner, Active, IsFree
  <2>8. CASE to = current_process
    <3>1. /\ cpu' = Resumed(ctx)
          /\ UNCHANGED <<registers, ret_addr, current_process, page_pid, esp0>>
      BY <2>1, <2>8 DEF to
    <3>2. TypeOK'
      BY <2>3, <3>1 DEF SchedInv, TypeOK, Resumed, Context
    <3>3. CurrentOK'
      BY <2>4, <2>5, <2>8, <3>1
      DEF SchedInv, CurrentOK, ContextOf, KernelEntry, Resumed, Context, Active
    <3>4. ContextsKept'
      BY <2>4, <3>1 DEF SchedInv, ContextsKept, ParentKept, OwnContext, Active
    <3> QED BY <2>6, <2>7, <3>2, <3>3, <3>4 DEF SchedInv
  <2>9. CASE to # current_process
    <3>1. TaskSwitch(to, ctx)
      BY <2>1, <2>9 DEF to
    <3>2. \/ ret_addr[to] = "start" /\ cpu' = UserEntry(to)
          \/ /\ ret_addr[to] = "task_switch_back" /\ cpu' = Resumed(registers[to])
             /\ OwnContext(to) /\ registers[to].mode \in {"user", "wait", "except"}
      BY <2>5, <2>9, <3>1 DEF SchedInv, ContextsKept, TaskSwitch
    <3>3. TypeOK'
      BY <2>3, <2>5, <3>1, <3>2, KernelPidType
      DEF SchedInv, TypeOK, TaskSwitch, SaveContext, SetCurrentProcess, Resumed, UserEntry, Context,
          RetAddrs, Modes
    <3>4. CurrentOK'
      BY <2>4, <2>5, <3>1, <3>2
      DEF SchedInv, TypeOK, CurrentOK, TaskSwitch, SaveContext, SetCurrentProcess, ContextOf, OwnContext,
          KernelEntry, Resumed, UserEntry, Context, Active
    <3>5. ContextsKept'
      <4>1. current_process \in Pids /\ current_process \in Live
        BY DEF SchedInv, TypeOK, CurrentOK
      <4>2. /\ registers' = [registers EXCEPT ![current_process] = ctx]
            /\ ret_addr' = [ret_addr EXCEPT ![current_process] = "task_switch_back"]
            /\ current_process' = to
        BY <3>1 DEF TaskSwitch, SaveContext, SetCurrentProcess
      <4>3. /\ registers'[current_process] = ctx
            /\ ret_addr'[current_process] = "task_switch_back"
            /\ \A p \in Pids \ {current_process} :
                  registers'[p] = registers[p] /\ ret_addr'[p] = ret_addr[p]
        BY <4>1, <4>2 DEF SchedInv, TypeOK
      <4>4. current_process # KernelPid => Active(current_process)
        BY DEF SchedInv, CurrentOK
      <4>5. ParentKept'
        BY <2>4, <4>2, <4>3, <4>4, LiveType
        DEF SchedInv, ContextsKept, ParentKept, OwnContext, Active
      <4>6. ASSUME NEW p \in Live' \ {KernelPid, to}, Active(p)'
            PROVE  \/ ret_addr'[p] = "start"
                   \/ /\ ret_addr'[p] = "task_switch_back"
                      /\ OwnContext(p)' /\ registers'[p].mode \in {"user", "wait", "except"}
        BY <2>4, <4>3, <4>6, LiveType
        DEF SchedInv, ContextsKept, OwnContext, Active, ContextOf
      <4>7. /\ ret_addr'[KernelPid] = "task_switch_back"
            /\ OwnContext(KernelPid)' /\ registers'[KernelPid].mode = "hlt"
        BY <4>3, KernelPidType DEF SchedInv, ContextsKept, OwnContext, ContextOf
      <4> QED BY <4>2, <4>5, <4>6, <4>7 DEF ContextsKept
    <3> QED BY <2>6, <2>7, <3>3, <3>4, <3>5 DEF SchedInv
  <2> QED BY <2>8, <2>9
<1>2. CASE /\ \A i \in DOMAIN runqueue : ~Active(runqueue[i])
           /\ cpu' = [ctx EXCEPT !.mode = "spin"]
           /\ UNCHANGED <<runqueue, registers, ret_addr, current_process, page_pid, esp0>>
  <2>1. Live' = Live
    BY <1>2 DEF Live
  <2>2. current_process = KernelPid
    BY <1>2 DEF SchedInv, CurrentOK, Live
  <2>3. TypeOK'
    BY <1>2 DEF SchedInv, TypeOK, Context, Modes
  <2>4. CurrentOK'
    BY <1>2, <2>1, <2>2 DEF SchedInv, CurrentOK, ContextOf, Context
  <2>5. QueueOK' /\ TreeOK' /\ ContextsKept' /\ TerminalOwner' /\ ParentWaits'
    BY <1>2, <2>1
    DEF SchedInv, QueueOK, TreeOK, ContextsKept, ParentKept, OwnContext, TerminalOwner,
        IsFree, ParentWaits, Active
  <2> QED BY <2>3, <2>4, <2>5 DEF SchedInv
<1> QED BY <1>1, <1>2 DEF Schedule

-----------------------------------------------------------------------------
(* The steps that change no process.                                       *)

\* A timer tick keeps the invariant.
LEMMA PitHandlerStep == ASSUME SchedInv, PitHandler PROVE SchedInv'
BY EntryContext, ScheduleStep DEF PitHandler

\* A blocking read that yields keeps the invariant.
LEMMA ReadWaitStep == ASSUME SchedInv, ReadWait PROVE SchedInv'
<1> DEFINE ctx == [KernelEntry EXCEPT !.mode = "wait"]
<1>1. InterruptsEnabled /\ current_process # KernelPid
  BY DEF SchedInv, CurrentOK, ReadWait, InterruptsEnabled
<1>2. KernelEntry \in Context /\ ContextOf(current_process, KernelEntry)
  BY <1>1, EntryContext
<1>3. ctx \in Context /\ ContextOf(current_process, ctx)
  BY <1>1, <1>2 DEF ContextOf, Context, Modes
<1> QED BY <1>3, ScheduleStep DEF ReadWait

\* A turn of schedule()'s endless loop keeps the invariant.
LEMMA SpinStep == ASSUME SchedInv, Spin PROVE SchedInv'
<1>1. InjectiveSeq(runqueue) /\ runqueue \in Seq(Pids) /\ 1 \in DOMAIN runqueue
  BY DEF SchedInv, QueueOK, TypeOK, InjectiveSeq, Live
<1>2. /\ runqueue' \in Seq(Pids) /\ InjectiveSeq(runqueue')
      /\ Elements(runqueue') = Elements(runqueue)
  BY <1>1, RotateFacts DEF Spin
<1>3. Live' = Live
  BY <1>2, LiveElements DEF Live, Elements
<1>4. TypeOK'
  BY <1>2 DEF SchedInv, TypeOK, Spin, pcbVars, cpuVars, termVars
<1>5. QueueOK'
  BY <1>2, <1>3 DEF SchedInv, QueueOK, InjectiveSeq, Active, Spin
<1>6. TreeOK' /\ ContextsKept' /\ TerminalOwner' /\ ParentWaits' /\ CurrentOK'
  BY <1>3 DEF SchedInv, TreeOK, ContextsKept, ParentKept, OwnContext, TerminalOwner, IsFree,
    ParentWaits, CurrentOK, ContextOf, KernelEntry, Active, Spin, pcbVars, cpuVars, termVars
<1> QED BY <1>4, <1>5, <1>6 DEF SchedInv

\* A step that moves the running program between its own modes.
LEMMA ModeStep ==
  ASSUME SchedInv, current_process # KernelPid,
         cpu' \in Context, ContextOf(current_process, KernelEntry'),
         cpu'.mode = "user" => cpu'.stack = NULL,
         UNCHANGED <<queueVars, pcbVars, current_process, page_pid, esp0, termVars>>
  PROVE  SchedInv'
<1> USE DEF queueVars, pcbVars, termVars
<1>1. Live' = Live
  BY DEF Live
<1>2. TypeOK'
  BY DEF SchedInv, TypeOK
<1>3. CurrentOK'
  BY <1>1 DEF SchedInv, CurrentOK, Active, ContextOf
<1>4. QueueOK' /\ TreeOK' /\ ContextsKept' /\ TerminalOwner' /\ ParentWaits'
  BY <1>1 DEF SchedInv, QueueOK, TreeOK, ContextsKept, ParentKept, OwnContext, TerminalOwner,
    IsFree, ParentWaits, Active
<1> QED BY <1>2, <1>3, <1>4 DEF SchedInv

\* A blocking read that returns keeps the invariant.
LEMMA ReadDoneStep == ASSUME SchedInv, ReadDone PROVE SchedInv'
<1>1. current_process # KernelPid /\ cpu \in Context /\ ContextOf(current_process, cpu)
      /\ esp0 = current_process
  BY DEF SchedInv, TypeOK, CurrentOK, ReadDone, ContextOf, KernelEntry
<1>2. cpu' = [mode |-> "user", user |-> current_process, stack |-> NULL] /\ esp0' = esp0
  BY <1>1 DEF ReadDone, Resumed, ContextOf, Context
<1>3. cpu' \in Context /\ ContextOf(current_process, KernelEntry')
  BY <1>1, <1>2 DEF SchedInv, TypeOK, Context, Modes, KernelEntry, ContextOf
<1> QED BY <1>1, <1>2, <1>3, ModeStep DEF ReadDone

\* A fault of the running program keeps the invariant.
LEMMA ExceptionStep == ASSUME SchedInv, Exception PROVE SchedInv'
<1>1. current_process # KernelPid /\ cpu \in Context /\ ContextOf(current_process, KernelEntry)
  BY DEF SchedInv, TypeOK, CurrentOK, Exception
<1>2. KernelEntry \in Context
  BY <1>1 DEF SchedInv, TypeOK, KernelEntry, Context
<1>3. /\ cpu' \in Context /\ cpu'.mode = "except"
      /\ cpu'.user = current_process /\ cpu'.stack = current_process
  BY <1>1, <1>2 DEF Exception, Context, Modes, ContextOf
<1>4. ContextOf(current_process, KernelEntry')
  BY <1>1, <1>3 DEF KernelEntry, ContextOf
<1> QED BY <1>1, <1>3, <1>4, ModeStep DEF Exception

\* Showing another terminal keeps the invariant.
LEMMA SwitchTerminalsStep ==
  ASSUME SchedInv, NEW t \in Terminals, SwitchTerminals(t) PROVE SchedInv'
<1> USE DEF SwitchTerminals, queueVars, pcbVars, cpuVars
<1>1. Live' = Live
  BY DEF Live
<1>2. TypeOK'
  BY DEF SchedInv, TypeOK
<1>3. QueueOK' /\ TreeOK' /\ CurrentOK' /\ ContextsKept' /\ TerminalOwner' /\ ParentWaits'
  BY <1>1 DEF SchedInv, QueueOK, TreeOK, CurrentOK, ContextOf, KernelEntry, ContextsKept,
    ParentKept, OwnContext, TerminalOwner, IsFree, ParentWaits, Active
<1> QED BY <1>2, <1>3 DEF SchedInv

-----------------------------------------------------------------------------
(* Process creation.                                                       *)

\* The null pointer is neither a terminal nor a process.
LEMMA NoNull == NULL \notin Terminals /\ NULL \notin Pids
BY SchedConstants DEF NULL, Terminals, Pids

\* new_process never hands out the pid of a queued process.
LEMMA FreshPid ==
  ASSUME TypeOK, QueueOK, NEW n \in 1 .. MaxProcesses, IsMaxPid(n - 1)
  PROVE  n \notin Live /\ n # KernelPid /\ (n < MaxProcesses => n \in Pids)
<1>1. Live \subseteq Pids
  BY LiveType
<1> QED BY <1>1, SchedConstants DEF IsMaxPid, Pids, KernelPid

\* A failed execute() changes the PCB of a pid nobody uses and the caller's own registers.
LEMMA FailedExecuteStep ==
  ASSUME SchedInv, cpu.mode = "user",
         \A p \in Live : parent'[p] = parent[p] /\ terminal'[p] = terminal[p],
         parent' \in [Pids -> Pids \cup {NULL}],
         terminal' \in [Pids -> Terminals \cup {NULL}],
         current_terminal' \in Terminals,
         registers' = [registers EXCEPT ![current_process] = KernelEntry],
         page_pid' = current_process,
         UNCHANGED <<queueVars, ret_addr, current_process, esp0, cpu, process_in_terminal>>
  PROVE  SchedInv'
<1> USE DEF queueVars
<1>1. Live' = Live /\ Live \subseteq Pids
  BY LiveType DEF Live, SchedInv
<1>2. KernelEntry \in Context /\ current_process # KernelPid /\ current_process \in Pids
  BY EntryContext DEF SchedInv, CurrentOK, InterruptsEnabled, TypeOK
<1>3. TypeOK'
  BY <1>2 DEF SchedInv, TypeOK
<1>4. QueueOK' /\ TreeOK' /\ ParentWaits'
  BY <1>1, KernelPidType DEF SchedInv, QueueOK, TreeOK, ParentWaits, Active
<1>5. CurrentOK'
  BY <1>1, <1>2 DEF SchedInv, CurrentOK, ContextOf, KernelEntry, Active
<1>6. ContextsKept'
  <2>1. \A p \in Pids \ {current_process} : registers'[p] = registers[p]
    BY DEF SchedInv, TypeOK
  <2> QED BY <1>1, <1>2, <2>1, KernelPidType
          DEF SchedInv, ContextsKept, ParentKept, OwnContext, Active
<1>7. TerminalOwner'
  BY <1>1 DEF SchedInv, TerminalOwner, IsFree, Active
<1> QED BY <1>3, <1>4, <1>5, <1>6, <1>7 DEF SchedInv

\* execute() of a program that loads.
LEMMA ExecuteLoadsStep ==
  ASSUME SchedInv, cpu.mode = "user", NEW n \in 1 .. MaxProcesses,
         NEW t \in Terminals \cup {NULL},
         NewProcess(current_process, n, t), ExecuteLoads(n, t)
  PROVE  SchedInv'
<1> DEFINE c == current_process
<1>1. c # KernelPid /\ c \in Live /\ c \in Pids /\ Active(c) /\ Live \subseteq Pids
  BY LiveType DEF SchedInv, CurrentOK, TypeOK
<1>2. n \notin Live /\ n # KernelPid /\ n \in Pids /\ n # c
  BY <1>1, FreshPid DEF SchedInv, NewProcess, ExecuteLoads, PidAvailable
<1>3. t = terminal[c] /\ t \in Terminals /\ terminal[c] # NULL
  BY <1>1, NoNull DEF SchedInv, TreeOK, NewProcess
<1>4. KernelEntry \in Context /\ ContextOf(c, KernelEntry) /\ KernelEntry.mode = "user"
  BY EntryContext DEF SchedInv, InterruptsEnabled, KernelEntry, TypeOK, Context
<1>5. /\ runqueue' \in Seq(Pids) /\ InjectiveSeq(runqueue') /\ Live' = Live \cup {n}
  <2>1. InjectiveSeq(runqueue) /\ runqueue \in Seq(Pids) /\ n \notin Elements(runqueue)
    BY <1>2, LiveElements DEF SchedInv, QueueOK, TypeOK, InjectiveSeq
  <2>2. runqueue' = <<n>> \o runqueue
    BY DEF ExecuteLoads, AddProcess
  <2>3. /\ runqueue' \in Seq(Pids) /\ InjectiveSeq(runqueue')
        /\ Elements(runqueue') = Elements(runqueue) \cup {n}
    BY <1>2, <2>1, <2>2, PushHeadFacts
  <2> QED BY <2>3, LiveElements DEF Live, Elements
<1>6. /\ parent'[n] = c /\ terminal'[n] = t
      /\ \A p \in Pids \ {n} : parent'[p] = parent[p] /\ terminal'[p] = terminal[p]
  BY <1>2 DEF SchedInv, TypeOK, ExecuteLoads, InitPcb
<1>7. /\ status'[n] = "TaskActive" /\ status'[c] = "TaskIdle"
      /\ \A p \in Pids \ {n, c} : status'[p] = status[p]
  BY <1>1, <1>2 DEF SchedInv, TypeOK, ExecuteLoads
<1>8. /\ registers'[c] = KernelEntry /\ ret_addr'[c] = "syscall_restore_regs"
      /\ \A p \in Pids \ {c} : registers'[p] = registers[p] /\ ret_addr'[p] = ret_addr[p]
  BY <1>1 DEF SchedInv, TypeOK, ExecuteLoads
<1>9. /\ process_in_terminal'[t] = n
      /\ \A u \in Terminals \ {t} : process_in_terminal'[u] = process_in_terminal[u]
  BY <1>3 DEF SchedInv, TypeOK, ExecuteLoads, AddProcess
<1>10. /\ current_process' = n /\ page_pid' = n /\ esp0' = n
       /\ cpu' = [mode |-> "user", user |-> n, stack |-> NULL]
  BY DEF ExecuteLoads, SetCurrentProcess, UserEntry
<1>11. TypeOK'
  <2>1. /\ status' \in [Pids -> {"TaskActive", "TaskIdle"}]
        /\ ret_addr' \in [Pids -> RetAddrs]
    BY <1>1, <1>2 DEF SchedInv, TypeOK, ExecuteLoads, RetAddrs
  <2>2. registers' \in [Pids -> Context]
    BY <1>1, <1>4 DEF SchedInv, TypeOK, ExecuteLoads
  <2>3. /\ parent' \in [Pids -> Pids \cup {NULL}]
        /\ terminal' \in [Pids -> Terminals \cup {NULL}]
        /\ current_terminal' \in Terminals
    BY <1>1, <1>2, <1>3 DEF SchedInv, TypeOK, ExecuteLoads, InitPcb
  <2>4. process_in_terminal' \in [Terminals -> Pids \cup {NULL}]
    BY <1>2, <1>3 DEF SchedInv, TypeOK, ExecuteLoads, AddProcess
  <2>5. cpu' \in Context
    BY <1>2, <1>10 DEF Context, Modes
  <2> QED BY <1>2, <1>5, <1>10, <2>1, <2>2, <2>3, <2>4, <2>5 DEF TypeOK
<1> HIDE DEF c
<1>12. QueueOK'
  BY <1>1, <1>2, <1>5, <1>7, KernelPidType DEF SchedInv, QueueOK, InjectiveSeq, Active
<1>13. TreeOK'
  BY <1>1, <1>2, <1>3, <1>5, <1>6, KernelPidType DEF SchedInv, TreeOK
<1>14. CurrentOK'
  BY <1>2, <1>5, <1>7, <1>10 DEF CurrentOK, ContextOf, KernelEntry, Active
<1>15. ContextsKept'
  <2>1. \A p \in Live \ {KernelPid, c} :
           /\ status'[p] = status[p] /\ registers'[p] = registers[p]
           /\ ret_addr'[p] = ret_addr[p]
    BY <1>1, <1>2, <1>7, <1>8
  <2>2. registers'[KernelPid] = registers[KernelPid] /\ ret_addr'[KernelPid] = ret_addr[KernelPid]
    BY <1>1, <1>8, KernelPidType
  <2>3. ParentKept'
    BY <1>1, <1>4, <1>5, <1>7, <1>8, <1>10, <2>1
    DEF SchedInv, ContextsKept, ParentKept, OwnContext, Active, ContextOf, c
  <2> QED BY <1>1, <1>5, <1>7, <1>10, <2>1, <2>2, <2>3
          DEF SchedInv, ContextsKept, OwnContext, Active, c
<1>16. TerminalOwner'
  <2>1. process_in_terminal[t] = c
    BY <1>1, <1>3 DEF SchedInv, TerminalOwner
  <2>2. ASSUME NEW p \in Live' \ {KernelPid}, Active(p)'
        PROVE  process_in_terminal'[terminal'[p]] = p
    <3>1. CASE p = n
      BY <3>1, <1>6, <1>9
    <3>2. CASE p # n
      <4>1. p \in Live \ {KernelPid, c} /\ Active(p)
        BY <1>1, <1>5, <1>7, <2>2, <3>2 DEF Active
      <4>2. terminal[p] \in Terminals /\ process_in_terminal[terminal[p]] = p
        BY <4>1 DEF SchedInv, TreeOK, TerminalOwner
      <4>3. terminal'[p] = terminal[p] /\ terminal[p] # t
        BY <1>1, <1>6, <2>1, <3>2, <4>1, <4>2
      <4> QED BY <1>9, <4>2, <4>3
    <3> QED BY <3>1, <3>2
  <2>3. ASSUME NEW u \in Terminals, ~IsFree(u)'
        PROVE  /\ process_in_terminal'[u] \in Live'
               /\ status'[process_in_terminal'[u]] = "TaskActive"
               /\ terminal'[process_in_terminal'[u]] = u
    <3>1. CASE u = t
      BY <3>1, <1>5, <1>6, <1>7, <1>9 DEF Active
    <3>2. CASE u # t
      <4> DEFINE p == process_in_terminal[u]
      <4>1. process_in_terminal'[u] = p /\ p \in Live /\ Active(p) /\ terminal[p] = u
        BY <1>9, <2>3, <3>2 DEF SchedInv, TerminalOwner, IsFree
      <4>2. p # c /\ p # n
        BY <1>2, <1>3, <3>2, <4>1
      <4> QED BY <1>1, <1>5, <1>6, <1>7, <4>1, <4>2 DEF Active
    <3> QED BY <3>1, <3>2
  <2> QED BY <2>2, <2>3 DEF TerminalOwner, Active
<1>17. ParentWaits'
  <2>1. \A p \in Live : parent'[p] = parent[p] /\ terminal'[p] = terminal[p] /\ parent[p] # n
    BY <1>1, <1>2, <1>6, KernelPidType DEF SchedInv, TreeOK, TypeOK, NULL, Pids
  <2>2. \A p \in Live : parent[p] # c
    BY <1>1 DEF SchedInv, ParentWaits
  <2>3. ASSUME NEW q \in Live \ {KernelPid, c}
        PROVE  IF Active(q)' THEN \A p \in Live' : parent'[p] # q
               ELSE \E p \in Live' : /\ terminal'[p] = terminal'[q]
                                    /\ \A r \in Live' : parent'[r] = q <=> r = p
    <3>1. status'[q] = status[q] /\ q # n
      BY <1>1, <1>2, <1>7
    <3> QED BY <1>2, <1>5, <1>6, <2>1, <3>1 DEF SchedInv, ParentWaits, Active
  <2>4. \A p \in Live' : parent'[p] # n
    BY <1>2, <1>5, <1>6, <2>1
  <2>5. \A r \in Live' : parent'[r] = c <=> r = n
    BY <1>2, <1>5, <1>6, <2>1, <2>2
  <2>6. terminal'[n] = terminal'[c]
    BY <1>1, <1>2, <1>3, <1>6
  <2> QED BY <1>5, <1>7, <2>3, <2>4, <2>5, <2>6 DEF ParentWaits, Active
<1> QED BY <1>11, <1>12, <1>13, <1>14, <1>15, <1>16, <1>17 DEF SchedInv

\* execute(), whichever way it ends, keeps the invariant.
LEMMA ExecuteStep == ASSUME SchedInv, Execute PROVE SchedInv'
<1>1. cpu.mode = "user"
  BY DEF Execute
<1>2. PICK n \in 1 .. MaxProcesses, t \in Terminals \cup {NULL} :
         /\ NewProcess(current_process, n, t)
         /\ ExecuteLoads(n, t) \/ ExecuteBadProgram(n, t) \/ ExecuteNoProcess(n, t)
  BY DEF Execute
<1>3. n \notin Live /\ (n < MaxProcesses => n \in Pids) /\ Live \subseteq Pids
  BY <1>2, FreshPid, LiveType DEF SchedInv, NewProcess
<1>4. /\ current_process \in Live /\ current_process # KernelPid /\ current_process \in Pids
      /\ page_pid = current_process
  BY <1>1 DEF SchedInv, CurrentOK, TypeOK
<1>5. t = terminal[current_process] /\ t \in Terminals /\ t # NULL
  BY <1>2, <1>4, NoNull DEF SchedInv, TreeOK, NewProcess
<1>6. CASE ExecuteLoads(n, t)
  BY <1>1, <1>2, <1>6, ExecuteLoadsStep
<1>7. CASE ExecuteBadProgram(n, t)
  <2>1. /\ \A p \in Live : parent'[p] = parent[p] /\ terminal'[p] = terminal[p]
        /\ parent' \in [Pids -> Pids \cup {NULL}]
        /\ terminal' \in [Pids -> Terminals \cup {NULL}]
        /\ current_terminal' \in Terminals
    BY <1>3, <1>4, <1>5, <1>7 DEF ExecuteBadProgram, PidAvailable, InitPcb, SchedInv, TypeOK
  <2> QED BY <1>1, <1>7, <2>1, FailedExecuteStep DEF ExecuteBadProgram
<1>8. CASE ExecuteNoProcess(n, t)
  <2>1. UNCHANGED <<parent, terminal, current_terminal>>
    BY <1>5, <1>8 DEF ExecuteNoProcess, NoNewProcess
  <2> QED BY <1>1, <1>4, <1>8, <2>1, FailedExecuteStep
          DEF ExecuteNoProcess, SchedInv, TypeOK, cpuVars
<1> QED BY <1>2, <1>6, <1>7, <1>8

\* A click on Start in the idle loop: the new shell waits in the queue.
LEMMA StartClickIdleStep == ASSUME SchedInv, StartClickIdle PROVE SchedInv'
<1>1. /\ cpu.mode = "hlt" /\ current_process = KernelPid /\ KernelEntry = cpu
      /\ cpu.user = KernelPid /\ cpu.stack = KernelPid /\ terminal[KernelPid] = NULL
  <2>1. cpu.mode = "hlt"
    BY DEF StartClickIdle
  <2> QED BY <2>1 DEF SchedInv, CurrentOK, KernelEntry, ContextOf, TreeOK
<1>2. PICK n \in 1 .. MaxProcesses, t \in Terminals \cup {NULL} :
         NewProcess(KernelPid, n, t) /\ (SpawnShell(n, t) \/ SpawnNoProcess(n, t))
  BY DEF StartClickIdle, KernelSpawn
<1>3. /\ n \notin Live /\ n # KernelPid /\ (n < MaxProcesses => n \in Pids)
      /\ Live \subseteq Pids
  BY <1>2, FreshPid, LiveType DEF SchedInv, NewProcess
<1>4. CASE SpawnShell(n, t)
  <2> USE DEF SpawnShell
  <2>1. n \in Pids /\ t \in Terminals /\ IsFree(t)
    BY <1>1, <1>2, <1>3, <1>4 DEF PidAvailable, NewProcess, NewTerminal
  <2>2. runqueue' \in Seq(Pids) /\ InjectiveSeq(runqueue') /\ Live' = Live \cup {n}
    <3>1. InjectiveSeq(runqueue) /\ runqueue \in Seq(Pids) /\ n \notin Elements(runqueue)
      BY <1>3, LiveElements DEF SchedInv, QueueOK, TypeOK, InjectiveSeq
    <3>2. runqueue' = <<n>> \o runqueue
      BY <1>4 DEF AddProcess
    <3>3. /\ runqueue' \in Seq(Pids) /\ InjectiveSeq(runqueue')
          /\ Elements(runqueue') = Elements(runqueue) \cup {n}
      BY <2>1, <3>1, <3>2, PushHeadFacts
    <3> QED BY <3>3, LiveElements DEF Live, Elements
  <2>3. /\ parent'[n] = KernelPid /\ terminal'[n] = t
        /\ status'[n] = "TaskActive" /\ ret_addr'[n] = "start"
        /\ \A p \in Pids \ {n} :
              /\ parent'[p] = parent[p] /\ terminal'[p] = terminal[p]
              /\ status'[p] = status[p] /\ ret_addr'[p] = ret_addr[p]
              /\ registers'[p] = registers[p]
    BY <1>4, <2>1 DEF SchedInv, TypeOK, InitPcb
  <2>4. /\ process_in_terminal'[t] = n
        /\ \A u \in Terminals \ {t} : process_in_terminal'[u] = process_in_terminal[u]
    BY <1>4, <2>1 DEF SchedInv, TypeOK, AddProcess
  <2>5. TypeOK'
    <3>1. /\ status' \in [Pids -> {"TaskActive", "TaskIdle"}]
          /\ ret_addr' \in [Pids -> RetAddrs]
          /\ registers' \in [Pids -> Context]
      BY <1>1, <1>4, <2>1 DEF SchedInv, TypeOK, RetAddrs
    <3>2. /\ parent' \in [Pids -> Pids \cup {NULL}]
          /\ terminal' \in [Pids -> Terminals \cup {NULL}]
          /\ current_terminal' \in Terminals
          /\ process_in_terminal' \in [Terminals -> Pids \cup {NULL}]
      BY <1>4, <2>1, KernelPidType DEF SchedInv, TypeOK, InitPcb, AddProcess
    <3> QED BY <1>4, <2>1, <2>2, <3>1, <3>2 DEF SchedInv, TypeOK
  <2>6. QueueOK' /\ TreeOK'
    BY <1>3, <2>1, <2>2, <2>3, KernelPidType
    DEF SchedInv, QueueOK, TreeOK, InjectiveSeq, Active
  <2>7. CurrentOK'
    BY <1>1, <1>4, <2>2 DEF SchedInv, CurrentOK, KernelEntry, ContextOf
  <2>8. ContextsKept'
    BY <1>1, <1>3, <1>4, <2>2, <2>3
    DEF SchedInv, ContextsKept, ParentKept, OwnContext, Active
  <2>9. TerminalOwner'
    <3>1. ASSUME NEW p \in Live' \ {KernelPid}, Active(p)'
          PROVE  process_in_terminal'[terminal'[p]] = p
      <4>1. CASE p = n
        BY <4>1, <2>3, <2>4
      <4>2. CASE p # n
        <5>1. p \in Live \ {KernelPid} /\ Active(p) /\ terminal'[p] = terminal[p] /\ p \in Pids
          BY <1>3, <2>2, <2>3, <3>1, <4>2 DEF Active
        <5>2. terminal[p] \in Terminals /\ process_in_terminal[terminal[p]] = p
          BY <5>1 DEF SchedInv, TreeOK, TerminalOwner
        <5>3. terminal[p] # t
          BY <2>1, <5>1, <5>2, SchedConstants DEF IsFree, Pids, NULL
        <5> QED BY <2>4, <5>1, <5>2, <5>3
      <4> QED BY <4>1, <4>2
    <3>2. ASSUME NEW u \in Terminals, ~IsFree(u)'
          PROVE  /\ process_in_terminal'[u] \in Live'
                 /\ status'[process_in_terminal'[u]] = "TaskActive"
                 /\ terminal'[process_in_terminal'[u]] = u
      <4>1. CASE u = t
        BY <4>1, <2>2, <2>3, <2>4
      <4>2. CASE u # t
        <5> DEFINE p == process_in_terminal[u]
        <5>1. process_in_terminal'[u] = p /\ p \in Live /\ Active(p) /\ terminal[p] = u
          BY <2>4, <3>2, <4>2 DEF SchedInv, TerminalOwner, IsFree
        <5> QED BY <1>3, <2>2, <2>3, <5>1 DEF Active
      <4> QED BY <4>1, <4>2
    <3> QED BY <3>1, <3>2 DEF TerminalOwner, Active
  <2>10. ParentWaits'
    <3>1. \A p \in Live : parent'[p] = parent[p] /\ terminal'[p] = terminal[p] /\ parent[p] # n
      BY <1>3, <2>1, <2>3, KernelPidType DEF SchedInv, TreeOK, TypeOK, NULL, Pids
    <3>2. ASSUME NEW q \in Live \ {KernelPid}
          PROVE  IF Active(q)' THEN \A p \in Live' : parent'[p] # q
                 ELSE \E p \in Live' : /\ terminal'[p] = terminal'[q]
                                      /\ \A r \in Live' : parent'[r] = q <=> r = p
      <4>1. status'[q] = status[q]
        BY <1>3, <2>3
      <4> QED BY <1>3, <2>2, <2>3, <3>1, <4>1 DEF SchedInv, ParentWaits, Active
    <3>3. \A p \in Live' : parent'[p] # n
      BY <1>3, <2>2, <2>3, <3>1
    <3> QED BY <2>2, <2>3, <3>2, <3>3 DEF ParentWaits, Active
  <2> QED BY <2>5, <2>6, <2>7, <2>8, <2>9, <2>10 DEF SchedInv
<1>5. CASE SpawnNoProcess(n, t)
  <2> USE DEF SpawnNoProcess, NoNewProcess, PidAvailable
  <2> USE DEF queueVars
  <2>1. /\ \A p \in Live : parent'[p] = parent[p] /\ terminal'[p] = terminal[p]
        /\ parent' \in [Pids -> Pids \cup {NULL}]
        /\ terminal' \in [Pids -> Terminals \cup {NULL}]
        /\ current_terminal' \in Terminals
    BY <1>3, <1>5, KernelPidType DEF InitPcb, SchedInv, TypeOK
  <2>2. Live' = Live /\ current_process' = current_process
    BY <1>1, <1>5 DEF Live
  <2>3. TypeOK'
    BY <1>5, <2>1, <2>2 DEF SchedInv, TypeOK
  <2>0. UNCHANGED <<runqueue, status, process_in_terminal>>
    BY <1>5
  <2> USE DEF Active
  <2>4. QueueOK' /\ TreeOK' /\ ParentWaits' /\ TerminalOwner'
    <3> HIDE DEF SpawnNoProcess, NoNewProcess
    <3> QED BY <2>0, <2>1, <2>2, KernelPidType
            DEF SchedInv, QueueOK, TreeOK, ParentWaits, TerminalOwner, IsFree
  <2>5. CurrentOK' /\ ContextsKept'
    BY <1>1, <1>5, <2>2 DEF SchedInv, CurrentOK, ContextOf, KernelEntry, ContextsKept,
      ParentKept, OwnContext, Active
  <2> QED BY <2>3, <2>4, <2>5 DEF SchedInv
<1> QED BY <1>2, <1>4, <1>5

-----------------------------------------------------------------------------
(* Process exit.                                                           *)

\* syscall_halt by the running program or by its exception handler.
LEMMA HaltStep ==
  ASSUME SchedInv, cpu.mode \in {"user", "except"}, SyscallHalt
  PROVE  SchedInv'
<1> DEFINE c   == current_process
           par == parent[c]
           ret == ret_addr[par]
           tc  == terminal[c]
<1>1. /\ c \in Live /\ c # KernelPid /\ Active(c) /\ c \in Pids /\ Live \subseteq Pids
  BY LiveType DEF SchedInv, CurrentOK, TypeOK
<1>2. par \in Live /\ par # c /\ par \in Pids /\ par # NULL /\ tc \in Terminals /\ tc # NULL
  BY <1>1, NoNull DEF SchedInv, TreeOK
<1>3. /\ current_process' = par /\ page_pid' = par /\ esp0' = par
      /\ HaltFinish(c, ret)
  BY <1>2 DEF SyscallHalt, SetCurrentProcess
<1>4. runqueue' \in Seq(Pids) /\ InjectiveSeq(runqueue') /\ Live' = Live \ {c}
  <2>1. InjectiveSeq(runqueue) /\ runqueue \in Seq(Pids) /\ c \in Elements(runqueue)
    BY <1>1, LiveElements DEF SchedInv, QueueOK, TypeOK, InjectiveSeq
  <2>2. runqueue' = Without(runqueue, c)
    BY <1>3 DEF HaltFinish
  <2>3. /\ runqueue' \in Seq(Pids) /\ InjectiveSeq(runqueue')
        /\ Elements(runqueue') = Elements(runqueue) \ {c}
    BY <2>1, <2>2, WithoutFacts
  <2> QED BY <2>3, LiveElements DEF Live, Elements
<1>5. UNCHANGED <<parent, terminal, ret_addr, registers, current_terminal>>
  BY <1>3 DEF HaltFinish, pcbVars
<1>6. process_in_terminal[tc] = c
  BY <1>1 DEF SchedInv, TerminalOwner
<1>7. \A p \in Live : parent[p] # c
  BY <1>1 DEF SchedInv, ParentWaits
<1>8. TreeOK'
  BY <1>1, <1>4, <1>5, <1>7 DEF SchedInv, TreeOK
<1>9. CASE par = KernelPid
  <2>1. ret = "task_switch_back" /\ OwnContext(KernelPid) /\ registers[KernelPid].mode = "hlt"
    BY <1>1, <1>9 DEF SchedInv, ContextsKept
  <2>2. /\ UNCHANGED status
        /\ process_in_terminal' = [process_in_terminal EXCEPT ![tc] = KernelPid]
        /\ cpu' = Resumed(registers[KernelPid])
    BY <1>3, <1>9, <2>1 DEF HaltFinish
  <2> HIDE DEF c, par, ret, tc
  <2>3. /\ process_in_terminal'[tc] = KernelPid
        /\ \A u \in Terminals \ {tc} : process_in_terminal'[u] = process_in_terminal[u]
    BY <1>2, <2>2 DEF SchedInv, TypeOK
  <2>4. /\ cpu' = registers[KernelPid] /\ registers[KernelPid] \in Context
        /\ cpu'.mode = "hlt" /\ cpu'.user = KernelPid /\ cpu'.stack = KernelPid
    BY <2>1, <2>2, KernelPidType DEF Resumed, OwnContext, SchedInv, TypeOK
  <2>5. TypeOK'
    BY <1>2, <1>3, <1>4, <1>5, <2>2, <2>4, KernelPidType DEF SchedInv, TypeOK
  <2>6. QueueOK'
    BY <1>1, <1>4, <2>2 DEF SchedInv, QueueOK, InjectiveSeq, Active
  <2>7. CurrentOK'
    BY <1>2, <1>3, <1>4, <1>9, <2>4 DEF CurrentOK
  <2>8. ContextsKept'
    BY <1>3, <1>4, <1>5, <1>9, <2>2
    DEF SchedInv, ContextsKept, ParentKept, OwnContext, Active, c
  <2>9. TerminalOwner'
    <3>1. ASSUME NEW p \in Live' \ {KernelPid}, Active(p)'
          PROVE  process_in_terminal'[terminal'[p]] = p
      <4>1. p \in Live \ {KernelPid, c} /\ Active(p) /\ terminal'[p] = terminal[p]
        BY <1>4, <1>5, <2>2, <3>1 DEF Active
      <4>2. terminal[p] \in Terminals /\ process_in_terminal[terminal[p]] = p
        BY <4>1 DEF SchedInv, TreeOK, TerminalOwner
      <4>3. terminal[p] # tc
        BY <1>6, <4>1, <4>2
      <4> QED BY <2>3, <4>1, <4>2, <4>3
    <3>2. ASSUME NEW u \in Terminals, ~IsFree(u)'
          PROVE  /\ process_in_terminal'[u] \in Live'
                 /\ status'[process_in_terminal'[u]] = "TaskActive"
                 /\ terminal'[process_in_terminal'[u]] = u
      <4> DEFINE p == process_in_terminal[u]
      <4>1. u # tc
        BY <2>3, <3>2 DEF IsFree
      <4>2. process_in_terminal'[u] = p /\ p \in Live /\ Active(p) /\ terminal[p] = u
        BY <2>3, <3>2, <4>1 DEF SchedInv, TerminalOwner, IsFree
      <4>3. p # c
        BY <4>1, <4>2 DEF tc
      <4> QED BY <1>4, <1>5, <2>2, <4>2, <4>3 DEF Active
    <3> QED BY <3>1, <3>2 DEF TerminalOwner, Active
  <2>10. ParentWaits'
    <3>1. parent[c] = KernelPid
      BY <1>9 DEF par
    <3> QED BY <1>1, <1>4, <1>5, <2>2, <3>1 DEF SchedInv, ParentWaits, Active
  <2> QED BY <1>8, <2>5, <2>6, <2>7, <2>8, <2>9, <2>10 DEF SchedInv
<1>10. CASE par # KernelPid
  <2>1. ~Active(par) /\ terminal[par] = tc /\ \A r \in Live : parent[r] = par => r = c
    BY <1>1, <1>2, <1>10 DEF SchedInv, ParentWaits
  <2>2. ret = "syscall_restore_regs" /\ OwnContext(par) /\ registers[par].mode = "user"
    BY <1>2, <1>10, <2>1 DEF SchedInv, ContextsKept, ParentKept
  <2>3. /\ status' = [status EXCEPT ![par] = "TaskActive"]
        /\ process_in_terminal' = [process_in_terminal EXCEPT ![tc] = par]
        /\ cpu' = Resumed(registers[par])
    BY <1>2, <1>3, <1>10, <2>1, <2>2 DEF HaltFinish
  <2>4. parent[c] = par
    OBVIOUS
  <2> HIDE DEF c, par, ret, tc
  <2>5. /\ process_in_terminal'[tc] = par
        /\ \A u \in Terminals \ {tc} : process_in_terminal'[u] = process_in_terminal[u]
        /\ status'[par] = "TaskActive" /\ \A p \in Pids \ {par} : status'[p] = status[p]
    BY <1>2, <2>3 DEF SchedInv, TypeOK
  <2>6. cpu' = [mode |-> "user", user |-> par, stack |-> NULL]
    BY <1>2, <2>2, <2>3 DEF Resumed, OwnContext, SchedInv, TypeOK, Context
  <2>7. TypeOK'
    <3>1. cpu' \in Context
      BY <1>2, <2>6 DEF Context, Modes
    <3>2. /\ status' \in [Pids -> {"TaskActive", "TaskIdle"}]
          /\ process_in_terminal' \in [Terminals -> Pids \cup {NULL}]
      BY <1>2, <2>3 DEF SchedInv, TypeOK
    <3> QED BY <1>2, <1>3, <1>4, <1>5, <3>1, <3>2 DEF SchedInv, TypeOK
  <2>8. QueueOK'
    BY <1>1, <1>4, <1>10, <2>5, KernelPidType DEF SchedInv, QueueOK, InjectiveSeq, Active
  <2>9. CurrentOK'
    BY <1>2, <1>3, <1>4, <1>10, <2>5, <2>6 DEF CurrentOK, ContextOf, KernelEntry, Active
  <2>10. ContextsKept'
    <3>1. \A p \in Live' \ {KernelPid, par} : p \in Live \ {KernelPid, c} /\ status'[p] = status[p]
      BY <1>1, <1>4, <2>5
    <3>2. c # KernelPid
      BY <1>1
    <3> QED BY <1>3, <1>5, <3>1, <3>2
            DEF SchedInv, ContextsKept, ParentKept, OwnContext, Active, c
  <2>11. TerminalOwner'
    <3>1. ASSUME NEW p \in Live' \ {KernelPid}, Active(p)'
          PROVE  process_in_terminal'[terminal'[p]] = p
      <4>1. CASE p = par
        BY <4>1, <1>5, <2>1, <2>5
      <4>2. CASE p # par
        <5>1. p \in Live \ {KernelPid, c} /\ Active(p) /\ terminal'[p] = terminal[p]
          BY <1>1, <1>4, <1>5, <2>5, <3>1, <4>2 DEF Active
        <5>2. terminal[p] \in Terminals /\ process_in_terminal[terminal[p]] = p
          BY <5>1 DEF SchedInv, TreeOK, TerminalOwner
        <5>3. terminal[p] # tc
          BY <1>6, <5>1, <5>2
        <5> QED BY <2>5, <5>1, <5>2, <5>3
      <4> QED BY <4>1, <4>2
    <3>2. ASSUME NEW u \in Terminals, ~IsFree(u)'
          PROVE  /\ process_in_terminal'[u] \in Live'
                 /\ status'[process_in_terminal'[u]] = "TaskActive"
                 /\ terminal'[process_in_terminal'[u]] = u
      <4>1. CASE u = tc
        BY <4>1, <1>2, <1>4, <1>5, <2>1, <2>5
      <4>2. CASE u # tc
        <5> DEFINE p == process_in_terminal[u]
        <5>1. process_in_terminal'[u] = p /\ p \in Live /\ Active(p) /\ terminal[p] = u
          BY <2>5, <3>2, <4>2 DEF SchedInv, TerminalOwner, IsFree
        <5>2. p # c /\ p # par
          BY <2>1, <4>2, <5>1 DEF tc
        <5> QED BY <1>1, <1>4, <1>5, <2>5, <5>1, <5>2 DEF Active
      <4> QED BY <4>1, <4>2
    <3> QED BY <3>1, <3>2 DEF TerminalOwner, Active
  <2>12. ParentWaits'
    <3>1. \A p \in Live' : parent'[p] # par
      BY <1>4, <1>5, <2>1
    <3>2. ASSUME NEW q \in Live' \ {KernelPid, par}
          PROVE  IF Active(q)' THEN \A p \in Live' : parent'[p] # q
                 ELSE \E p \in Live' : /\ terminal'[p] = terminal'[q]
                                      /\ \A r \in Live' : parent'[r] = q <=> r = p
      <4>1. q \in Live \ {KernelPid} /\ status'[q] = status[q]
        BY <1>1, <1>4, <2>5
      <4> QED BY <1>4, <1>5, <2>4, <4>1 DEF SchedInv, ParentWaits, Active
    <3> QED BY <2>5, <3>1, <3>2 DEF ParentWaits, Active
  <2> QED BY <1>8, <2>7, <2>8, <2>9, <2>10, <2>11, <2>12 DEF SchedInv
<1> QED BY <1>9, <1>10

-----------------------------------------------------------------------------
(* The theorems.                                                           *)

\* The invariant holds when entry() reaches its idle loop.
LEMMA InitInv == ASSUME Init PROVE SchedInv
<1> USE SchedConstants
<1>1. Live = 0 .. NumShells
  <2>1. DOMAIN runqueue = 1 .. NumShells + 1
        /\ \A i \in 1 .. NumShells + 1 : runqueue[i] = NumShells + 1 - i
    BY DEF Init
  <2>2. \A i \in 1 .. NumShells + 1 : NumShells + 1 - i \in 0 .. NumShells
    OBVIOUS
  <2>3. ASSUME NEW p \in 0 .. NumShells PROVE p \in Live
    <3>1. NumShells + 1 - p \in 1 .. NumShells + 1 /\ runqueue[NumShells + 1 - p] = p
      BY <2>1
    <3> QED BY <2>1, <3>1 DEF Live
  <2> QED BY <2>1, <2>2, <2>3 DEF Live
<1>2. 0 .. NumShells \subseteq Pids
  BY DEF Pids
<1>3. cpu \in Context /\ NoContext \in Context
  BY DEF Init, Context, Modes, NoContext, KernelPid, Pids
<1>4. TypeOK
  <2>1. runqueue \in Seq(Pids)
    <3>1. \A i \in 1 .. NumShells + 1 : NumShells + 1 - i \in Pids
      BY DEF Pids
    <3> QED BY <3>1 DEF Init
  <2>2. /\ status \in [Pids -> {"TaskActive", "TaskIdle"}]
        /\ ret_addr \in [Pids -> RetAddrs] /\ registers \in [Pids -> Context]
    BY <1>3 DEF Init, RetAddrs
  <2>3. /\ parent \in [Pids -> Pids \cup {NULL}]
        /\ terminal \in [Pids -> Terminals \cup {NULL}]
        /\ process_in_terminal \in [Terminals -> Pids \cup {NULL}]
    BY DEF Init, Pids, Terminals, KernelPid, NULL
  <2>4. current_process \in Pids /\ page_pid \in Pids /\ esp0 \in Pids /\ current_terminal \in Terminals
    BY DEF Init, Pids, Terminals, KernelPid
  <2> QED BY <1>3, <2>1, <2>2, <2>3, <2>4 DEF TypeOK
<1>5. \A p \in 1 .. NumShells :
         /\ status[p] = "TaskActive" /\ parent[p] = 0 /\ terminal[p] = p - 1
         /\ ret_addr[p] = "start" /\ process_in_terminal[p - 1] = p /\ p - 1 \in Terminals
  BY DEF Init, Pids, Terminals, KernelPid
<1>6. status[0] = "TaskIdle" /\ parent[0] = NULL /\ terminal[0] = NULL
  BY DEF Init, Pids
<1>7. QueueOK
  BY <1>1, <1>6 DEF Init, QueueOK, Active, KernelPid
<1>8. TreeOK
  BY <1>1, <1>5, <1>6 DEF TreeOK, KernelPid
<1>9. CurrentOK
  BY <1>1 DEF Init, CurrentOK, KernelPid
<1>10. ContextsKept
  <2>1. current_process = KernelPid /\ Live \ {KernelPid, current_process} = 1 .. NumShells
    BY <1>1 DEF Init, KernelPid
  <2> QED BY <1>5, <2>1 DEF ContextsKept, ParentKept, Active
<1>11. TerminalOwner
  <2>1. \A t \in Terminals : ~IsFree(t) =>
           t + 1 \in 1 .. NumShells /\ process_in_terminal[t] = t + 1
    BY DEF Init, IsFree, Terminals, KernelPid, NULL
  <2>2. ASSUME NEW t \in Terminals, ~IsFree(t)
        PROVE  /\ process_in_terminal[t] \in Live
               /\ Active(process_in_terminal[t])
               /\ terminal[process_in_terminal[t]] = t
    <3>1. t + 1 \in 1 .. NumShells /\ process_in_terminal[t] = t + 1 /\ (t + 1) - 1 = t
      BY <2>1, <2>2 DEF Terminals
    <3> QED BY <1>1, <1>5, <3>1 DEF Active
  <2> QED BY <1>1, <1>5, <2>2 DEF TerminalOwner, KernelPid
<1>12. ParentWaits
  BY <1>1, <1>5, <1>6 DEF ParentWaits, Active, KernelPid, NULL
<1> QED BY <1>4, <1>7, <1>8, <1>9, <1>10, <1>11, <1>12 DEF SchedInv

\* Every step of the kernel keeps the invariant.
LEMMA NextInv == ASSUME SchedInv, [Next]_vars PROVE SchedInv'
<1>1. CASE PitHandler
  BY <1>1, PitHandlerStep
<1>2. CASE Spin
  BY <1>2, SpinStep
<1>3. CASE ReadWait
  BY <1>3, ReadWaitStep
<1>4. CASE ReadDone
  BY <1>4, ReadDoneStep
<1>5. CASE Execute
  BY <1>5, ExecuteStep
<1>6. CASE Halt
  BY <1>6, HaltStep DEF Halt
<1>7. CASE Exception
  BY <1>7, ExceptionStep
<1>8. CASE ExceptionHalt
  BY <1>8, HaltStep DEF ExceptionHalt
<1>9. CASE StartClickIdle
  BY <1>9, StartClickIdleStep
<1>10. CASE \E t \in Terminals : SwitchTerminals(t)
  BY <1>10, SwitchTerminalsStep
<1>11. CASE UNCHANGED vars
  <2> USE <1>11 DEF vars, queueVars, pcbVars, cpuVars, termVars
  <2>1. Live' = Live
    BY DEF Live
  <2>2. TypeOK' /\ QueueOK' /\ TreeOK' /\ CurrentOK'
    BY <2>1 DEF SchedInv, TypeOK, QueueOK, TreeOK, CurrentOK, ContextOf, KernelEntry, Active
  <2>3. ContextsKept' /\ TerminalOwner' /\ ParentWaits'
    BY <2>1 DEF SchedInv, ContextsKept, ParentKept, OwnContext, TerminalOwner, IsFree,
      ParentWaits, Active
  <2> QED BY <2>2, <2>3 DEF SchedInv
<1> QED BY <1>1, <1>2, <1>3, <1>4, <1>5, <1>6, <1>7, <1>8, <1>9, <1>10, <1>11 DEF Next

\* The invariant implies that the running program runs as itself.
LEMMA InvRunsAsItself == ASSUME SchedInv PROVE RunsAsItself
BY DEF SchedInv, CurrentOK, ContextOf, KernelEntry, RunsAsItself

\* The inductive invariant holds in every reachable state of the kernel.
THEOREM SchedInvariance == Spec => []SchedInv
BY InitInv, NextInv, PTL DEF Spec

\* Types are kept: no pid, terminal or saved context leaves its range.
THEOREM SchedTypeCorrect == Spec => []TypeOK
<1>1. SchedInv => TypeOK
  BY DEF SchedInv
<1> QED BY <1>1, SchedInvariance, PTL

\* However processes are preempted, blocked, started, squashed and ended, a program runs
\* with its own pages, kernel stack and PCB, and execution never reaches a bad address.
THEOREM ProgramsRunAsThemselves == Spec => []RunsAsItself
BY InvRunsAsItself, SchedInvariance, PTL

\* Every process that does not run can be resumed as itself.
THEOREM ContextsAreKept == Spec => []ContextsKept
<1>1. SchedInv => ContextsKept
  BY DEF SchedInv
<1> QED BY <1>1, SchedInvariance, PTL

\* One active process per terminal, and process_in_terminal is it.
THEOREM TerminalsHaveOneOwner == Spec => []TerminalOwner
<1>1. SchedInv => TerminalOwner
  BY DEF SchedInv
<1> QED BY <1>1, SchedInvariance, PTL

\* A waiting process has exactly one child to wait for, an active one has none.
THEOREM ParentsWaitForOneChild == Spec => []ParentWaits
<1>1. SchedInv => ParentWaits
  BY DEF SchedInv
<1> QED BY <1>1, SchedInvariance, PTL

-----------------------------------------------------------------------------
(* vidmap: where programs draw.                                            *)

Tables == [Pids -> [pd : {NULL, 0, 1}, pt : [{0, 1} -> PhysicalPages]]]

\* PageOf by given tables.
PageIn(tables, p) ==
    IF tables[p].pd = NULL THEN None ELSE tables[p].pt[tables[p].pd]

\* PageOf reads the current tables.
LEMMA PageOfIn == \A p \in Pids : PageOf(p) = PageIn(page_tables, p)
BY DEF PageOf, PageIn

\* map_4kb_page sets one process's page and leaves the others' tables alone.
LEMMA MapFacts ==
  ASSUME NEW tables \in Tables, NEW where \in PhysicalPages, NEW p \in Pids, NEW i \in {0, 1}
  PROVE  LET new == Map4kbPage(tables, where, p, i) IN
         /\ new \in Tables
         /\ PageIn(new, p) = where
         /\ \A q \in Pids \ {p} : PageIn(new, q) = PageIn(tables, q)
<1> DEFINE new == Map4kbPage(tables, where, p, i)
<1>1. \A q \in Pids : tables[q] \in [pd : {NULL, 0, 1}, pt : [{0, 1} -> PhysicalPages]]
  BY DEF Tables
<1>2. /\ new[p].pd = i /\ new[p].pt[i] = where
      /\ \A q \in Pids \ {p} : new[q] = tables[q]
  BY <1>1 DEF Map4kbPage, Tables
<1>3. new \in Tables
  BY <1>1 DEF Map4kbPage, Tables
<1>4. i # NULL
  BY DEF NULL
<1> HIDE DEF new
<1>5. PageIn(new, p) = where
  BY <1>2, <1>4 DEF PageIn
<1>6. \A q \in Pids \ {p} : PageIn(new, q) = PageIn(tables, q)
  BY <1>2 DEF PageIn
<1> QED BY <1>3, <1>5, <1>6 DEF new

\* A process that has called vidmap is on its terminal if it is the one found there.
LEMMA ForegroundFacts ==
  ASSUME SchedInv, VidmapTypeOK, ~vidmap_flag[KernelPid],
         NEW tables \in Tables, NEW where \in PhysicalPages, NEW u \in Terminals
  PROVE  LET new == MapForeground(tables, u, where) IN
         /\ new \in Tables
         /\ \A p \in Drawers :
               /\ p = process_in_terminal[u] => PageIn(new, p) = where /\ terminal[p] = u
               /\ p # process_in_terminal[u] => PageIn(new, p) = PageIn(tables, p)
<1> DEFINE f == process_in_terminal[u]
           new == MapForeground(tables, u, where)
<1>1. f \in Pids \cup {NULL} /\ Live \subseteq Pids /\ Drawers \subseteq Pids
  BY LiveType DEF SchedInv, TypeOK, Drawers
<1>2. \A p \in Drawers : p = f => vidmap_flag[f] /\ f # NULL /\ terminal[f] = u
  <2>1. SUFFICES ASSUME NEW p \in Drawers, p = f
                 PROVE  vidmap_flag[f] /\ f # NULL /\ terminal[f] = u
    OBVIOUS
  <2>2. f # NULL /\ f # KernelPid /\ vidmap_flag[f]
    BY <1>1, <2>1, NoNull DEF Drawers
  <2>3. ~IsFree(u)
    BY <2>2 DEF IsFree
  <2> QED BY <2>2, <2>3 DEF SchedInv, TerminalOwner
<1>3. CASE f # NULL /\ vidmap_flag[f]
  <2>1. new = Map4kbPage(tables, where, f, 0) /\ f \in Pids
    BY <1>1, <1>3 DEF MapForeground
  <2>2. /\ new \in Tables /\ PageIn(new, f) = where
        /\ \A q \in Pids \ {f} : PageIn(new, q) = PageIn(tables, q)
    <3> HIDE DEF new, f
    <3> QED BY <2>1, MapFacts
  <2> QED BY <1>1, <1>2, <2>2
<1>4. CASE ~(f # NULL /\ vidmap_flag[f])
  <2>1. new = tables
    BY <1>4 DEF MapForeground
  <2> QED BY <1>2, <1>4, <2>1
<1> QED BY <1>3, <1>4

\* What switch_terminals(t) leaves in the tables of those who draw.
LEMMA SwitchedFacts ==
  ASSUME VidmapInv, NEW t \in Terminals
  PROVE  /\ Switched(t) \in Tables
         /\ \A p \in Drawers :
               /\ PageIn(Switched(t), p) \in {VIDEO, Backing(terminal[p])}
               /\ careful[p] => PageIn(Switched(t), p) =
                                IF terminal[p] = t THEN VIDEO ELSE Backing(terminal[p])
<1> DEFINE u    == current_terminal
           half == MapForeground(page_tables, u, Backing(u))
           new  == MapForeground(half, t, VIDEO)
<1>1. /\ SchedInv /\ VidmapTypeOK /\ ~vidmap_flag[KernelPid] /\ page_tables \in Tables
      /\ u \in Terminals /\ VIDEO \in PhysicalPages /\ Backing(u) \in PhysicalPages
  BY DEF VidmapInv, SchedInv, TypeOK, VidmapTypeOK, Tables, PhysicalPages
<1>2. /\ half \in Tables
      /\ \A p \in Drawers :
            /\ p = process_in_terminal[u] => PageIn(half, p) = Backing(u) /\ terminal[p] = u
            /\ p # process_in_terminal[u] => PageIn(half, p) = PageIn(page_tables, p)
  <2> HIDE DEF u
  <2> QED BY <1>1, ForegroundFacts
<1>3. /\ new \in Tables
      /\ \A p \in Drawers :
            /\ p = process_in_terminal[t] => PageIn(new, p) = VIDEO /\ terminal[p] = t
            /\ p # process_in_terminal[t] => PageIn(new, p) = PageIn(half, p)
  <2> HIDE DEF half
  <2> QED BY <1>1, <1>2, ForegroundFacts
<1>4. new = Switched(t)
  BY DEF Switched
<1> HIDE DEF new, half
<1>5. \A p \in Drawers :
         /\ p \in Pids /\ PageIn(page_tables, p) \in {VIDEO, Backing(terminal[p])}
         /\ careful[p] => /\ process_in_terminal[terminal[p]] = p
                          /\ PageIn(page_tables, p) =
                                IF terminal[p] = u THEN VIDEO ELSE Backing(terminal[p])
  <2>1. SUFFICES ASSUME NEW p \in Drawers
                 PROVE  /\ p \in Pids /\ PageIn(page_tables, p) \in {VIDEO, Backing(terminal[p])}
                        /\ careful[p] => /\ process_in_terminal[terminal[p]] = p
                                         /\ PageIn(page_tables, p) =
                                            IF terminal[p] = u THEN VIDEO ELSE Backing(terminal[p])
    OBVIOUS
  <2>2. p \in Pids /\ p \in Live \ {KernelPid}
    BY <1>1, LiveType DEF Drawers, SchedInv
  <2>3. PageOf(p) = PageIn(page_tables, p)
    BY <2>2, PageOfIn
  <2>4. PageIn(page_tables, p) \in {VIDEO, Backing(terminal[p])}
    BY <2>1, <2>3 DEF VidmapInv, OwnPages
  <2>5. ASSUME careful[p]
        PROVE  PageIn(page_tables, p) = IF terminal[p] = u THEN VIDEO ELSE Backing(terminal[p])
    BY <2>1, <2>3, <2>5 DEF VidmapInv, DrawsWhereShown
  <2>6. ASSUME careful[p] PROVE process_in_terminal[terminal[p]] = p
    BY <2>2, <2>6 DEF VidmapInv, CarefulForeground, SchedInv, TerminalOwner
  <2> QED BY <2>2, <2>4, <2>5, <2>6
<1>6. ASSUME NEW p \in Drawers
      PROVE  /\ PageIn(new, p) \in {VIDEO, Backing(terminal[p])}
             /\ careful[p] => PageIn(new, p) = IF terminal[p] = t THEN VIDEO ELSE Backing(terminal[p])
  <2>1. CASE p = process_in_terminal[t]
    BY <1>3, <2>1
  <2>2. CASE p # process_in_terminal[t] /\ p = process_in_terminal[u]
    <3>1. PageIn(new, p) = Backing(u) /\ terminal[p] = u
      BY <1>2, <1>3, <2>2
    <3>2. careful[p] => terminal[p] # t
      BY <1>5, <2>2
    <3> QED BY <3>1, <3>2
  <2>3. CASE p # process_in_terminal[t] /\ p # process_in_terminal[u]
    <3>1. PageIn(new, p) = PageIn(page_tables, p)
      BY <1>2, <1>3, <2>3
    <3>2. careful[p] => terminal[p] # t /\ terminal[p] # u
      BY <1>5, <2>3
    <3> QED BY <1>5, <3>1, <3>2
  <2> QED BY <2>1, <2>2, <2>3
<1> QED BY <1>3, <1>4, <1>6

-----------------------------------------------------------------------------
(* Steps.                                                                  *)

\* What the current tables say of those who draw, by VidmapInv.
LEMMA DrawersFacts ==
  ASSUME VidmapInv
  PROVE  \A p \in Drawers :
            /\ PageIn(page_tables, p) \in {VIDEO, Backing(terminal[p])}
            /\ careful[p] => PageIn(page_tables, p) =
                  IF terminal[p] = current_terminal THEN VIDEO ELSE Backing(terminal[p])
<1>1. \A p \in Drawers : PageOf(p) = PageIn(page_tables, p)
  BY PageOfIn, LiveType DEF Drawers, VidmapInv, SchedInv
<1> QED BY <1>1 DEF VidmapInv, OwnPages, DrawsWhereShown

\* A step after which nobody new draws, nobody is newly careful, and the tables fit the
\* terminal that is now shown.
LEMMA KeptStep ==
  ASSUME VidmapInv, SchedInv', VidmapTypeOK', ~vidmap_flag'[KernelPid],
         \A p \in Drawers' : p \in Drawers /\ terminal'[p] = terminal[p],
         \A p \in Pids : careful'[p] => careful[p] /\ p \in Live' /\ Active(p)',
         \A p \in Drawers :
            /\ PageIn(page_tables', p) \in {VIDEO, Backing(terminal[p])}
            /\ careful[p] => PageIn(page_tables', p) =
                  IF terminal[p] = current_terminal' THEN VIDEO ELSE Backing(terminal[p])
  PROVE  VidmapInv'
<1>1. CarefulForeground'
  BY DEF CarefulForeground
<1>2. \A p \in Drawers' : p \in Pids /\ PageOf(p)' = PageIn(page_tables', p)
  BY LiveType DEF Drawers, VidmapInv, SchedInv, PageOf, PageIn
<1>3. \A p \in Drawers' : PageOf(p)' \in {VIDEO, Backing(terminal'[p])}
  BY <1>2
<1>4. \A p \in Drawers' : careful'[p] =>
         PageOf(p)' = IF terminal'[p] = current_terminal' THEN VIDEO ELSE Backing(terminal'[p])
  BY <1>2
<1>5. OwnPages'
  BY <1>3 DEF OwnPages, VIDEO, Backing
<1>6. DrawsWhereShown'
  BY <1>4 DEF DrawsWhereShown, VIDEO, Backing
<1> QED BY <1>1, <1>5, <1>6 DEF VidmapInv

\* The pid that new_process finds.
LEMMA NewPidIs ==
  ASSUME TypeOK, NEW n \in 1 .. MaxProcesses, IsMaxPid(n - 1)
  PROVE  NewPid = n
<1>1. Live \subseteq Pids
  BY LiveType
<1>2. \A k \in 1 .. MaxProcesses : IsMaxPid(k - 1) => k = n
  BY <1>1 DEF IsMaxPid, Pids
<1> QED BY <1>2 DEF NewPid

\* The queue has the same tasks after next_task, and one more after add_process.
LEMMA LiveAfterRotate ==
  ASSUME SchedInv, NEW k \in DOMAIN runqueue, runqueue' = Rotate(runqueue, k)
  PROVE  Live' = Live
<1>1. InjectiveSeq(runqueue) /\ runqueue \in Seq(Pids)
  BY DEF SchedInv, QueueOK, TypeOK, InjectiveSeq
<1>2. Elements(runqueue') = Elements(runqueue)
  BY <1>1, RotateFacts
<1> QED BY <1>2 DEF Live, Elements

LEMMA LiveAfterPush ==
  ASSUME SchedInv, NEW n \in Pids, n \notin Live, runqueue' = <<n>> \o runqueue
  PROVE  Live' = Live \cup {n}
<1>1. InjectiveSeq(runqueue) /\ runqueue \in Seq(Pids) /\ n \notin Elements(runqueue)
  BY LiveElements DEF SchedInv, QueueOK, TypeOK, InjectiveSeq
<1>2. Elements(runqueue') = Elements(runqueue) \cup {n}
  BY <1>1, PushHeadFacts
<1> QED BY <1>2 DEF Live, Elements

\* After a tick or a halt no task is new, and who was active and is still there is active.
LEMMA SwitchesLive ==
  ASSUME SchedInv, PitHandler \/ Halt \/ Spin
  PROVE  /\ Live' \subseteq Live /\ UNCHANGED <<terminal, current_terminal>>
         /\ \A p \in Live' : Active(p) => Active(p)'
<1>1. CASE PitHandler
  <2>1. Live' = Live
    <3>1. CASE \E k \in DOMAIN runqueue : runqueue' = Rotate(runqueue, k)
      BY <3>1, LiveAfterRotate
    <3>2. CASE runqueue' = runqueue
      BY <3>2 DEF Live
    <3> QED BY <1>1, <3>1, <3>2 DEF PitHandler, Schedule
  <2> QED BY <1>1, <2>1 DEF PitHandler, termVars, Active
<1>2. CASE Spin
  <2>1. 1 \in DOMAIN runqueue
    BY DEF SchedInv, TypeOK, QueueOK, Live
  <2>2. Live' = Live
    BY <1>2, <2>1, LiveAfterRotate DEF Spin
  <2> QED BY <1>2, <2>2 DEF Spin, pcbVars, termVars, Active
<1>3. CASE Halt
  <2> DEFINE c == current_process
             par == parent[c]
  <2>1. c \in Live /\ c # KernelPid /\ par # NULL /\ par \in Pids /\ Live \subseteq Pids
    BY <1>3, LiveType, NoNull DEF SchedInv, CurrentOK, TreeOK, Halt, TypeOK
  <2>2. HaltFinish(c, ret_addr[par])
    BY <1>3, <2>1 DEF Halt, SyscallHalt
  <2>3. InjectiveSeq(runqueue) /\ runqueue \in Seq(Pids) /\ c \in Elements(runqueue)
    BY <2>1, LiveElements DEF SchedInv, QueueOK, TypeOK, InjectiveSeq
  <2>4. runqueue' = Without(runqueue, c)
    BY <2>2 DEF HaltFinish
  <2>5. Elements(runqueue') = Elements(runqueue) \ {c}
    BY <2>3, <2>4, WithoutFacts
  <2>6. Live' \subseteq Live
    BY <2>5 DEF Live, Elements
  <2>7. UNCHANGED <<terminal, current_terminal>>
    BY <2>2 DEF HaltFinish, pcbVars
  <2>8. status' = status \/ status' = [status EXCEPT ![par] = "TaskActive"]
    BY <2>2 DEF HaltFinish
  <2>9. \A p \in Live : Active(p) => Active(p)'
    <3> HIDE DEF par
    <3> QED BY <2>1, <2>8 DEF SchedInv, TypeOK, Active
  <2> QED BY <2>6, <2>7, <2>9
<1> QED BY <1>1, <1>2, <1>3

\* The constants that the tables hold.
LEMMA PageTypes ==
  /\ None \in PhysicalPages /\ VIDEO \in PhysicalPages
  /\ VidmapTypeOK => page_tables \in Tables /\ \A p \in Pids : PageOf(p) \in PhysicalPages
BY DEF PhysicalPages, VidmapTypeOK, Tables, PageOf, NULL

\* A tick or a halt.
LEMMA SwitchesStep == ASSUME VidmapInv, SchedInv', Switches PROVE VidmapInv'
<1> USE DEF Switches
<1>1. /\ Live' \subseteq Live /\ UNCHANGED <<terminal, current_terminal>>
      /\ \A p \in Live' : Active(p) => Active(p)'
  BY SwitchesLive DEF VidmapInv
<1>2. VidmapTypeOK'
  BY PageTypes DEF VidmapInv, VidmapTypeOK, Flushed
<1>3. Drawers' \subseteq Drawers
  BY <1>1 DEF Drawers
<1>4. \A p \in Pids : careful'[p] => careful[p] /\ p \in Live' /\ Active(p)'
  BY <1>1 DEF VidmapInv, CarefulForeground
<1>5. ~vidmap_flag'[KernelPid]
  BY DEF VidmapInv
<1> QED BY <1>1, <1>2, <1>3, <1>4, <1>5, DrawersFacts, KeptStep

\* execute(), whichever way it ends.
LEMMA ExecutesStep == ASSUME VidmapInv, SchedInv', Executes PROVE VidmapInv'
<1> USE DEF Executes
<1>1. PICK n \in 1 .. MaxProcesses, t \in Terminals \cup {NULL} :
         /\ NewProcess(current_process, n, t)
         /\ ExecuteLoads(n, t) \/ ExecuteBadProgram(n, t) \/ ExecuteNoProcess(n, t)
  BY DEF Execute
<1>2. SchedInv /\ TypeOK /\ cpu.mode = "user" /\ IsMaxPid(n - 1)
  BY <1>1 DEF VidmapInv, SchedInv, Execute, NewProcess
<1>3. /\ n \notin Live /\ n # KernelPid /\ (n < MaxProcesses => n \in Pids)
      /\ Live \subseteq Pids /\ NewPid = n
  BY <1>2, FreshPid, LiveType, NewPidIs DEF SchedInv
<1>4. /\ current_process \in Live /\ current_process # KernelPid
      /\ t = terminal[current_process] /\ t # NULL
  BY <1>1, <1>2, NoNull DEF SchedInv, CurrentOK, TreeOK, NewProcess
<1>5. /\ vidmap_flag' \in [Pids -> BOOLEAN] /\ ~vidmap_flag'[KernelPid]
      /\ \A p \in Pids : vidmap_flag'[p] => vidmap_flag[p]
      /\ PidAvailable(n) => ~vidmap_flag'[n]
  BY <1>3, KernelPidType DEF VidmapInv, VidmapTypeOK, NewFlags, PidAvailable
<1>6. VidmapTypeOK'
  BY <1>3, <1>4, <1>5, PageTypes DEF VidmapInv, VidmapTypeOK, Flushed
<1>7. /\ \A p \in Live : terminal'[p] = terminal[p]
      /\ UNCHANGED current_terminal
  <2>1. CASE ExecuteLoads(n, t) \/ ExecuteBadProgram(n, t)
    <3>1. InitPcb(current_process, n, t)
      BY <2>1 DEF ExecuteLoads, ExecuteBadProgram
    <3> QED BY <1>2, <1>3, <1>4, <3>1 DEF InitPcb, TypeOK
  <2>2. CASE ExecuteNoProcess(n, t)
    BY <1>4, <2>2 DEF ExecuteNoProcess, NoNewProcess
  <2> QED BY <1>1, <2>1, <2>2
<1>8. CASE ExecuteLoads(n, t)
  <2>1. n \in Pids /\ PidAvailable(n) /\ runqueue' = <<n>> \o runqueue /\ current_process' = n
    BY <1>3, <1>8 DEF ExecuteLoads, PidAvailable, AddProcess, SetCurrentProcess
  <2>2. Live' = Live \cup {n}
    BY <1>2, <1>3, <2>1, LiveAfterPush
  <2>3. \A p \in Drawers' : p \in Drawers /\ terminal'[p] = terminal[p]
    BY <1>3, <1>5, <1>7, <2>1, <2>2 DEF Drawers
  <2>4. \A p \in Pids \ {current_process} : Active(p) => Active(p)'
    BY <1>2, <1>8, <2>1 DEF ExecuteLoads, TypeOK, Active
  <2>5. \A p \in Pids : careful'[p] => careful[p] /\ p # current_process
    BY <1>3, <1>4, <2>1 DEF VidmapInv, VidmapTypeOK
  <2>6. \A p \in Pids : careful'[p] => careful[p] /\ p \in Live' /\ Active(p)'
    BY <2>2, <2>4, <2>5 DEF VidmapInv, CarefulForeground
  <2> QED BY <1>5, <1>6, <1>7, <2>3, <2>6, DrawersFacts, KeptStep
<1>9. CASE ExecuteBadProgram(n, t) \/ ExecuteNoProcess(n, t)
  <2>1. UNCHANGED <<runqueue, status>>
    BY <1>9 DEF ExecuteBadProgram, ExecuteNoProcess, queueVars
  <2>2. Live' = Live
    BY <2>1 DEF Live
  <2>3. \A p \in Drawers' : p \in Drawers /\ terminal'[p] = terminal[p]
    BY <1>3, <1>5, <1>7, <2>2 DEF Drawers
  <2>4. \A p \in Pids : careful'[p] => careful[p]
    BY <1>3, <1>4 DEF VidmapInv, VidmapTypeOK
  <2>5. \A p \in Pids : careful'[p] => careful[p] /\ p \in Live' /\ Active(p)'
    BY <2>1, <2>2, <2>4 DEF VidmapInv, CarefulForeground, Active
  <2> QED BY <1>5, <1>6, <1>7, <2>3, <2>5, DrawersFacts, KeptStep
<1> QED BY <1>1, <1>8, <1>9

\* A click on Start.
LEMMA StartsStep == ASSUME VidmapInv, SchedInv', Starts PROVE VidmapInv'
<1> USE DEF Starts
<1>1. PICK n \in 1 .. MaxProcesses, t \in Terminals \cup {NULL} :
         NewProcess(KernelPid, n, t) /\ (SpawnShell(n, t) \/ SpawnNoProcess(n, t))
  BY DEF StartClickIdle, KernelSpawn
<1>2. SchedInv /\ TypeOK /\ IsMaxPid(n - 1) /\ terminal[KernelPid] = NULL
  BY <1>1 DEF VidmapInv, SchedInv, TreeOK, NewProcess
<1>3. /\ n \notin Live /\ n # KernelPid /\ (n < MaxProcesses => n \in Pids)
      /\ Live \subseteq Pids /\ NewPid = n
  BY <1>2, FreshPid, LiveType, NewPidIs DEF SchedInv
<1>4. CASE SpawnShell(n, t)
  <2>1. /\ n \in Pids /\ PidAvailable(n) /\ t \in Terminals /\ InitPcb(KernelPid, n, t)
        /\ runqueue' = <<n>> \o runqueue
    BY <1>3, <1>4 DEF SpawnShell, PidAvailable, AddProcess
  <2>2. Live' = Live \cup {n}
    BY <1>2, <1>3, <2>1, LiveAfterPush
  <2>3. runqueue' # runqueue
    BY <1>3, <2>2 DEF Live
  <2>4. /\ current_terminal' = t /\ page_tables' = Switched(t)
        /\ \A p \in Live : terminal'[p] = terminal[p]
    BY <1>2, <1>3, <2>1, <2>3, NoNull DEF InitPcb, TypeOK
  <2>5. /\ vidmap_flag' \in [Pids -> BOOLEAN] /\ ~vidmap_flag'[KernelPid] /\ ~vidmap_flag'[n]
        /\ \A p \in Pids : vidmap_flag'[p] => vidmap_flag[p]
    BY <1>3, <2>1, <2>3, KernelPidType DEF VidmapInv, VidmapTypeOK, NewFlags
  <2>6. \A p \in Drawers' : p \in Drawers /\ terminal'[p] = terminal[p]
    BY <1>3, <2>2, <2>4, <2>5 DEF Drawers
  <2>7. \A p \in Pids : careful'[p] => careful[p] /\ p \in Live' /\ Active(p)'
    <3>1. \A p \in Pids : Active(p) => Active(p)'
      BY <1>2, <1>4, <2>1 DEF SpawnShell, TypeOK, Active
    <3> QED BY <2>2, <3>1 DEF VidmapInv, CarefulForeground
  <2>8. VidmapTypeOK'
    BY <2>1, <2>3, <2>4, <2>5, SwitchedFacts, PageTypes DEF VidmapInv, VidmapTypeOK, Flushed, Tables
  <2> QED BY <2>1, <2>4, <2>5, <2>6, <2>7, <2>8, SwitchedFacts, KeptStep
<1>5. CASE SpawnNoProcess(n, t)
  <2>1. UNCHANGED <<runqueue, status>> /\ NoNewProcess(KernelPid, n, t)
    BY <1>5 DEF SpawnNoProcess, queueVars
  <2>2. UNCHANGED <<vidmap_flag, page_tables, tlb, careful>> /\ Live' = Live
    BY <2>1 DEF Live
  <2>3. current_terminal' = current_terminal /\ \A p \in Live : terminal'[p] = terminal[p]
    BY <1>2, <1>3, <2>1 DEF NoNewProcess, InitPcb, PidAvailable, TypeOK
  <2>4. VidmapTypeOK' /\ ~vidmap_flag'[KernelPid]
    BY <2>2 DEF VidmapInv, VidmapTypeOK
  <2>5. \A p \in Drawers' : p \in Drawers /\ terminal'[p] = terminal[p]
    BY <2>2, <2>3 DEF Drawers
  <2>6. \A p \in Pids : careful'[p] => careful[p] /\ p \in Live' /\ Active(p)'
    BY <2>1, <2>2 DEF VidmapInv, CarefulForeground, Active
  <2> QED BY <2>2, <2>3, <2>4, <2>5, <2>6, DrawersFacts, KeptStep
<1> QED BY <1>1, <1>4, <1>5

\* Alt+Fn or a click on a terminal's segment.
LEMMA ShowsStep ==
  ASSUME VidmapInv, SchedInv', NEW t \in Terminals, Shows(t) PROVE VidmapInv'
<1> USE DEF Shows
<1>1. /\ current_terminal' = t /\ UNCHANGED <<runqueue, status, terminal, vidmap_flag, careful, tlb>>
      /\ page_tables' = Switched(t)
  BY DEF SwitchTerminals, queueVars, pcbVars
<1>2. Live' = Live
  BY <1>1 DEF Live
<1>3. VidmapTypeOK' /\ ~vidmap_flag'[KernelPid]
  BY <1>1, SwitchedFacts DEF VidmapInv, VidmapTypeOK, Tables
<1>4. \A p \in Drawers' : p \in Drawers /\ terminal'[p] = terminal[p]
  BY <1>1, <1>2 DEF Drawers
<1>5. \A p \in Pids : careful'[p] => careful[p] /\ p \in Live' /\ Active(p)'
  BY <1>1, <1>2 DEF VidmapInv, CarefulForeground, Active
<1> QED BY <1>1, <1>3, <1>4, <1>5, SwitchedFacts, KeptStep

\* Drawing, and steps that change nothing here.
LEMMA QuietStep ==
  ASSUME VidmapInv, SchedInv', UNCHANGED <<vars, vidmap_flag, page_tables, careful>>,
         tlb' \in PhysicalPages
  PROVE  VidmapInv'
<1>1. UNCHANGED <<runqueue, status, terminal, current_terminal>>
  BY DEF vars, queueVars, pcbVars, termVars
<1>2. Live' = Live
  BY <1>1 DEF Live
<1>3. VidmapTypeOK' /\ ~vidmap_flag'[KernelPid]
  BY DEF VidmapInv, VidmapTypeOK
<1>4. \A p \in Drawers' : p \in Drawers /\ terminal'[p] = terminal[p]
  BY <1>1, <1>2 DEF Drawers
<1>5. \A p \in Pids : careful'[p] => careful[p] /\ p \in Live' /\ Active(p)'
  BY <1>1, <1>2 DEF VidmapInv, CarefulForeground, Active
<1> QED BY <1>1, <1>3, <1>4, <1>5, DrawersFacts, KeptStep

\* vidmap: the caller is on the screen, and careful if that is where its terminal is.
LEMMA SyscallVidmapStep ==
  ASSUME VidmapInv, SchedInv', SyscallVidmap PROVE VidmapInv'
<1> DEFINE c == current_process
<1> USE DEF SyscallVidmap
<1>1. /\ c \in Live /\ c # KernelPid /\ Active(c) /\ c \in Pids /\ Live \subseteq Pids
  BY LiveType DEF VidmapInv, SchedInv, CurrentOK, TypeOK
<1>2. /\ UNCHANGED <<runqueue, status, terminal, current_terminal, tlb>> /\ Live' = Live
  BY DEF vars, queueVars, pcbVars, termVars, Live
<1>3. /\ page_tables' \in Tables /\ PageIn(page_tables', c) = VIDEO
      /\ \A q \in Pids \ {c} : PageIn(page_tables', q) = PageIn(page_tables, q)
  <2>1. page_tables \in Tables /\ VIDEO \in PhysicalPages
    BY PageTypes DEF VidmapInv
  <2>2. page_tables' = Map4kbPage(page_tables, VIDEO, c, 1)
    OBVIOUS
  <2> HIDE DEF c
  <2> QED BY <1>1, <2>1, <2>2, MapFacts
<1>4. /\ vidmap_flag' \in [Pids -> BOOLEAN]
      /\ \A q \in Pids \ {c} : vidmap_flag'[q] = vidmap_flag[q] /\ careful'[q] = careful[q]
      /\ careful'[c] = (terminal[c] = current_terminal)
      /\ careful' \in [Pids -> BOOLEAN]
  BY <1>1 DEF VidmapInv, VidmapTypeOK
<1>5. VidmapTypeOK' /\ ~vidmap_flag'[KernelPid]
  BY <1>1, <1>2, <1>3, <1>4, KernelPidType DEF VidmapInv, VidmapTypeOK, Tables
<1> HIDE DEF c
<1>6. CarefulForeground'
  BY <1>1, <1>2, <1>4 DEF VidmapInv, CarefulForeground, Active
<1>7. \A p \in Drawers' : p \in Pids /\ PageOf(p)' = PageIn(page_tables', p)
  BY <1>1, <1>2 DEF Drawers, PageOf, PageIn
<1>8. \A p \in Drawers' \ {c} : p \in Drawers
  BY <1>1, <1>2, <1>4 DEF Drawers
<1>9. \A p \in Drawers' : PageOf(p)' \in {VIDEO, Backing(terminal[p])}
  BY <1>3, <1>7, <1>8, DrawersFacts
<1>10. \A p \in Drawers' : careful'[p] =>
          PageOf(p)' = IF terminal[p] = current_terminal THEN VIDEO ELSE Backing(terminal[p])
  <2>1. careful'[c] => terminal[c] = current_terminal
    BY <1>4
  <2>2. \A p \in Drawers' \ {c} : careful'[p] => careful[p]
    BY <1>4, <1>7
  <2> QED BY <1>3, <1>7, <1>8, <2>1, <2>2, DrawersFacts
<1>11. OwnPages' /\ DrawsWhereShown'
  BY <1>2, <1>9, <1>10 DEF OwnPages, DrawsWhereShown, VIDEO, Backing
<1> QED BY <1>5, <1>6, <1>11 DEF VidmapInv

\* Nobody draws when the machine has booted.
LEMMA VidmapInitInv == ASSUME VidmapInit PROVE VidmapInv
<1>1. SchedInv
  BY InitInv DEF VidmapInit
<1>2. VidmapTypeOK
  BY PageTypes DEF VidmapInit, VidmapTypeOK
<1>3. Live \subseteq Pids /\ KernelPid \in Pids
  BY <1>1, LiveType, KernelPidType DEF SchedInv
<1>4. Drawers = {} /\ ~vidmap_flag[KernelPid] /\ \A p \in Pids : ~careful[p]
  BY <1>3 DEF VidmapInit, Drawers
<1> QED BY <1>1, <1>2, <1>4 DEF VidmapInv, CarefulForeground, OwnPages, DrawsWhereShown

\* Every step is one of the scheduler's, or leaves its state alone, and keeps the invariant.
LEMMA VidmapNextInv == ASSUME VidmapInv, [VidmapNext]_vidmapVars PROVE VidmapInv'
<1>1. [Next]_vars
  <2>1. CASE Switches
    BY <2>1 DEF Switches, Next
  <2>2. CASE Executes
    BY <2>2 DEF Executes, Next
  <2>3. CASE Starts
    BY <2>3 DEF Starts, Next
  <2>4. CASE \E t \in Terminals : Shows(t)
    BY <2>4 DEF Shows, Next
  <2>5. CASE SyscallVidmap \/ Draw \/ UNCHANGED vidmapVars
    BY <2>5 DEF SyscallVidmap, Draw, vidmapVars
  <2> QED BY <2>1, <2>2, <2>3, <2>4, <2>5 DEF VidmapNext
<1>2. SchedInv'
  BY <1>1, NextInv DEF VidmapInv
<1>3. CASE Switches
  BY <1>2, <1>3, SwitchesStep
<1>4. CASE Executes
  BY <1>2, <1>4, ExecutesStep
<1>5. CASE Starts
  BY <1>2, <1>5, StartsStep
<1>6. CASE \E t \in Terminals : Shows(t)
  BY <1>2, <1>6, ShowsStep
<1>7. CASE SyscallVidmap
  BY <1>2, <1>7, SyscallVidmapStep
<1>8. CASE Draw
  <2>1. tlb' \in PhysicalPages
    <3>1. page_pid \in Pids
      BY DEF VidmapInv, SchedInv, TypeOK
    <3> QED BY <1>8, <3>1, PageTypes DEF Draw, VidmapInv
  <2> QED BY <1>2, <1>8, <2>1, QuietStep DEF Draw
<1>9. CASE UNCHANGED vidmapVars
  <2>1. UNCHANGED <<vars, vidmap_flag, page_tables, careful>> /\ tlb' = tlb
    BY <1>9 DEF vidmapVars, videoVars
  <2>2. tlb' \in PhysicalPages
    BY <2>1 DEF VidmapInv, VidmapTypeOK
  <2> QED BY <1>2, <2>1, <2>2, QuietStep
<1> QED BY <1>3, <1>4, <1>5, <1>6, <1>7, <1>8, <1>9 DEF VidmapNext

-----------------------------------------------------------------------------
(* Theorems.                                                               *)

\* The inductive invariant of the page tables holds in every reachable state.
THEOREM VidmapInvariance == VidmapSpec => []VidmapInv
BY VidmapInitInv, VidmapNextInv, PTL DEF VidmapSpec

\* Whoever has called vidmap draws on the screen or on its own terminal's backing page.
THEOREM DrawersKeepToTheirPages == VidmapSpec => []OwnPages
<1>1. VidmapInv => OwnPages
  BY DEF VidmapInv
<1> QED BY <1>1, VidmapInvariance, PTL

\* Whoever called vidmap while shown, and has run no program since, draws on the screen
\* exactly while its terminal is shown.
THEOREM CarefulDrawersDrawWhereShown == VidmapSpec => []DrawsWhereShown
<1>1. VidmapInv => DrawsWhereShown
  BY DEF VidmapInv
<1> QED BY <1>1, VidmapInvariance, PTL
=============================================================================
