----------------------------- MODULE TaskQueue -----------------------------
(***************************************************************************)
(* The run queue as task.c:261-406 keeps it: task_t records from kmalloc,  *)
(* doubly linked through next and prev, with head, tail and num_tasks.     *)
(* Every caller has interrupts disabled, so an operation is one step.      *)
(***************************************************************************)
EXTENDS Integers, Sequences

CONSTANTS
    Tasks,        \* blocks that kmalloc can hand out for a task_t
    KernelTask,   \* the block of the kernel process's task, queued at boot
    NULL

ASSUME TaskQueueConstants == KernelTask \in Tasks /\ NULL \notin Tasks

VARIABLES
    runqueue,     \* the task_queue_t, with the next and prev fields of all task_t
    allocated     \* blocks that kmalloc has handed out and kfree not taken back

vars == <<runqueue, allocated>>

Link == Tasks \cup {NULL}

\* remove_task on a queue of one or no task: NULL unless it is that task.
RemoveLast(q, t) ==
    IF t = q.head
    THEN [head |-> NULL, tail |-> NULL, num_tasks |-> q.num_tasks - 1,
          next |-> [q.next EXCEPT ![t] = NULL], prev |-> [q.prev EXCEPT ![t] = NULL]]
    ELSE q

\* MUTANT of RemoveLinked: the tail is not moved back.
RemoveLinkedOldTail(q, t) ==
    LET p == q.prev[t]
        n == q.next[t]
    IN  [head      |-> IF t = q.head THEN n ELSE q.head,
         tail      |-> q.tail,
         num_tasks |-> q.num_tasks - 1,
         next      |-> [x \in Tasks |-> IF x = t THEN NULL ELSE IF x = p THEN n ELSE q.next[x]],
         prev      |-> [x \in Tasks |-> IF x = t THEN NULL ELSE IF x = n THEN p ELSE q.prev[x]]]

\* remove_task among several: its neighbours are linked to each other, and head or
\* tail moves if it was t.
RemoveLinked(q, t) ==
    LET p == q.prev[t]
        n == q.next[t]
    IN  [head      |-> IF t = q.head THEN n ELSE q.head,
         tail      |-> IF t = q.tail THEN p ELSE q.tail,
         num_tasks |-> q.num_tasks - 1,
         next      |-> [x \in Tasks |-> CASE x = t -> NULL
                                          [] x # t /\ x = p -> IF t = q.tail THEN NULL ELSE n
                                          [] OTHER -> q.next[x]],
         prev      |-> [x \in Tasks |-> CASE x = t -> NULL
                                          [] x # t /\ x = n -> p
                                          [] OTHER -> q.prev[x]]]

RemoveTask(q, t) == IF q.num_tasks <= 1 THEN RemoveLast(q, t) ELSE RemoveLinked(q, t)

\* Whether remove_task returns the task, and not NULL.
Removes(q, t) == q.num_tasks > 1 \/ t = q.head

\* MUTANT of PushHeadTask: num_tasks is not counted up.
PushHeadTaskUncounted(q, t) ==
    [head      |-> t,
     tail      |-> IF q.head = NULL THEN t ELSE q.tail,
     num_tasks |-> q.num_tasks,
     next      |-> [q.next EXCEPT ![t] = q.head],
     prev      |-> [x \in Tasks |-> IF x = t THEN NULL ELSE IF x = q.head THEN t ELSE q.prev[x]]]

PushHeadTask(q, t) ==
    [head      |-> t,
     tail      |-> IF q.head = NULL THEN t ELSE q.tail,
     num_tasks |-> q.num_tasks + 1,
     next      |-> [q.next EXCEPT ![t] = q.head],
     prev      |-> [x \in Tasks |-> IF x = q.head THEN t ELSE IF x = t THEN NULL ELSE q.prev[x]]]

\* MUTANT of PushTailTask: the new tail does not point back.
PushTailTaskOneWay(q, t) ==
    [head      |-> IF q.tail = NULL THEN t ELSE q.head,
     tail      |-> t,
     num_tasks |-> q.num_tasks + 1,
     next      |-> [x \in Tasks |-> IF x = q.tail THEN t ELSE IF x = t THEN NULL ELSE q.next[x]],
     prev      |-> q.prev]

PushTailTask(q, t) ==
    [head      |-> IF q.tail = NULL THEN t ELSE q.head,
     tail      |-> t,
     num_tasks |-> q.num_tasks + 1,
     next      |-> [x \in Tasks |-> IF x = q.tail THEN t ELSE IF x = t THEN NULL ELSE q.next[x]],
     prev      |-> [q.prev EXCEPT ![t] = q.tail]]

-----------------------------------------------------------------------------
\* add_process: a fresh block, pushed at the head.  The kernel's task is the first one.
AddProcess(t) ==
    /\ t \in Tasks \ allocated
    /\ allocated = {} => t = KernelTask
    /\ allocated' = allocated \cup {t}
    /\ runqueue' = PushHeadTask(runqueue, t)

\* close_process: free_task(remove_task(t)); the free of NULL does nothing.
CloseProcess(t) ==
    /\ t \in allocated \ {KernelTask}
    /\ runqueue' = RemoveTask(runqueue, t)
    /\ allocated' = IF Removes(runqueue, t) THEN allocated \ {t} ELSE allocated

\* next_task: the head is popped and pushed at the tail.
NextTask ==
    LET top == runqueue.head IN
    /\ top # NULL
    /\ runqueue' = PushTailTask(RemoveTask(runqueue, top), top)
    /\ UNCHANGED allocated

\* init_taskqueue
Init ==
    /\ runqueue = [head |-> NULL, tail |-> NULL, num_tasks |-> 0,
                   next |-> [t \in Tasks |-> NULL], prev |-> [t \in Tasks |-> NULL]]
    /\ allocated = {}

Next == (\E t \in Tasks : AddProcess(t) \/ CloseProcess(t)) \/ NextTask

Spec == Init /\ [][Next]_vars

-----------------------------------------------------------------------------
(* Properties.                                                             *)

Lists == [head : Link, tail : Link, num_tasks : Nat,
          next : [Tasks -> Link], prev : [Tasks -> Link]]

TypeOK ==
    /\ runqueue \in Lists
    /\ allocated \subseteq Tasks

\* The links of list l spell out the sequence q in both directions.
Represents(l, q) ==
    LET n == l.num_tasks IN
    /\ \A i, j \in 1 .. n : q[i] = q[j] => i = j
    /\ l.head = IF n = 0 THEN NULL ELSE q[1]
    /\ l.tail = IF n = 0 THEN NULL ELSE q[n]
    /\ \A i \in 1 .. n : /\ l.next[q[i]] = IF i = n THEN NULL ELSE q[i + 1]
                         /\ l.prev[q[i]] = IF i = 1 THEN NULL ELSE q[i - 1]

\* However tasks are queued, rotated and closed, num_tasks tasks hang together through
\* next and, backwards, through prev, and they are exactly the blocks in use: a walk like
\* new_process's meets every task once and ends, none is lost and none is used after free.
ListOK ==
    \E q \in [1 .. runqueue.num_tasks -> Tasks] :
       Represents(runqueue, q) /\ allocated = {q[i] : i \in 1 .. runqueue.num_tasks}

\* The tasks that a walk along list l from the head meets, in order.
WalkOf(l) ==
    LET at[k \in 1 .. l.num_tasks] == IF k = 1 THEN l.head ELSE l.next[at[k - 1]] IN at

Walk == WalkOf(runqueue)

Queue == INSTANCE RunQueue WITH queue <- Walk

\* The linked list implements the queue that schedule() and execute() rely on.
ImplementsRunQueue == Queue!Spec
=============================================================================
