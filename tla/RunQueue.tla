------------------------------ MODULE RunQueue ------------------------------
(***************************************************************************)
(* What task.c's run queue promises its callers: an ordered collection of  *)
(* tasks, none of them twice.  Each operation is a relation between the    *)
(* queue before it, q, and the queue after it, r.                          *)
(***************************************************************************)
EXTENDS QueueOps

CONSTANTS Tasks, KernelTask
VARIABLE queue

\* add_process
Add(q, r) == \E t \in Tasks \ Elements(q) : r = <<t>> \o q

\* close_process; the kernel's task is never closed.
Close(q, r) == \E t \in Elements(q) \ {KernelTask} : r = Without(q, t)

\* next_task
NextTask(q, r) == q # <<>> /\ r = Rotate(q, 1)

Step(q, r) == Add(q, r) \/ Close(q, r) \/ NextTask(q, r)

Init == queue = <<>>
Next == Step(queue, queue')
Spec == Init /\ [][Next]_queue
=============================================================================
