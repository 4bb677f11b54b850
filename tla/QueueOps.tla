------------------------------ MODULE QueueOps ------------------------------
(***************************************************************************)
(* What the run queue's operations do to the order of the tasks, head      *)
(* first: the common ground of Sched, RunQueue and TaskQueue.              *)
(***************************************************************************)
EXTENDS Integers, Sequences

\* The tasks on queue q.
Elements(q) == {q[i] : i \in DOMAIN q}

\* MUTANT of Rotate: next_task() puts the task back where it was.
RotateNot(q, k) == q

\* The queue after next_task() has been called k times: pop the head, push it at the tail.
Rotate(q, k) == SubSeq(q, k + 1, Len(q)) \o SubSeq(q, 1, k)

\* MUTANT of Without: close_process() leaves the task queued.
WithoutNothing(q, p) == q

\* remove_task: unlink p's node.
Without(q, p) ==
    LET i == CHOOSE i \in DOMAIN q : q[i] = p
    IN  SubSeq(q, 1, i - 1) \o SubSeq(q, i + 1, Len(q))
=============================================================================
