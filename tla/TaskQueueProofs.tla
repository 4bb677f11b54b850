-------------------------- MODULE TaskQueueProofs --------------------------
(***************************************************************************)
(* The linked list of TaskQueue keeps its shape, and each operation on it  *)
(* does to the queue what RunQueue says, for any set of task_t blocks.     *)
(***************************************************************************)
EXTENDS TaskQueue, SequenceProofs

\* List l is well formed and holds the tasks of q in order.
Rep(l, q) ==
    /\ l \in Lists
    /\ q \in Seq(Tasks)
    /\ Len(q) = l.num_tasks
    /\ Represents(l, q)

\* The representation implies that no task is queued twice.
LEMMA RepInjective ==
  ASSUME NEW l, NEW q, Rep(l, q)
  PROVE  /\ InjectiveSeq(q) /\ Len(q) \in Nat /\ DOMAIN q = 1 .. Len(q)
         /\ \A i \in 1 .. Len(q) : q[i] \in Tasks
BY DEF Rep, Represents, InjectiveSeq

-----------------------------------------------------------------------------
(* The list operations.                                                    *)

\* push_head_task puts the task before all others.
LEMMA PushHeadRep ==
  ASSUME NEW l, NEW q, Rep(l, q), NEW t \in Tasks, t \notin Elements(q)
  PROVE  Rep(PushHeadTask(l, t), <<t>> \o q)
<1> DEFINE n == Len(q)
           r == <<t>> \o q
           m == PushHeadTask(l, t)
<1>1. /\ InjectiveSeq(q) /\ n \in Nat /\ \A i \in 1 .. n : q[i] \in Tasks /\ q[i] # t
      /\ n = l.num_tasks /\ l \in Lists /\ DOMAIN q = 1 .. n
  BY RepInjective DEF Rep, Elements
<1>2. /\ r \in Seq(Tasks) /\ Len(r) = n + 1 /\ InjectiveSeq(r)
      /\ \A i \in 1 .. n + 1 : r[i] = IF i = 1 THEN t ELSE q[i - 1]
  BY <1>1, PushHeadFacts DEF Rep
<1>3. /\ l.head = IF n = 0 THEN NULL ELSE q[1]
      /\ l.tail = IF n = 0 THEN NULL ELSE q[n]
      /\ \A i \in 1 .. n : /\ l.next[q[i]] = IF i = n THEN NULL ELSE q[i + 1]
                           /\ l.prev[q[i]] = IF i = 1 THEN NULL ELSE q[i - 1]
  BY <1>1 DEF Rep, Represents
<1>4. m \in Lists /\ m.num_tasks = n + 1
  BY <1>1 DEF PushHeadTask, Lists, Link
<1>5. /\ m.head = t
      /\ m.tail = IF l.head = NULL THEN t ELSE l.tail
      /\ m.next = [l.next EXCEPT ![t] = l.head]
      /\ m.prev = [x \in Tasks |-> IF x = l.head THEN t ELSE IF x = t THEN NULL ELSE l.prev[x]]
  BY DEF PushHeadTask
<1>6. l.next \in [Tasks -> Link] /\ l.prev \in [Tasks -> Link]
  BY <1>1 DEF Lists
<1> HIDE DEF n, r, m
<1>7. \A i, j \in 1 .. n + 1 : r[i] = r[j] => i = j
  BY <1>1, <1>2 DEF InjectiveSeq
<1>8. m.head = r[1] /\ m.tail = r[n + 1]
  <2>1. n = 0 => m.tail = t /\ r[n + 1] = t
    BY <1>2, <1>3, <1>5
  <2>2. n # 0 => l.head # NULL /\ l.tail = q[n] /\ r[n + 1] = q[n]
    BY <1>1, <1>2, <1>3, TaskQueueConstants
  <2>3. r[1] = t
    BY <1>1, <1>2
  <2> QED BY <1>5, <2>1, <2>2, <2>3
<1>9. ASSUME NEW i \in 1 .. n + 1
      PROVE  /\ m.next[r[i]] = IF i = n + 1 THEN NULL ELSE r[i + 1]
             /\ m.prev[r[i]] = IF i = 1 THEN NULL ELSE r[i - 1]
  <2>1. CASE i = 1
    <3>1. m.next[t] = l.head /\ m.prev[t] = NULL
      BY <1>1, <1>3, <1>5, <1>6, TaskQueueConstants
    <3>2. n # 0 => r[2] = q[1]
      BY <1>1, <1>2
    <3> QED BY <1>1, <1>2, <1>3, <2>1, <3>1, <3>2
  <2>2. CASE i # 1
    <3> DEFINE j == i - 1
    <3>1. j \in 1 .. n /\ r[i] = q[j] /\ q[j] # t /\ q[j] \in Tasks
      BY <1>1, <1>2, <2>2
    <3>2. m.next[q[j]] = l.next[q[j]]
      BY <1>5, <1>6, <3>1
    <3>3. m.prev[q[j]] = IF j = 1 THEN t ELSE l.prev[q[j]]
      BY <1>1, <1>3, <1>5, <3>1 DEF InjectiveSeq
    <3>4. j # n => r[i + 1] = q[j + 1]
      BY <1>1, <1>2, <3>1
    <3>5. j # 1 => r[i - 1] = q[j - 1]
      BY <1>1, <1>2, <3>1
    <3>6. i = n + 1 <=> j = n
      BY <1>1
    <3>7. r[1] = t
      BY <1>1, <1>2
    <3> QED BY <1>1, <1>3, <2>2, <3>1, <3>2, <3>3, <3>4, <3>5, <3>6, <3>7
  <2> QED BY <2>1, <2>2
<1> QED BY <1>1, <1>2, <1>4, <1>7, <1>8, <1>9 DEF Rep, Represents, m, r, n

\* push_tail_task puts the task behind all others.
LEMMA PushTailRep ==
  ASSUME NEW l, NEW q, Rep(l, q), NEW t \in Tasks, t \notin Elements(q)
  PROVE  Rep(PushTailTask(l, t), Append(q, t))
<1> DEFINE n == Len(q)
           r == Append(q, t)
           m == PushTailTask(l, t)
<1>1. /\ InjectiveSeq(q) /\ n \in Nat /\ \A i \in 1 .. n : q[i] \in Tasks /\ q[i] # t
      /\ n = l.num_tasks /\ l \in Lists /\ DOMAIN q = 1 .. n
  BY RepInjective DEF Rep, Elements
<1>2. /\ r \in Seq(Tasks) /\ Len(r) = n + 1
      /\ \A i \in 1 .. n + 1 : r[i] = IF i = n + 1 THEN t ELSE q[i]
  BY <1>1 DEF Rep
<1>3. /\ l.head = IF n = 0 THEN NULL ELSE q[1]
      /\ l.tail = IF n = 0 THEN NULL ELSE q[n]
      /\ \A i \in 1 .. n : /\ l.next[q[i]] = IF i = n THEN NULL ELSE q[i + 1]
                           /\ l.prev[q[i]] = IF i = 1 THEN NULL ELSE q[i - 1]
  BY <1>1 DEF Rep, Represents
<1>4. m \in Lists /\ m.num_tasks = n + 1
  BY <1>1 DEF PushTailTask, Lists, Link
<1>5. /\ m.head = IF l.tail = NULL THEN t ELSE l.head
      /\ m.tail = t
      /\ m.next = [x \in Tasks |-> IF x = l.tail THEN t ELSE IF x = t THEN NULL ELSE l.next[x]]
      /\ m.prev = [l.prev EXCEPT ![t] = l.tail]
  BY DEF PushTailTask
<1>6. l.next \in [Tasks -> Link] /\ l.prev \in [Tasks -> Link]
  BY <1>1 DEF Lists
<1> HIDE DEF n, r, m
<1>7. \A i, j \in 1 .. n + 1 : r[i] = r[j] => i = j
  BY <1>1, <1>2 DEF InjectiveSeq
<1>8. m.head = r[1] /\ m.tail = r[n + 1]
  BY <1>1, <1>2, <1>3, <1>5, TaskQueueConstants
<1>9. ASSUME NEW i \in 1 .. n + 1
      PROVE  /\ m.next[r[i]] = IF i = n + 1 THEN NULL ELSE r[i + 1]
             /\ m.prev[r[i]] = IF i = 1 THEN NULL ELSE r[i - 1]
  <2>1. CASE i = n + 1
    <3>1. m.prev[t] = l.tail /\ m.next[t] = NULL
      BY <1>1, <1>3, <1>5, <1>6, TaskQueueConstants
    <3>2. n # 0 => r[n] = q[n]
      BY <1>1, <1>2
    <3>3. r[i] = t
      BY <1>1, <1>2, <2>1
    <3> QED BY <1>1, <1>3, <2>1, <3>1, <3>2, <3>3
  <2>2. CASE i # n + 1
    <3>1. i \in 1 .. n /\ r[i] = q[i] /\ q[i] # t /\ q[i] \in Tasks
      BY <1>1, <1>2, <2>2
    <3>2. m.prev[q[i]] = l.prev[q[i]]
      BY <1>5, <1>6, <3>1
    <3>3. m.next[q[i]] = IF i = n THEN t ELSE l.next[q[i]]
      BY <1>1, <1>3, <1>5, <3>1 DEF InjectiveSeq
    <3>4. r[i + 1] = IF i = n THEN t ELSE q[i + 1]
      <4>1. i + 1 \in 1 .. n + 1 /\ (i + 1 = n + 1 <=> i = n)
        BY <1>1, <3>1
      <4> QED BY <1>2, <4>1
    <3>5. i # 1 => r[i - 1] = q[i - 1]
      BY <1>1, <1>2, <3>1
    <3> QED BY <1>1, <1>3, <2>2, <3>1, <3>2, <3>3, <3>4, <3>5
  <2> QED BY <2>1, <2>2
<1> QED BY <1>1, <1>2, <1>4, <1>7, <1>8, <1>9 DEF Rep, Represents, m, r, n

\* remove_task of a queued task closes the gap and returns the task.
LEMMA RemoveRep ==
  ASSUME NEW l, NEW q, Rep(l, q), NEW t \in Elements(q)
  PROVE  Rep(RemoveTask(l, t), Without(q, t)) /\ Removes(l, t)
<1> DEFINE n == Len(q)
           r == Without(q, t)
           m == RemoveTask(l, t)
<1>1. /\ InjectiveSeq(q) /\ n \in Nat /\ \A i \in 1 .. n : q[i] \in Tasks
      /\ n = l.num_tasks /\ l \in Lists /\ DOMAIN q = 1 .. n /\ q \in Seq(Tasks)
  BY RepInjective DEF Rep
<1>2. PICK k \in 1 .. n : q[k] = t
  BY <1>1 DEF Elements
<1>3. /\ r \in Seq(Tasks) /\ Len(r) = n - 1 /\ InjectiveSeq(r)
      /\ \A i \in 1 .. n - 1 : r[i] = IF i < k THEN q[i] ELSE q[i + 1]
  BY <1>1, <1>2, WithoutFacts
<1>4. /\ l.head = q[1]
      /\ l.tail = q[n]
      /\ \A i \in 1 .. n : /\ l.next[q[i]] = IF i = n THEN NULL ELSE q[i + 1]
                           /\ l.prev[q[i]] = IF i = 1 THEN NULL ELSE q[i - 1]
  BY <1>1, <1>2 DEF Rep, Represents
<1>5. /\ l.next \in [Tasks -> Link] /\ l.prev \in [Tasks -> Link]
      /\ l.head \in Link /\ l.tail \in Link /\ t \in Tasks
  BY <1>1, <1>2 DEF Lists
<1> HIDE DEF r
<1>6. CASE n = 1
  <2>1. k = 1 /\ l.head = t
    BY <1>2, <1>4, <1>6
  <2>2. m = [head |-> NULL, tail |-> NULL, num_tasks |-> l.num_tasks - 1,
             next |-> [l.next EXCEPT ![t] = NULL], prev |-> [l.prev EXCEPT ![t] = NULL]]
    BY <1>1, <1>6, <2>1 DEF RemoveTask, RemoveLast
  <2>3. m \in Lists /\ m.num_tasks = 0 /\ m.head = NULL /\ m.tail = NULL
    <3>1. l.num_tasks - 1 = 0 /\ NULL \in Link
      BY <1>1, <1>6 DEF Link
    <3>2. /\ [l.next EXCEPT ![t] = NULL] \in [Tasks -> Link]
          /\ [l.prev EXCEPT ![t] = NULL] \in [Tasks -> Link]
      BY <1>5, <3>1
    <3> QED BY <2>2, <3>1, <3>2 DEF Lists
  <2> HIDE DEF m
  <2>4. Rep(m, r)
    BY <1>3, <1>6, <2>3 DEF Rep, Represents
  <2> QED BY <2>1, <2>4 DEF m, r, Removes
<1>7. CASE n # 1
  <2>1. n > 1 /\ m = RemoveLinked(l, t)
    BY <1>1, <1>2, <1>7 DEF RemoveTask
  <2> DEFINE p == l.prev[t]
             s == l.next[t]
  <2>2. /\ p = IF k = 1 THEN NULL ELSE q[k - 1]
        /\ s = IF k = n THEN NULL ELSE q[k + 1]
        /\ p \in Link /\ s \in Link
    BY <1>2, <1>4, <1>5
  <2>3. /\ m.head = IF t = l.head THEN s ELSE l.head
        /\ m.tail = IF t = l.tail THEN p ELSE l.tail
        /\ m.num_tasks = n - 1
        /\ \A x \in Tasks :
             /\ m.next[x] = IF x = t THEN NULL ELSE IF x = p
                            THEN IF t = l.tail THEN NULL ELSE s ELSE l.next[x]
             /\ m.prev[x] = IF x = t THEN NULL ELSE IF x = s THEN p ELSE l.prev[x]
    BY <1>1, <2>1 DEF RemoveLinked
  <2>4. m \in Lists
    BY <1>1, <1>5, <2>1, <2>2 DEF RemoveLinked, Lists, Link
  <2>5. (t = l.head <=> k = 1) /\ (t = l.tail <=> k = n)
    BY <1>1, <1>2, <1>4, <2>1 DEF InjectiveSeq
  <2> HIDE DEF m, n, p, s
  <2>6. \A i, j \in 1 .. n - 1 : r[i] = r[j] => i = j
    BY <1>1, <1>3 DEF InjectiveSeq
  <2>7. m.head = r[1]
    <3>1. r[1] = IF 1 < k THEN q[1] ELSE q[2]
      BY <1>1, <1>3, <2>1
    <3> QED BY <1>1, <1>2, <1>4, <2>1, <2>2, <2>3, <2>5, <3>1
  <2>8. m.tail = r[n - 1]
    <3>1. r[n - 1] = IF n - 1 < k THEN q[n - 1] ELSE q[n]
      <4>1. n - 1 \in 1 .. n - 1 /\ (n - 1) + 1 = n
        BY <1>1, <2>1
      <4> QED BY <1>3, <4>1
    <3> QED BY <1>1, <1>2, <1>4, <2>1, <2>2, <2>3, <2>5, <3>1
  <2>9. ASSUME NEW i \in 1 .. n - 1
        PROVE  /\ m.next[r[i]] = IF i = n - 1 THEN NULL ELSE r[i + 1]
               /\ m.prev[r[i]] = IF i = 1 THEN NULL ELSE r[i - 1]
    <3> DEFINE j == IF i < k THEN i ELSE i + 1
    <3>1. j \in 1 .. n /\ j # k /\ r[i] = q[j] /\ q[j] # t /\ q[j] \in Tasks
      BY <1>1, <1>2, <1>3 DEF InjectiveSeq
    <3>2. (q[j] = p <=> j = k - 1) /\ (q[j] = s <=> j = k + 1)
      <4>1. q[j] = p <=> j = k - 1
        BY <1>1, <1>2, <2>2, <3>1, TaskQueueConstants DEF InjectiveSeq
      <4>2. q[j] = s <=> j = k + 1
        BY <1>1, <1>2, <2>2, <3>1, TaskQueueConstants DEF InjectiveSeq
      <4> QED BY <4>1, <4>2
    <3>3. m.next[q[j]] = IF j = k - 1 THEN IF k = n THEN NULL ELSE q[k + 1]
                         ELSE IF j = n THEN NULL ELSE q[j + 1]
      BY <1>4, <2>2, <2>3, <2>5, <3>1, <3>2
    <3>4. m.prev[q[j]] = IF j = k + 1 THEN IF k = 1 THEN NULL ELSE q[k - 1]
                         ELSE IF j = 1 THEN NULL ELSE q[j - 1]
      BY <1>4, <2>2, <2>3, <2>5, <3>1, <3>2
    <3>5. i # n - 1 => r[i + 1] = IF i + 1 < k THEN q[i + 1] ELSE q[i + 2]
      <4>1. i # n - 1 => i + 1 \in 1 .. n - 1 /\ (i + 1) + 1 = i + 2
        BY <1>1
      <4> QED BY <1>3, <4>1
    <3>6. i # 1 => r[i - 1] = IF i - 1 < k THEN q[i - 1] ELSE q[i]
      <4>1. i # 1 => i - 1 \in 1 .. n - 1 /\ (i - 1) + 1 = i
        BY <1>1
      <4> QED BY <1>3, <4>1
    <3>7. m.next[r[i]] = IF i = n - 1 THEN NULL ELSE r[i + 1]
      <4>1. CASE i + 1 < k
        <5>1. j = i /\ j # k - 1 /\ i # n - 1 /\ j # n
          BY <1>1, <1>2, <4>1
        <5> QED BY <3>1, <3>3, <3>5, <4>1, <5>1
      <4>2. CASE i + 1 = k
        <5>1. j = i /\ j = k - 1 /\ (k = n <=> i = n - 1) /\ k + 1 = i + 2 /\ ~(i + 1 < k)
          BY <1>1, <1>2, <4>2
        <5> QED BY <3>1, <3>3, <3>5, <5>1
      <4>3. CASE i >= k
        <5>1. j = i + 1 /\ j # k - 1 /\ (j = n <=> i = n - 1) /\ j + 1 = i + 2 /\ ~(i + 1 < k)
          BY <1>1, <1>2, <4>3
        <5> QED BY <3>1, <3>3, <3>5, <5>1
      <4> QED BY <1>1, <1>2, <4>1, <4>2, <4>3
    <3>8. m.prev[r[i]] = IF i = 1 THEN NULL ELSE r[i - 1]
      <4>1. CASE i < k
        <5>1. j = i /\ j # k + 1 /\ i - 1 < k
          BY <1>1, <1>2, <4>1
        <5> QED BY <3>1, <3>4, <3>6, <5>1
      <4>2. CASE i = k
        <5>1. j = k + 1 /\ k - 1 = i - 1 /\ i - 1 < k
          BY <1>1, <1>2, <4>2
        <5> QED BY <3>1, <3>4, <3>6, <4>2, <5>1
      <4>3. CASE i > k
        <5>1. j = i + 1 /\ j # k + 1 /\ j # 1 /\ i # 1 /\ ~(i - 1 < k) /\ j - 1 = i
          BY <1>1, <1>2, <4>3
        <5> QED BY <3>1, <3>4, <3>6, <5>1
      <4> QED BY <1>1, <1>2, <4>1, <4>2, <4>3
    <3> QED BY <3>7, <3>8
  <2>10. Rep(m, r)
    BY <1>1, <1>3, <2>1, <2>3, <2>4, <2>6, <2>7, <2>8, <2>9 DEF Rep, Represents
  <2> QED BY <1>1, <2>1, <2>10 DEF m, r, n, Removes
<1> QED BY <1>6, <1>7

\* A pop from the head followed by a push at the tail rotates the queue by one.
LEMMA RotateByOne ==
  ASSUME NEW q \in Seq(Tasks), InjectiveSeq(q), Len(q) > 0
  PROVE  Append(Without(q, q[1]), q[1]) = Rotate(q, 1)
<1> DEFINE n == Len(q)
           w == Without(q, q[1])
           a == Append(w, q[1])
           r == Rotate(q, 1)
<1>1. n \in Nat /\ DOMAIN q = 1 .. n /\ 1 \in DOMAIN q /\ q[1] \in Elements(q) /\ q[1] \in Tasks
  BY DEF Elements
<1>2. /\ w \in Seq(Tasks) /\ Len(w) = n - 1
      /\ \A i \in 1 .. n - 1 : w[i] = q[i + 1]
  <2>1. /\ w \in Seq(Tasks) /\ Len(w) = n - 1
        /\ \A k \in 1 .. n : q[k] = q[1] =>
              \A i \in 1 .. n - 1 : w[i] = IF i < k THEN q[i] ELSE q[i + 1]
    BY <1>1, WithoutFacts
  <2> HIDE DEF w
  <2>2. \A i \in 1 .. n - 1 : w[i] = IF i < 1 THEN q[i] ELSE q[i + 1]
    BY <1>1, <2>1
  <2> QED BY <1>1, <2>1, <2>2
<1>3. /\ r \in Seq(Tasks) /\ Len(r) = n
      /\ \A i \in 1 .. n : r[i] = IF i <= n - 1 THEN q[i + 1] ELSE q[i - (n - 1)]
  BY <1>1, RotateFacts
<1> HIDE DEF w, r
<1>4. /\ a \in Seq(Tasks) /\ Len(a) = n
      /\ \A i \in 1 .. n : a[i] = IF i = n THEN q[1] ELSE w[i]
  <2>1. /\ a \in Seq(Tasks) /\ Len(a) = Len(w) + 1
        /\ \A i \in 1 .. Len(w) : a[i] = w[i]
        /\ a[Len(w) + 1] = q[1]
    <3> HIDE DEF n
    <3> QED BY <1>1, <1>2, AppendProperties
  <2> HIDE DEF a, n
  <2>2. Len(w) + 1 = n
    BY <1>1, <1>2
  <2> QED BY <1>1, <1>2, <2>1, <2>2
<1> HIDE DEF a, n
<1>5. \A i \in 1 .. n : a[i] = r[i]
  BY <1>1, <1>2, <1>3, <1>4
<1> QED BY <1>3, <1>4, <1>5, SeqEqual DEF a, r, w

-----------------------------------------------------------------------------
(* The specification.                                                      *)

\* The list holds q, and q's tasks are the blocks in use.
Holds(q) == Rep(runqueue, q) /\ Elements(q) = allocated

Held == \E q : Holds(q)

\* ListOK in terms of sequences.
LEMMA ListOKHolds == (TypeOK /\ ListOK) <=> Held
<1>1. ASSUME TypeOK, ListOK PROVE \E q : Holds(q)
  <2>1. PICK q \in [1 .. runqueue.num_tasks -> Tasks] :
           Represents(runqueue, q) /\ allocated = {q[i] : i \in 1 .. runqueue.num_tasks}
    BY <1>1 DEF ListOK
  <2>2. runqueue.num_tasks \in Nat
    BY <1>1 DEF TypeOK, Lists
  <2>3. q \in Seq(Tasks) /\ Len(q) = runqueue.num_tasks /\ DOMAIN q = 1 .. runqueue.num_tasks
    BY <2>2
  <2> QED BY <1>1, <2>1, <2>3 DEF Holds, Rep, TypeOK, Elements
<1>2. ASSUME NEW q, Holds(q) PROVE TypeOK /\ ListOK
  <2>1. q \in [1 .. runqueue.num_tasks -> Tasks] /\ DOMAIN q = 1 .. runqueue.num_tasks
    BY <1>2 DEF Holds, Rep
  <2> QED BY <1>2, <2>1 DEF Holds, Rep, TypeOK, ListOK, Elements
<1> QED BY <1>1, <1>2 DEF Held

\* The same in the state after a step.
LEMMA ListOKHoldsNext == (TypeOK /\ ListOK)' <=> Held'
BY ListOKHolds, PTL

\* Every step of the list is a step of the queue it holds: add_process queues a task at
\* the head, close_process takes out that task and no other, next_task rotates.
LEMMA ListSimulatesQueue ==
  ASSUME NEW q, Holds(q), Next
  PROVE  \E r : Holds(r)' /\ Queue!Step(q, r)
<1>1. /\ InjectiveSeq(q) /\ q \in Seq(Tasks) /\ Rep(runqueue, q) /\ Elements(q) = allocated
      /\ Len(q) \in Nat /\ DOMAIN q = 1 .. Len(q)
  BY RepInjective DEF Holds, Rep
<1>2. ASSUME NEW t \in Tasks, AddProcess(t) PROVE \E r : Holds(r)' /\ Queue!Step(q, r)
  <2>1. t \notin Elements(q)
    BY <1>1, <1>2 DEF AddProcess
  <2>2. Rep(runqueue', <<t>> \o q)
    BY <1>1, <1>2, <2>1, PushHeadRep DEF AddProcess
  <2>3. Elements(<<t>> \o q) = allocated'
    BY <1>1, <1>2, <2>1, PushHeadFacts DEF AddProcess
  <2>4. Queue!Step(q, <<t>> \o q)
    BY <2>1 DEF Queue!Step, Queue!Add, Queue!Elements, Elements
  <2> QED BY <2>2, <2>3, <2>4 DEF Holds
<1>3. ASSUME NEW t \in Tasks, CloseProcess(t) PROVE \E r : Holds(r)' /\ Queue!Step(q, r)
  <2>1. t \in Elements(q) \ {KernelTask}
    BY <1>1, <1>3 DEF CloseProcess
  <2>2. Rep(runqueue', Without(q, t)) /\ allocated' = allocated \ {t}
    BY <1>1, <1>3, <2>1, RemoveRep DEF CloseProcess
  <2>3. Elements(Without(q, t)) = allocated'
    BY <1>1, <2>1, <2>2, WithoutFacts
  <2>4. Queue!Step(q, Without(q, t))
    BY <2>1 DEF Queue!Step, Queue!Close, Queue!Elements, Elements, Queue!Without, Without
  <2> QED BY <2>2, <2>3, <2>4 DEF Holds
<1>4. ASSUME NextTask PROVE \E r : Holds(r)' /\ Queue!Step(q, r)
  <2> DEFINE top == runqueue.head
  <2>1. Len(q) > 0 /\ top = q[1] /\ top \in Elements(q) /\ top \in Tasks
    BY <1>1, <1>4 DEF NextTask, Rep, Represents, Elements
  <2>2. Rep(RemoveTask(runqueue, top), Without(q, top))
    BY <1>1, <2>1, RemoveRep
  <2>3. top \notin Elements(Without(q, top))
    BY <1>1, <2>1, WithoutFacts
  <2>4. Rep(runqueue', Append(Without(q, top), top))
    BY <1>4, <2>1, <2>2, <2>3, PushTailRep DEF NextTask
  <2>5. Append(Without(q, top), top) = Rotate(q, 1)
    BY <1>1, <2>1, RotateByOne
  <2>6. Elements(Rotate(q, 1)) = allocated'
    BY <1>1, <1>4, <2>1, RotateFacts DEF NextTask
  <2>7. Queue!Step(q, Rotate(q, 1))
    BY <1>1, <2>1, EmptySeq DEF Queue!Step, Queue!NextTask, Queue!Rotate, Rotate
  <2> QED BY <2>4, <2>5, <2>6, <2>7 DEF Holds
<1> QED BY <1>2, <1>3, <1>4 DEF Next

\* The list keeps its types and its shape, whatever the order of operations.
THEOREM ListInvariance == Spec => [](TypeOK /\ ListOK)
<1>1. Init => TypeOK /\ ListOK
  <2> SUFFICES ASSUME Init PROVE Holds(<<>>)
    BY ListOKHolds DEF Held
  <2> QED BY EmptySeq DEF Init, Holds, Rep, Represents, Lists, Link, Elements
<1>2. TypeOK /\ ListOK /\ [Next]_vars => (TypeOK /\ ListOK)'
  <2> SUFFICES ASSUME TypeOK /\ ListOK, [Next]_vars PROVE (TypeOK /\ ListOK)'
    OBVIOUS
  <2>1. PICK q : Holds(q)
    BY ListOKHolds DEF Held
  <2>2. CASE Next
    <3>1. PICK r : Holds(r)'
      BY <2>1, <2>2, ListSimulatesQueue
    <3> QED BY <3>1, ListOKHoldsNext DEF Held
  <2>3. CASE UNCHANGED vars
    BY <2>3 DEF vars, TypeOK, ListOK
  <2> QED BY <2>2, <2>3
<1> QED BY <1>1, <1>2, PTL DEF Spec

\* Pointers stay pointers to task blocks or NULL, and num_tasks a count (task.h:61-65).
THEOREM ListTypeCorrect == Spec => []TypeOK
<1>1. TypeOK /\ ListOK => TypeOK
  OBVIOUS
<1> QED BY <1>1, ListInvariance, PTL

-----------------------------------------------------------------------------
(* The walk along the list, and the refinement.                            *)

\* A walk from the head through next meets the tasks the list holds, in their order.
LEMMA WalkIsQueue ==
  ASSUME NEW l, NEW q, Rep(l, q)
  PROVE  WalkOf(l) = q
<1> DEFINE n == Len(q)
           Solves(w) == w = [k \in 1 .. l.num_tasks |-> IF k = 1 THEN l.head ELSE l.next[w[k - 1]]]
<1>1. n \in Nat /\ n = l.num_tasks /\ DOMAIN q = 1 .. n /\ q \in [1 .. n -> Tasks]
  BY RepInjective DEF Rep
<1>2. /\ n # 0 => l.head = q[1]
      /\ \A i \in 1 .. n : i # n => l.next[q[i]] = q[i + 1]
  BY <1>1 DEF Rep, Represents
<1>3. Solves(q)
  <2>1. ASSUME NEW k \in 1 .. n PROVE q[k] = IF k = 1 THEN l.head ELSE l.next[q[k - 1]]
    <3>1. CASE k = 1
      BY <1>1, <1>2, <3>1
    <3>2. CASE k # 1
      <4>1. k - 1 \in 1 .. n /\ k - 1 # n /\ (k - 1) + 1 = k
        BY <1>1, <3>2
      <4> QED BY <1>2, <3>2, <4>1
    <3> QED BY <3>1, <3>2
  <2>2. q = [k \in 1 .. n |-> q[k]]
    BY <1>1
  <2> QED BY <1>1, <2>1, <2>2
<1>4. WalkOf(l) = CHOOSE w : Solves(w)
  BY DEF WalkOf
<1>5. PICK w : w = WalkOf(l)
  OBVIOUS
<1>6. Solves(w)
  <2> HIDE DEF Solves
  <2> QED BY <1>3, <1>4, <1>5
<1>7. /\ DOMAIN w = 1 .. n /\ w = [k \in 1 .. n |-> w[k]]
      /\ \A k \in 1 .. n : w[k] = IF k = 1 THEN l.head ELSE l.next[w[k - 1]]
  BY <1>1, <1>6
<1>8. \A k \in 1 .. n : w[k] = q[k]
  <2> DEFINE Bad == {k \in 1 .. n : w[k] # q[k]}
  <2>1. SUFFICES ASSUME Bad # {} PROVE FALSE
    OBVIOUS
  <2>2. PICK k \in Bad : \A j \in Bad : k <= j
    <3>1. Bad \in SUBSET Nat
      OBVIOUS
    <3> HIDE DEF Bad
    <3> QED BY <2>1, <3>1, LeastNat
  <2>3. k # 1
    <3>1. k \in 1 .. n /\ n # 0 /\ w[k] # q[k]
      BY <1>1, <2>2
    <3> HIDE DEF Bad
    <3>2. k = 1 => w[k] = q[k]
      BY <1>2, <1>7, <3>1
    <3> QED BY <3>1, <3>2
  <2>4. k - 1 \in 1 .. n /\ k - 1 # n /\ (k - 1) + 1 = k /\ k - 1 < k /\ k \in 1 .. n
    BY <1>1, <2>2, <2>3
  <2>5. w[k - 1] = q[k - 1]
    BY <2>2, <2>4
  <2>6. w[k] = q[k]
    BY <1>2, <1>7, <2>3, <2>4, <2>5
  <2> QED BY <2>2, <2>6
<1>9. w = q
  <2>1. q = [k \in 1 .. n |-> q[k]]
    BY <1>1
  <2> QED BY <1>7, <1>8, <2>1
<1> QED BY <1>5, <1>9

\* The linked list implements the run queue that schedule(), execute() and halt() rely on,
\* for any blocks and any order of operations: a walk from the head always meets the tasks
\* of an abstract queue, and moves with it as RunQueue says.
THEOREM ListImplementsQueue == Spec => ImplementsRunQueue
<1> DEFINE Inv == TypeOK /\ ListOK
<1>1. Spec => []Inv
  BY ListInvariance
<1>2. Init => Queue!Init
  <2> SUFFICES ASSUME Init PROVE Walk = <<>>
    BY DEF Queue!Init
  <2>1. Rep(runqueue, <<>>)
    BY EmptySeq DEF Init, Rep, Represents, Lists, Link
  <2> QED BY <2>1, WalkIsQueue DEF Walk
<1>3. Inv /\ [Next]_vars => [Queue!Next]_Walk
  <2> SUFFICES ASSUME Inv, [Next]_vars PROVE Queue!Next \/ Walk' = Walk
    OBVIOUS
  <2>1. PICK q : Holds(q)
    BY ListOKHolds DEF Held
  <2>2. Walk = q
    BY <2>1, WalkIsQueue DEF Walk, Holds
  <2>3. CASE Next
    <3>1. PICK r : Holds(r)' /\ Queue!Step(q, r)
      BY <2>1, <2>3, ListSimulatesQueue
    <3>2. Rep(runqueue', r)
      BY <3>1 DEF Holds
    <3>3. Walk' = r
      BY <3>2, WalkIsQueue DEF Walk
    <3> QED BY <2>2, <3>1, <3>3 DEF Queue!Next
  <2>4. CASE UNCHANGED vars
    BY <2>4 DEF vars, Walk
  <2> QED BY <2>3, <2>4
<1> HIDE DEF Inv
<1>4. Spec => Queue!Init /\ [][Queue!Next]_Walk
  BY <1>1, <1>2, <1>3, PTL DEF Spec
<1> QED BY <1>4 DEF ImplementsRunQueue, Queue!Spec
=============================================================================
