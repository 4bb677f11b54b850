--------------------------- MODULE SequenceProofs ---------------------------
(***************************************************************************)
(* What the proofs of the components share: the operations of the run      *)
(* queue and insertion and removal, with the length, the elements in order *)
(* and the set of elements of their results.                               *)
(***************************************************************************)
EXTENDS QueueOps, SequencesExt, SequenceTheorems, WellFoundedInduction, TLAPS

InjectiveSeq(q) == \A i, j \in DOMAIN q : q[i] = q[j] => i = j

\* schedule() only permutes the queue: next_task() loses and duplicates nobody.
LEMMA RotateFacts ==
  ASSUME NEW S, NEW q \in Seq(S), NEW k \in DOMAIN q, InjectiveSeq(q)
  PROVE  /\ Rotate(q, k) \in Seq(S)
         /\ Len(Rotate(q, k)) = Len(q)
         /\ \A i \in 1 .. Len(q) :
               Rotate(q, k)[i] = IF i <= Len(q) - k THEN q[i + k] ELSE q[i - (Len(q) - k)]
         /\ InjectiveSeq(Rotate(q, k))
         /\ Elements(Rotate(q, k)) = Elements(q)
<1> DEFINE n == Len(q)
           u == SubSeq(q, k + 1, n)
           v == SubSeq(q, 1, k)
           r == Rotate(q, k)
<1>1. n \in Nat /\ DOMAIN q = 1 .. n /\ k \in 1 .. n /\ \A i \in 1 .. n : q[i] \in S
  OBVIOUS
<1>2. u \in Seq(S) /\ Len(u) = n - k /\ \A i \in 1 .. n - k : u[i] = q[i + k]
  <2>1. \A i \in k + 1 .. n : q[i] \in S
    BY <1>1
  <2>2. /\ u \in Seq(S)
        /\ Len(u) = IF k + 1 <= n THEN n - (k + 1) + 1 ELSE 0
        /\ \A i \in 1 .. n - (k + 1) + 1 : u[i] = q[(k + 1) + i - 1]
    BY <1>1, <2>1, SubSeqProperties
  <2> HIDE DEF u, n
  <2>3. Len(u) = n - k
    BY <1>1, <2>2
  <2>4. ASSUME NEW i \in 1 .. n - k PROVE u[i] = q[i + k]
    <3>1. i \in 1 .. n - (k + 1) + 1 /\ (k + 1) + i - 1 = i + k
      BY <1>1
    <3> QED BY <2>2, <3>1
  <2> QED BY <2>2, <2>3, <2>4
<1>3. v \in Seq(S) /\ Len(v) = k /\ \A i \in 1 .. k : v[i] = q[i]
  <2>1. \A i \in 1 .. k : q[i] \in S
    BY <1>1
  <2>2. /\ v \in Seq(S)
        /\ Len(v) = IF 1 <= k THEN k - 1 + 1 ELSE 0
        /\ \A i \in 1 .. k - 1 + 1 : v[i] = q[1 + i - 1]
    BY <1>1, <2>1, SubSeqProperties
  <2> QED BY <1>1, <2>2
<1>4. /\ r \in Seq(S) /\ Len(r) = n /\ DOMAIN r = 1 .. n
      /\ \A i \in 1 .. n : r[i] = IF i <= n - k THEN q[i + k] ELSE q[i - (n - k)]
  <2>1. r = u \o v
    BY DEF Rotate
  <2> HIDE DEF u, v, r
  <2>2. /\ r \in Seq(S) /\ Len(r) = Len(u) + Len(v)
        /\ \A i \in 1 .. Len(u) + Len(v) :
              r[i] = IF i <= Len(u) THEN u[i] ELSE v[i - Len(u)]
    BY <1>2, <1>3, <2>1, ConcatProperties
  <2>3. Len(r) = n /\ DOMAIN r = 1 .. n
    BY <1>1, <1>2, <1>3, <2>2
  <2>4. \A i \in 1 .. n : r[i] = IF i <= n - k THEN q[i + k] ELSE q[i - (n - k)]
    BY <1>1, <1>2, <1>3, <2>2
  <2> QED BY <2>2, <2>3, <2>4
<1> HIDE DEF n, u, v, r
<1> DEFINE Pre(x) == IF x <= n - k THEN x + k ELSE x - (n - k)
<1>5. \A x \in 1 .. n : Pre(x) \in 1 .. n /\ r[x] = q[Pre(x)]
  BY <1>1, <1>4
<1>6. InjectiveSeq(r)
  <2> SUFFICES ASSUME NEW i \in 1 .. n, NEW j \in 1 .. n, r[i] = r[j]
               PROVE  i = j
    BY <1>4 DEF InjectiveSeq
  <2>1. Pre(i) = Pre(j)
    BY <1>1, <1>5 DEF InjectiveSeq
  <2> QED BY <1>1, <2>1
<1>7. Elements(r) = Elements(q)
  <2>1. ASSUME NEW i \in 1 .. n PROVE \E j \in 1 .. n : Pre(j) = i
    <3>1. CASE i <= k
      <4>1. i + (n - k) \in 1 .. n /\ Pre(i + (n - k)) = i
        BY <1>1, <3>1
      <4> QED BY <4>1
    <3>2. CASE i > k
      <4>1. i - k \in 1 .. n /\ Pre(i - k) = i
        BY <1>1, <3>2
      <4> QED BY <4>1
    <3> QED BY <3>1, <3>2, <1>1
  <2> HIDE DEF Pre
  <2>2. \A i \in 1 .. n : \E j \in 1 .. n : r[j] = q[i]
    BY <2>1, <1>5
  <2>3. \A j \in 1 .. n : \E i \in 1 .. n : r[j] = q[i]
    BY <1>5
  <2>4. Elements(q) = {q[i] : i \in 1 .. n} /\ Elements(r) = {r[i] : i \in 1 .. n}
    BY <1>1, <1>4 DEF Elements
  <2> QED BY <2>2, <2>3, <2>4
<1> QED BY <1>4, <1>6, <1>7 DEF r, n

\* add_process on a pid that is not queued.
LEMMA PushHeadFacts ==
  ASSUME NEW S, NEW q \in Seq(S), NEW p \in S, InjectiveSeq(q), p \notin Elements(q)
  PROVE  /\ <<p>> \o q \in Seq(S)
         /\ Len(<<p>> \o q) = Len(q) + 1
         /\ \A i \in 1 .. Len(q) + 1 : (<<p>> \o q)[i] = IF i = 1 THEN p ELSE q[i - 1]
         /\ InjectiveSeq(<<p>> \o q)
         /\ Elements(<<p>> \o q) = Elements(q) \cup {p}
<1> DEFINE n == Len(q)
           r == <<p>> \o q
<1>1. n \in Nat /\ DOMAIN q = 1 .. n /\ \A i \in 1 .. n : q[i] \in S
  OBVIOUS
<1>2. r \in Seq(S) /\ Len(r) = n + 1 /\ DOMAIN r = 1 .. n + 1
  BY <1>1
<1>3. r[1] = p /\ \A i \in 1 .. n : r[i + 1] = q[i]
  BY <1>1
<1>4. \A i \in 1 .. n + 1 : i = 1 \/ (i - 1 \in 1 .. n /\ r[i] = q[i - 1])
  BY <1>1, <1>3
<1>5. InjectiveSeq(r)
  <2> SUFFICES ASSUME NEW i \in 1 .. n + 1, NEW j \in 1 .. n + 1, r[i] = r[j]
               PROVE i = j
    BY <1>2 DEF InjectiveSeq
  <2>1. CASE i = 1 /\ j = 1
    BY <2>1
  <2>2. CASE i = 1 /\ j # 1
    BY <2>2, <1>1, <1>3, <1>4 DEF Elements
  <2>3. CASE i # 1 /\ j = 1
    BY <2>3, <1>1, <1>3, <1>4 DEF Elements
  <2>4. CASE i # 1 /\ j # 1
    BY <2>4, <1>1, <1>4 DEF InjectiveSeq
  <2> QED BY <2>1, <2>2, <2>3, <2>4
<1>6. Elements(r) = Elements(q) \cup {p}
  <2>1. \A i \in 1 .. n + 1 : r[i] \in Elements(q) \cup {p}
    BY <1>1, <1>3, <1>4 DEF Elements
  <2>2. \A i \in 1 .. n : q[i] \in Elements(r)
    <3> TAKE i \in 1 .. n
    <3>1. i + 1 \in DOMAIN r /\ r[i + 1] = q[i]
      BY <1>1, <1>2, <1>3
    <3> QED BY <3>1 DEF Elements
  <2>3. p \in Elements(r)
    BY <1>1, <1>2, <1>3 DEF Elements
  <2> QED BY <2>1, <2>2, <2>3, <1>1, <1>2 DEF Elements
<1>7. \A i \in 1 .. n + 1 : r[i] = IF i = 1 THEN p ELSE q[i - 1]
  BY <1>3, <1>4
<1> QED BY <1>2, <1>5, <1>6, <1>7

\* remove_task of a queued pid takes out that pid and nobody else.
LEMMA WithoutFacts ==
  ASSUME NEW S, NEW q \in Seq(S), NEW p \in Elements(q), InjectiveSeq(q)
  PROVE  /\ Without(q, p) \in Seq(S)
         /\ Len(Without(q, p)) = Len(q) - 1
         /\ \A k \in 1 .. Len(q) : q[k] = p =>
               \A i \in 1 .. Len(q) - 1 : Without(q, p)[i] = IF i < k THEN q[i] ELSE q[i + 1]
         /\ InjectiveSeq(Without(q, p))
         /\ Elements(Without(q, p)) = Elements(q) \ {p}
<1> DEFINE n == Len(q)
           k == CHOOSE i \in DOMAIN q : q[i] = p
           r == Without(q, p)
<1>1. n \in Nat /\ DOMAIN q = 1 .. n /\ \A i \in 1 .. n : q[i] \in S
  OBVIOUS
<1>2. k \in 1 .. n /\ q[k] = p
  BY <1>1 DEF Elements
<1> DEFINE u == SubSeq(q, 1, k - 1)
           v == SubSeq(q, k + 1, n)
<1>3. r = u \o v
  BY DEF Without
<1> HIDE DEF k, r
<1>4. u \in Seq(S) /\ Len(u) = k - 1 /\ \A i \in 1 .. k - 1 : u[i] = q[i]
  <2>1. \A i \in 1 .. k - 1 : q[i] \in S
    BY <1>1, <1>2
  <2>2. /\ u \in Seq(S)
        /\ Len(u) = IF 1 <= k - 1 THEN (k - 1) - 1 + 1 ELSE 0
        /\ \A i \in 1 .. (k - 1) - 1 + 1 : u[i] = q[1 + i - 1]
    BY <1>1, <1>2, <2>1, SubSeqProperties
  <2> QED BY <1>1, <1>2, <2>2
<1>5. v \in Seq(S) /\ Len(v) = n - k /\ \A i \in 1 .. n - k : v[i] = q[i + k]
  <2>1. \A i \in k + 1 .. n : q[i] \in S
    BY <1>1, <1>2
  <2>2. /\ v \in Seq(S)
        /\ Len(v) = IF k + 1 <= n THEN n - (k + 1) + 1 ELSE 0
        /\ \A i \in 1 .. n - (k + 1) + 1 : v[i] = q[(k + 1) + i - 1]
    BY <1>1, <1>2, <2>1, SubSeqProperties
  <2> HIDE DEF v, n
  <2>3. Len(v) = n - k
    BY <1>1, <1>2, <2>2
  <2>4. ASSUME NEW i \in 1 .. n - k PROVE v[i] = q[i + k]
    <3>1. i \in 1 .. n - (k + 1) + 1 /\ (k + 1) + i - 1 = i + k
      BY <1>1, <1>2
    <3> QED BY <2>2, <3>1
  <2> QED BY <2>2, <2>3, <2>4
<1> HIDE DEF n, u, v
<1>6. /\ r \in Seq(S) /\ Len(r) = n - 1 /\ DOMAIN r = 1 .. n - 1
      /\ \A i \in 1 .. n - 1 : r[i] = IF i < k THEN q[i] ELSE q[i + 1]
  <2>1. /\ r \in Seq(S) /\ Len(r) = Len(u) + Len(v)
        /\ \A i \in 1 .. Len(u) + Len(v) :
              r[i] = IF i <= Len(u) THEN u[i] ELSE v[i - Len(u)]
    BY <1>3, <1>4, <1>5, ConcatProperties
  <2>2. Len(r) = n - 1 /\ DOMAIN r = 1 .. n - 1
    BY <1>1, <1>2, <1>4, <1>5, <2>1
  <2>3. \A i \in 1 .. n - 1 : r[i] = IF i < k THEN q[i] ELSE q[i + 1]
    BY <1>1, <1>2, <1>4, <1>5, <2>1
  <2> QED BY <2>1, <2>2, <2>3
<1>7. \A i \in 1 .. n : i # k => q[i] # p
  BY <1>1, <1>2 DEF InjectiveSeq
<1>8. InjectiveSeq(r)
  <2> SUFFICES ASSUME NEW i \in 1 .. n - 1, NEW j \in 1 .. n - 1, r[i] = r[j]
               PROVE  i = j
    BY <1>6 DEF InjectiveSeq
  <2> DEFINE Pre(x) == IF x < k THEN x ELSE x + 1
  <2>1. \A x \in 1 .. n - 1 : Pre(x) \in 1 .. n /\ r[x] = q[Pre(x)]
    BY <1>1, <1>2, <1>6
  <2>2. Pre(i) = Pre(j)
    BY <1>1, <2>1 DEF InjectiveSeq
  <2> QED BY <1>1, <1>2, <2>2
<1>9. Elements(r) = Elements(q) \ {p}
  <2>1. ASSUME NEW i \in 1 .. n - 1 PROVE r[i] \in Elements(q) \ {p}
    <3>1. PICK j \in 1 .. n : j # k /\ r[i] = q[j]
      BY <1>1, <1>2, <1>6
    <3> QED BY <3>1, <1>1, <1>7 DEF Elements
  <2>2. ASSUME NEW i \in 1 .. n, i # k PROVE q[i] \in Elements(r)
    <3>1. CASE i < k
      <4>1. i \in 1 .. n - 1 /\ r[i] = q[i]
        BY <1>1, <1>2, <1>6, <3>1
      <4> QED BY <4>1, <1>6 DEF Elements
    <3>2. CASE i > k
      <4>1. i - 1 \in 1 .. n - 1 /\ r[i - 1] = q[i]
        BY <1>1, <1>2, <1>6, <3>2
      <4> QED BY <4>1, <1>6 DEF Elements
    <3> QED BY <3>1, <3>2, <2>2, <1>1, <1>2
  <2> QED BY <2>1, <2>2, <1>1, <1>2, <1>6, <1>7 DEF Elements
<1>10. ASSUME NEW m \in 1 .. n, q[m] = p
       PROVE  \A i \in 1 .. n - 1 : r[i] = IF i < m THEN q[i] ELSE q[i + 1]
  <2>1. m = k
    BY <1>7, <1>10
  <2> QED BY <1>6, <2>1
<1> QED BY <1>6, <1>8, <1>9, <1>10 DEF r, n

-----------------------------------------------------------------------------
(* Sequences: what insertion and removal do to the elements.               *)

\* l is the sequence s over S with e put at place k.
Inserted(S, s, k, e, l) ==
  /\ l \in Seq(S) /\ Len(l) = Len(s) + 1 /\ DOMAIN l = 1 .. Len(s) + 1
  /\ \A i \in 1 .. Len(s) + 1 : l[i] = IF i < k THEN s[i] ELSE IF i = k THEN e ELSE s[i - 1]

LEMMA InsertAtFacts ==
  ASSUME NEW S, NEW s \in Seq(S), NEW k \in 1 .. Len(s) + 1, NEW e \in S
  PROVE  Inserted(S, s, k, e, InsertAt(s, k, e))
<1> DEFINE n == Len(s)
           u == SubSeq(s, 1, k - 1)
           v == SubSeq(s, k, n)
           r == InsertAt(s, k, e)
<1>1. n \in Nat /\ k \in Nat /\ 1 <= k /\ k <= n + 1 /\ \A i \in 1 .. n : s[i] \in S
  OBVIOUS
<1>2. u \in Seq(S) /\ Len(u) = k - 1 /\ \A i \in 1 .. k - 1 : u[i] = s[i]
  <2>1. \A i \in 1 .. k - 1 : s[i] \in S
    BY <1>1
  <2>2. /\ u \in Seq(S)
        /\ Len(u) = IF 1 <= k - 1 THEN (k - 1) - 1 + 1 ELSE 0
        /\ \A i \in 1 .. (k - 1) - 1 + 1 : u[i] = s[1 + i - 1]
    BY <1>1, <2>1, SubSeqProperties
  <2> QED BY <1>1, <2>2
<1>3. v \in Seq(S) /\ Len(v) = n - k + 1 /\ \A i \in 1 .. n - k + 1 : v[i] = s[k + i - 1]
  <2>1. \A i \in k .. n : s[i] \in S
    BY <1>1
  <2>2. /\ v \in Seq(S)
        /\ Len(v) = IF k <= n THEN n - k + 1 ELSE 0
        /\ \A i \in 1 .. n - k + 1 : v[i] = s[k + i - 1]
    BY <1>1, <2>1, SubSeqProperties
  <2> HIDE DEF v, n
  <2> QED BY <1>1, <2>2
<1>4. r = (u \o <<e>>) \o v
  BY DEF InsertAt
<1> HIDE DEF n, u, v, r
<1>5. <<e>> \in Seq(S) /\ Len(<<e>>) = 1 /\ <<e>>[1] = e
  OBVIOUS
<1> DEFINE w == u \o <<e>>
<1>6. /\ w \in Seq(S) /\ Len(w) = k
      /\ \A i \in 1 .. k : w[i] = IF i < k THEN s[i] ELSE e
  <2>1. /\ w \in Seq(S) /\ Len(w) = Len(u) + Len(<<e>>)
        /\ \A i \in 1 .. Len(u) + Len(<<e>>) :
              w[i] = IF i <= Len(u) THEN u[i] ELSE <<e>>[i - Len(u)]
    BY <1>2, <1>5, ConcatProperties
  <2> HIDE DEF w
  <2> QED BY <1>1, <1>2, <1>5, <2>1
<1>7. /\ r \in Seq(S) /\ Len(r) = Len(w) + Len(v)
      /\ \A i \in 1 .. Len(w) + Len(v) : r[i] = IF i <= Len(w) THEN w[i] ELSE v[i - Len(w)]
  <2>1. r = w \o v
    BY <1>4
  <2> HIDE DEF w
  <2> QED BY <1>3, <1>6, <2>1, ConcatProperties
<1> HIDE DEF w
<1>8. Len(r) = n + 1 /\ DOMAIN r = 1 .. n + 1
  BY <1>1, <1>3, <1>6, <1>7
<1>9. ASSUME NEW i \in 1 .. n + 1
      PROVE  r[i] = IF i < k THEN s[i] ELSE IF i = k THEN e ELSE s[i - 1]
  <2>1. CASE i <= k
    BY <1>1, <1>3, <1>6, <1>7, <2>1
  <2>2. CASE i > k
    <3>1. r[i] = v[i - k] /\ i - k \in 1 .. n - k + 1
      BY <1>1, <1>3, <1>6, <1>7, <2>2
    <3>2. k + (i - k) - 1 = i - 1
      BY <1>1
    <3> QED BY <1>1, <1>3, <2>2, <3>1, <3>2
  <2> QED BY <1>1, <2>1, <2>2
<1> QED BY <1>7, <1>8, <1>9 DEF n, r, Inserted

LEMMA RemoveAtFacts ==
  ASSUME NEW S, NEW s \in Seq(S), NEW k \in 1 .. Len(s)
  PROVE  /\ RemoveAt(s, k) \in Seq(S)
         /\ Len(RemoveAt(s, k)) = Len(s) - 1
         /\ DOMAIN RemoveAt(s, k) = 1 .. Len(s) - 1
         /\ \A i \in 1 .. Len(s) - 1 : RemoveAt(s, k)[i] = IF i < k THEN s[i] ELSE s[i + 1]
<1> DEFINE n == Len(s)
           u == SubSeq(s, 1, k - 1)
           v == SubSeq(s, k + 1, n)
           r == RemoveAt(s, k)
<1>1. n \in Nat /\ k \in Nat /\ 1 <= k /\ k <= n /\ \A i \in 1 .. n : s[i] \in S
  OBVIOUS
<1>2. u \in Seq(S) /\ Len(u) = k - 1 /\ \A i \in 1 .. k - 1 : u[i] = s[i]
  <2>1. \A i \in 1 .. k - 1 : s[i] \in S
    BY <1>1
  <2>2. /\ u \in Seq(S)
        /\ Len(u) = IF 1 <= k - 1 THEN (k - 1) - 1 + 1 ELSE 0
        /\ \A i \in 1 .. (k - 1) - 1 + 1 : u[i] = s[1 + i - 1]
    BY <1>1, <2>1, SubSeqProperties
  <2> QED BY <1>1, <2>2
<1>3. v \in Seq(S) /\ Len(v) = n - k /\ \A i \in 1 .. n - k : v[i] = s[k + i]
  <2>1. \A i \in k + 1 .. n : s[i] \in S
    BY <1>1
  <2>2. /\ v \in Seq(S)
        /\ Len(v) = IF k + 1 <= n THEN n - (k + 1) + 1 ELSE 0
        /\ \A i \in 1 .. n - (k + 1) + 1 : v[i] = s[(k + 1) + i - 1]
    BY <1>1, <2>1, SubSeqProperties
  <2> HIDE DEF v, n
  <2>3. Len(v) = n - k
    BY <1>1, <2>2
  <2>4. ASSUME NEW i \in 1 .. n - k PROVE v[i] = s[k + i]
    <3>1. i \in 1 .. n - (k + 1) + 1 /\ (k + 1) + i - 1 = k + i
      BY <1>1
    <3> QED BY <2>2, <3>1
  <2> QED BY <2>2, <2>3, <2>4
<1>4. r = u \o v
  BY DEF RemoveAt
<1> HIDE DEF n, u, v, r
<1>5. /\ r \in Seq(S) /\ Len(r) = Len(u) + Len(v)
      /\ \A i \in 1 .. Len(u) + Len(v) : r[i] = IF i <= Len(u) THEN u[i] ELSE v[i - Len(u)]
  BY <1>2, <1>3, <1>4, ConcatProperties
<1>6. Len(r) = n - 1 /\ DOMAIN r = 1 .. n - 1
  BY <1>1, <1>2, <1>3, <1>5
<1>7. ASSUME NEW i \in 1 .. n - 1 PROVE r[i] = IF i < k THEN s[i] ELSE s[i + 1]
  <2>1. CASE i < k
    BY <1>1, <1>2, <1>3, <1>5, <2>1
  <2>2. CASE i >= k
    <3>1. r[i] = v[i - (k - 1)] /\ i - (k - 1) \in 1 .. n - k
      BY <1>1, <1>2, <1>3, <1>5, <2>2
    <3>2. k + (i - (k - 1)) = i + 1
      BY <1>1
    <3> QED BY <1>1, <1>3, <2>2, <3>1, <3>2
  <2> QED BY <1>1, <2>1, <2>2
<1> QED BY <1>5, <1>6, <1>7 DEF n, r

-----------------------------------------------------------------------------
(* Slices.                                                                 *)

LEMMA SliceFacts ==
  ASSUME NEW S, NEW s \in Seq(S), NEW a \in Nat, NEW b \in Nat,
         1 <= a, a <= b + 1, b <= Len(s)
  PROVE  /\ SubSeq(s, a, b) \in Seq(S)
         /\ Len(SubSeq(s, a, b)) = b - a + 1
         /\ \A i \in 1 .. b - a + 1 : SubSeq(s, a, b)[i] = s[a + i - 1]
<1> DEFINE u == SubSeq(s, a, b)
<1>1. Len(s) \in Nat /\ \A i \in 1 .. Len(s) : s[i] \in S
  OBVIOUS
<1>2. \A i \in a .. b : s[i] \in S
  BY <1>1
<1>3. /\ u \in Seq(S)
      /\ Len(u) = IF a <= b THEN b - a + 1 ELSE 0
      /\ \A i \in 1 .. b - a + 1 : u[i] = s[a + i - 1]
  BY <1>2, SubSeqProperties
<1> HIDE DEF u
<1>4. Len(u) = b - a + 1
  BY <1>3
<1> QED BY <1>3, <1>4 DEF u

\* What begins a sequence.
LEMMA PrefixFacts ==
  ASSUME NEW S, NEW s \in Seq(S), NEW k \in 0 .. Len(s)
  PROVE  /\ SubSeq(s, 1, k) \in Seq(S) /\ Len(SubSeq(s, 1, k)) = k
         /\ \A i \in 1 .. k : SubSeq(s, 1, k)[i] = s[i]
<1> DEFINE u == SubSeq(s, 1, k)
<1>1. Len(s) \in Nat /\ k \in Nat /\ k <= Len(s)
  OBVIOUS
<1>2. /\ u \in Seq(S) /\ Len(u) = k - 1 + 1 /\ \A i \in 1 .. k - 1 + 1 : u[i] = s[1 + i - 1]
  BY <1>1, SliceFacts
<1> HIDE DEF u
<1>3. ASSUME NEW i \in 1 .. k PROVE u[i] = s[i]
  <2>1. i \in 1 .. k - 1 + 1 /\ 1 + i - 1 = i
    BY <1>1
  <2> QED BY <1>2, <2>1
<1> QED BY <1>1, <1>2, <1>3 DEF u

-----------------------------------------------------------------------------
(* Induction, as the existence of a least counterexample.                  *)

\* A set of numbers has a least one.
LEMMA LeastNat ==
  ASSUME NEW S \in SUBSET Nat, S # {}
  PROVE  \E n \in S : \A m \in S : n <= m
<1>1. PICK n \in S : \A m \in S : ~(<<m, n>> \in OpToRel(<, Nat))
  BY NatLessThanWellFounded, WFMin
<1>2. \A m \in S : ~(m < n)
  BY <1>1 DEF OpToRel
<1> QED BY <1>2
=============================================================================
