--------------------------- MODULE KmallocProofs ---------------------------
(***************************************************************************)
(* The kernel allocator, for any size of storage, any pile of region       *)
(* records and any requests: the regions partition the storage, free       *)
(* memory is zeroed, NULL is honest, and the two lists implement a heap.   *)
(*                                                                         *)
(* The argument is about the bytes that a list covers: adding a region     *)
(* adds its bytes, removing and trimming take them away, merging leaves    *)
(* them, and each keeps the list in order of address.                      *)
(***************************************************************************)
EXTENDS Kmalloc, SequenceProofs

\* The regions of a list, and the bytes they cover.
Members(list) == {list[i] : i \in DOMAIN list}
Covered(list) == UNION {Bytes(list[i]) : i \in DOMAIN list}

\* A list of regions in order.
Tidy(list) == list \in Seq(Regions) /\ InOrder(list)

\* A region that lies in the storage and is not empty.
Placed(r) == r \in Regions /\ r.size > 0 /\ Bytes(r) \subseteq Storage

-----------------------------------------------------------------------------
(* Regions and lists of them.                                              *)

LEMMA PlacedFacts ==
  ASSUME NEW r, Placed(r)
  PROVE  /\ r.ptr \in Nat /\ r.size \in Nat /\ r.size > 0
         /\ 1 <= r.ptr /\ r.ptr + r.size - 1 <= StorageBytes
         /\ r.ptr \in Bytes(r) /\ Bytes(r) \subseteq Storage
<1>1. r.ptr \in Nat /\ r.size \in Nat /\ r.size > 0 /\ Bytes(r) \subseteq Storage
  BY DEF Placed, Regions
<1>2. r.ptr \in Bytes(r) /\ r.ptr + r.size - 1 \in Bytes(r)
  BY <1>1 DEF Bytes
<1> QED BY <1>1, <1>2, KmallocConstants DEF Storage

LEMMA RegionPlaced ==
  ASSUME NEW p \in Nat, NEW z \in Nat, z > 0, 1 <= p, p + z - 1 <= StorageBytes
  PROVE  /\ Placed(Region(p, z)) /\ Region(p, z).ptr = p /\ Region(p, z).size = z
<1>1. Region(p, z) \in Regions /\ Region(p, z).ptr = p /\ Region(p, z).size = z
  BY DEF Region, Regions
<1>2. p .. p + z - 1 \subseteq Storage
  BY KmallocConstants DEF Storage
<1> QED BY <1>1, <1>2 DEF Placed, Bytes

\* Two regions that share no byte lie one behind the other.
LEMMA Apart ==
  ASSUME NEW r, NEW q, Placed(r), Placed(q), Bytes(r) \cap Bytes(q) = {}
  PROVE  r.ptr + r.size <= q.ptr \/ q.ptr + q.size <= r.ptr
<1>1. /\ r.ptr \in Nat /\ r.size \in Nat /\ r.size > 0
      /\ q.ptr \in Nat /\ q.size \in Nat /\ q.size > 0
  BY PlacedFacts
<1>2. r.ptr \notin Bytes(q) /\ q.ptr \notin Bytes(r)
  BY PlacedFacts
<1> QED BY <1>1, <1>2 DEF Bytes

LEMMA IntervalsApart ==
  ASSUME NEW p \in Nat, NEW z \in Nat, NEW q \in Nat, NEW y \in Nat,
         p + z <= q \/ q + y <= p
  PROVE  (p .. p + z - 1) \cap (q .. q + y - 1) = {}
OBVIOUS

LEMMA TidyFacts ==
  ASSUME NEW list, Tidy(list)
  PROVE  /\ list \in Seq(Regions) /\ Len(list) \in Nat /\ DOMAIN list = 1 .. Len(list)
         /\ \A i \in 1 .. Len(list) : Placed(list[i])
         /\ \A i, j \in 1 .. Len(list) : i < j => list[i].ptr + list[i].size <= list[j].ptr
         /\ \A i, j \in 1 .. Len(list) : i # j => /\ Bytes(list[i]) \cap Bytes(list[j]) = {}
                                                /\ list[i] # list[j]
         /\ Covered(list) \subseteq Storage
<1>1. list \in Seq(Regions) /\ Len(list) \in Nat /\ DOMAIN list = 1 .. Len(list)
  BY DEF Tidy
<1>2. \A i \in 1 .. Len(list) : Placed(list[i])
  <2>1. \A i \in 1 .. Len(list) : list[i] \in Regions
    BY <1>1
  <2> QED BY <1>1, <2>1 DEF Tidy, InOrder, Placed
<1>3. \A i, j \in 1 .. Len(list) : i < j => list[i].ptr + list[i].size <= list[j].ptr
  BY <1>1 DEF Tidy, InOrder
<1>4. ASSUME NEW i \in 1 .. Len(list), NEW j \in 1 .. Len(list), i # j
      PROVE  Bytes(list[i]) \cap Bytes(list[j]) = {} /\ list[i] # list[j]
  <2>1. i < j \/ j < i
    BY <1>1, <1>4
  <2>2. list[i].ptr + list[i].size <= list[j].ptr \/ list[j].ptr + list[j].size <= list[i].ptr
    BY <1>3, <2>1
  <2>3. /\ list[i].ptr \in Nat /\ list[i].size \in Nat /\ list[i].size > 0
        /\ list[j].ptr \in Nat /\ list[j].size \in Nat /\ list[j].size > 0
    BY <1>2, PlacedFacts
  <2>4. Bytes(list[i]) \cap Bytes(list[j]) = {}
    BY <2>2, <2>3, IntervalsApart DEF Bytes
  <2>5. list[i].ptr # list[j].ptr
    BY <2>2, <2>3
  <2> QED BY <2>4, <2>5
<1>5. Covered(list) \subseteq Storage
  BY <1>1, <1>2, PlacedFacts DEF Covered
<1> QED BY <1>1, <1>2, <1>3, <1>4, <1>5

LEMMA TidyIntro ==
  ASSUME NEW list \in Seq(Regions), \A i \in 1 .. Len(list) : Placed(list[i]),
         \A i, j \in 1 .. Len(list) : i < j => list[i].ptr + list[i].size <= list[j].ptr
  PROVE  Tidy(list)
<1>1. DOMAIN list = 1 .. Len(list)
  OBVIOUS
<1> QED BY <1>1 DEF Tidy, InOrder, Placed

\* add_region finds the place in front of the first region that is not below the new one.
LEMMA AddRegionPlace ==
  ASSUME NEW list \in Seq(Regions), NEW new \in Regions
  PROVE  \E k \in 1 .. Len(list) + 1 :
            /\ AddRegion(new, list) = InsertAt(list, k, new)
            /\ \A i \in 1 .. k - 1 : list[i].ptr < new.ptr
            /\ k <= Len(list) => ~(list[k].ptr < new.ptr)
<1> DEFINE n == Len(list)
           below == {i \in DOMAIN list : list[i].ptr < new.ptr}
           Fine(k) == /\ \A i \in 1 .. k : i \in below
                      /\ k < n => k + 1 \notin below
           S == {i \in 1 .. n + 1 : i \notin below}
<1>1. n \in Nat /\ DOMAIN list = 1 .. n
  OBVIOUS
<1>2. n + 1 \in S /\ S \subseteq Nat
  BY <1>1
<1> HIDE DEF n, below
<1>3. \E x \in S : \A y \in S : x <= y
  <2>1. PICK x \in S : \A y \in S : ~(<<y, x>> \in OpToRel(<, Nat))
    <3> HIDE DEF S
    <3> QED BY <1>2, NatLessThanWellFounded, WFMin
  <2>2. \A y \in S : ~(y < x)
    BY <1>2, <2>1 DEF OpToRel
  <2> QED BY <1>2, <2>2
<1>4. PICK x \in S : \A y \in S : x <= y
  BY <1>3
<1>5. x - 1 \in 0 .. n /\ Fine(x - 1)
  BY <1>1, <1>4
<1> DEFINE k == CHOOSE j \in 0 .. n : Fine(j)
<1>6. k \in 0 .. n /\ Fine(k)
  <2> HIDE DEF Fine
  <2> QED BY <1>5
<1>7. AddRegion(new, list) = InsertAt(list, k + 1, new)
  BY DEF AddRegion, n, below
<1> HIDE DEF k
<1>8. PICK m \in 1 .. n + 1 : m = k + 1
  BY <1>1, <1>6
<1>9. AddRegion(new, list) = InsertAt(list, m, new)
  BY <1>7, <1>8
<1>10. \A i \in 1 .. m - 1 : list[i].ptr < new.ptr
  BY <1>1, <1>6, <1>8 DEF below
<1>11. m <= n => ~(list[m].ptr < new.ptr)
  BY <1>1, <1>6, <1>8 DEF below
<1> QED BY <1>9, <1>10, <1>11 DEF n

\* add_region keeps a list in order and adds the bytes of the region.
LEMMA AddRegionFacts ==
  ASSUME NEW list, Tidy(list), NEW new, Placed(new), Bytes(new) \cap Covered(list) = {}
  PROVE  /\ Tidy(AddRegion(new, list))
         /\ Members(AddRegion(new, list)) = Members(list) \cup {new}
         /\ Covered(AddRegion(new, list)) = Covered(list) \cup Bytes(new)
<1> DEFINE n == Len(list)
           l == AddRegion(new, list)
<1>1. /\ list \in Seq(Regions) /\ n \in Nat /\ DOMAIN list = 1 .. n
      /\ \A i \in 1 .. n : Placed(list[i])
      /\ \A i, j \in 1 .. n : i < j => list[i].ptr + list[i].size <= list[j].ptr
  BY TidyFacts
<1>2. new \in Regions
  BY DEF Placed
<1>3. PICK k \in 1 .. n + 1 : /\ l = InsertAt(list, k, new)
                              /\ \A i \in 1 .. k - 1 : list[i].ptr < new.ptr
                              /\ k <= n => ~(list[k].ptr < new.ptr)
  BY <1>1, <1>2, AddRegionPlace
<1>4. /\ l \in Seq(Regions) /\ Len(l) = n + 1 /\ DOMAIN l = 1 .. n + 1
      /\ \A i \in 1 .. n + 1 :
            l[i] = IF i < k THEN list[i] ELSE IF i = k THEN new ELSE list[i - 1]
  <2>1. list \in Seq(Regions) /\ k \in 1 .. Len(list) + 1 /\ l = InsertAt(list, k, new)
    BY <1>1, <1>3
  <2> HIDE DEF l
  <2>2. /\ l \in Seq(Regions) /\ Len(l) = Len(list) + 1 /\ DOMAIN l = 1 .. Len(list) + 1
        /\ \A i \in 1 .. Len(list) + 1 :
              l[i] = IF i < k THEN list[i] ELSE IF i = k THEN new ELSE list[i - 1]
    <3>1. Inserted(Regions, list, k, new, l)
      BY <1>2, <2>1, InsertAtFacts
    <3> QED BY <3>1 DEF Inserted
  <2> QED BY <2>2
<1> HIDE DEF l, n
<1>5. /\ \A i \in 1 .. n : list[i].ptr \in Nat /\ list[i].size \in Nat /\ list[i].size > 0
      /\ new.ptr \in Nat /\ new.size \in Nat /\ new.size > 0
  BY <1>1, PlacedFacts
<1>6. ASSUME NEW i \in 1 .. n
      PROVE  list[i].ptr + list[i].size <= new.ptr \/ new.ptr + new.size <= list[i].ptr
  <2>1. Bytes(list[i]) \cap Bytes(new) = {}
    BY <1>1 DEF Covered
  <2> QED BY <1>1, <2>1, Apart
<1>7. \A i \in 1 .. k - 1 : list[i].ptr + list[i].size <= new.ptr
  <2> SUFFICES ASSUME NEW i \in 1 .. k - 1 PROVE list[i].ptr + list[i].size <= new.ptr
    OBVIOUS
  <2>1. i \in 1 .. n /\ list[i].ptr < new.ptr
    BY <1>1, <1>3
  <2> QED BY <1>5, <1>6, <2>1
<1>8. \A i \in k .. n : new.ptr + new.size <= list[i].ptr
  <2> SUFFICES ASSUME NEW i \in k .. n PROVE new.ptr + new.size <= list[i].ptr
    OBVIOUS
  <2>1. i \in 1 .. n /\ k \in 1 .. n /\ k <= n
    BY <1>1
  <2>2. new.ptr + new.size <= list[k].ptr
    BY <1>3, <1>5, <1>6, <2>1
  <2>3. i = k \/ list[k].ptr + list[k].size <= list[i].ptr
    BY <1>1, <2>1
  <2> QED BY <1>5, <2>1, <2>2, <2>3
<1>9. Tidy(l)
  <2>1. \A i \in 1 .. Len(l) : Placed(l[i])
    BY <1>1, <1>3, <1>4
  <2>2. ASSUME NEW i \in 1 .. n + 1, NEW j \in 1 .. n + 1, i < j
        PROVE  l[i].ptr + l[i].size <= l[j].ptr
    <3>1. CASE j < k
      <4>1. l[i] = list[i] /\ l[j] = list[j] /\ i \in 1 .. n /\ j \in 1 .. n
        BY <1>1, <1>3, <1>4, <2>2, <3>1
      <4> QED BY <1>1, <2>2, <4>1
    <3>2. CASE j = k
      <4>1. l[i] = list[i] /\ l[j] = new /\ i \in 1 .. k - 1
        BY <1>1, <1>3, <1>4, <2>2, <3>2
      <4> QED BY <1>7, <4>1
    <3>3. CASE j > k /\ i = k
      <4>1. l[i] = new /\ l[j] = list[j - 1] /\ j - 1 \in k .. n
        BY <1>1, <1>3, <1>4, <2>2, <3>3
      <4> QED BY <1>8, <4>1
    <3>4. CASE j > k /\ i < k
      <4>1. i \in 1 .. n /\ j - 1 \in 1 .. n /\ i < j - 1
        BY <1>1, <1>3, <2>2, <3>4
      <4>2. l[i] = list[i]
        BY <1>1, <1>4, <3>4
      <4>3. l[j] = list[j - 1]
        BY <1>1, <1>4, <3>4
      <4> QED BY <1>1, <4>1, <4>2, <4>3
    <3>5. CASE i > k
      <4>1. /\ l[i] = list[i - 1] /\ l[j] = list[j - 1]
            /\ i - 1 \in 1 .. n /\ j - 1 \in 1 .. n /\ i - 1 < j - 1
        BY <1>1, <1>3, <1>4, <2>2, <3>5
      <4> QED BY <1>1, <4>1
    <3> QED BY <1>1, <1>3, <2>2, <3>1, <3>2, <3>3, <3>4, <3>5
  <2> QED BY <1>4, <2>1, <2>2, TidyIntro
<1>10. Members(l) = Members(list) \cup {new}
  <2>1. ASSUME NEW i \in 1 .. n PROVE \E j \in 1 .. n + 1 : l[j] = list[i]
    <3>1. CASE i < k
      BY <1>1, <1>4, <3>1
    <3>2. CASE i >= k
      <4>1. i + 1 \in 1 .. n + 1 /\ ~(i + 1 < k) /\ i + 1 # k /\ (i + 1) - 1 = i
        BY <1>1, <3>2
      <4> QED BY <1>4, <4>1
    <3> QED BY <1>1, <3>1, <3>2
  <2>2. k \in 1 .. n + 1 /\ l[k] = new
    BY <1>1, <1>4
  <2>3. \A i \in 1 .. n + 1 : l[i] = new \/ \E j \in 1 .. n : l[i] = list[j]
    BY <1>1, <1>4
  <2>4. Members(l) = {l[i] : i \in 1 .. n + 1} /\ Members(list) = {list[i] : i \in 1 .. n}
    BY <1>1, <1>4 DEF Members
  <2> QED BY <2>1, <2>2, <2>3, <2>4
<1>11. Covered(l) = Covered(list) \cup Bytes(new)
  <2>1. \A q : Covered(q) = UNION {Bytes(r) : r \in Members(q)}
    BY DEF Covered, Members
  <2> QED BY <1>10, <2>1
<1> QED BY <1>9, <1>10, <1>11 DEF l

\* remove keeps a list in order and takes away the bytes of the region.
LEMMA RemoveRegionFacts ==
  ASSUME NEW list, Tidy(list), NEW k \in 1 .. Len(list)
  PROVE  /\ Tidy(RemoveAt(list, k)) /\ Len(RemoveAt(list, k)) = Len(list) - 1
         /\ \A i \in 1 .. Len(list) - 1 :
               RemoveAt(list, k)[i] = IF i < k THEN list[i] ELSE list[i + 1]
         /\ Members(RemoveAt(list, k)) = Members(list) \ {list[k]}
         /\ Covered(RemoveAt(list, k)) = Covered(list) \ Bytes(list[k])
<1>0. PICK l : l = RemoveAt(list, k)
  OBVIOUS
<1>1. /\ list \in Seq(Regions) /\ Len(list) \in Nat /\ DOMAIN list = 1 .. Len(list)
      /\ \A i \in 1 .. Len(list) : Placed(list[i])
      /\ \A i, j \in 1 .. Len(list) : i < j => list[i].ptr + list[i].size <= list[j].ptr
      /\ \A i, j \in 1 .. Len(list) : i # j => /\ Bytes(list[i]) \cap Bytes(list[j]) = {}
                                             /\ list[i] # list[j]
  BY TidyFacts
<1>2. /\ l \in Seq(Regions) /\ Len(l) = Len(list) - 1 /\ DOMAIN l = 1 .. Len(list) - 1
      /\ \A i \in 1 .. Len(list) - 1 : l[i] = IF i < k THEN list[i] ELSE list[i + 1]
  <2>1. list \in Seq(Regions)
    BY <1>1
  <2> QED BY <1>0, <2>1, RemoveAtFacts
<1> DEFINE n == Len(list)
           From(i) == IF i < k THEN i ELSE i + 1
<1>3. n \in Nat /\ k \in 1 .. n
  BY <1>1
<1>4. /\ \A i \in 1 .. n - 1 : From(i) \in 1 .. n /\ l[i] = list[From(i)] /\ From(i) # k
      /\ \A i, j \in 1 .. n - 1 : i < j => From(i) < From(j)
      /\ \A i \in 1 .. n : i # k => \E j \in 1 .. n - 1 : From(j) = i
  <2> HIDE DEF n
  <2>1. \A i \in 1 .. n - 1 : From(i) \in 1 .. n /\ From(i) # k
    BY <1>3
  <2>2. \A i \in 1 .. n - 1 : l[i] = list[From(i)]
    BY <1>2, <1>3 DEF n
  <2>3. \A i, j \in 1 .. n - 1 : i < j => From(i) < From(j)
    BY <1>3
  <2>4. ASSUME NEW i \in 1 .. n, i # k PROVE \E j \in 1 .. n - 1 : From(j) = i
    <3>1. CASE i < k
      BY <1>3, <3>1
    <3>2. CASE i > k
      <4>1. i - 1 \in 1 .. n - 1 /\ From(i - 1) = i
        BY <1>3, <3>2
      <4> QED BY <4>1
    <3> QED BY <1>3, <2>4, <3>1, <3>2
  <2> QED BY <2>1, <2>2, <2>3, <2>4
<1>5. Tidy(l)
  <2>1. \A i \in 1 .. Len(l) : Placed(l[i])
    BY <1>1, <1>2, <1>4
  <2>2. ASSUME NEW i \in 1 .. n - 1, NEW j \in 1 .. n - 1, i < j
        PROVE  l[i].ptr + l[i].size <= l[j].ptr
    <3>1. From(i) \in 1 .. n /\ From(j) \in 1 .. n /\ From(i) < From(j)
      BY <1>4, <2>2
    <3>2. list[From(i)].ptr + list[From(i)].size <= list[From(j)].ptr
      <4> HIDE DEF From
      <4> QED BY <1>1, <3>1
    <3> QED BY <1>4, <3>2
  <2> QED BY <1>2, <2>1, <2>2, TidyIntro
<1>6. Members(l) = Members(list) \ {list[k]}
  <2> HIDE DEF From
  <2>1. Members(l) = {l[i] : i \in 1 .. n - 1} /\ Members(list) = {list[i] : i \in 1 .. n}
    BY <1>1, <1>2 DEF Members
  <2>2. \A i \in 1 .. n : i # k => list[i] # list[k]
    BY <1>1
  <2> HIDE DEF n
  <2>3. \A i \in 1 .. n - 1 : l[i] \in {list[j] : j \in 1 .. n} /\ l[i] # list[k]
    BY <1>4, <2>2
  <2>4. \A i \in 1 .. n : list[i] # list[k] => \E j \in 1 .. n - 1 : l[j] = list[i]
    BY <1>4
  <2> QED BY <2>1, <2>3, <2>4
<1>7. Covered(l) = Covered(list) \ Bytes(list[k])
  <2>1. \A q : Covered(q) = UNION {Bytes(r) : r \in Members(q)}
    BY DEF Covered, Members
  <2>2. \A r \in Members(list) : r # list[k] => Bytes(r) \cap Bytes(list[k]) = {}
    BY <1>1 DEF Members
  <2> QED BY <1>6, <2>1, <2>2
<1> QED BY <1>0, <1>2, <1>5, <1>6, <1>7

\* A region moves its left end to the right, or its right end as far as the next region.
LEMMA ReplaceRegionFacts ==
  ASSUME NEW list, Tidy(list), NEW k \in 1 .. Len(list), NEW q, Placed(q),
         list[k].ptr <= q.ptr,
         \A j \in k + 1 .. Len(list) : q.ptr + q.size <= list[j].ptr
  PROVE  /\ Tidy(ReplaceAt(list, k, q)) /\ Len(ReplaceAt(list, k, q)) = Len(list)
         /\ \A i \in 1 .. Len(list) : ReplaceAt(list, k, q)[i] = IF i = k THEN q ELSE list[i]
         /\ Covered(ReplaceAt(list, k, q)) = (Covered(list) \ Bytes(list[k])) \cup Bytes(q)
<1>0. PICK l : l = ReplaceAt(list, k, q)
  OBVIOUS
<1>1. /\ list \in Seq(Regions) /\ Len(list) \in Nat /\ DOMAIN list = 1 .. Len(list)
      /\ \A i \in 1 .. Len(list) : Placed(list[i])
      /\ \A i, j \in 1 .. Len(list) : i < j => list[i].ptr + list[i].size <= list[j].ptr
      /\ \A i, j \in 1 .. Len(list) : i # j => Bytes(list[i]) \cap Bytes(list[j]) = {}
  BY TidyFacts
<1>2. /\ l \in Seq(Regions) /\ Len(l) = Len(list) /\ DOMAIN l = 1 .. Len(list)
      /\ \A i \in 1 .. Len(list) : l[i] = IF i = k THEN q ELSE list[i]
  <2>1. q \in Regions
    BY DEF Placed
  <2>2. l \in Seq(Regions) /\ Len(l) = Len(list)
    BY <1>0, <1>1, <2>1, ExceptSeq DEF ReplaceAt
  <2>3. DOMAIN l = DOMAIN list
    BY <1>0 DEF ReplaceAt
  <2> QED BY <1>0, <1>1, <2>2, <2>3 DEF ReplaceAt
<1>3. /\ \A i \in 1 .. Len(list) : list[i].ptr \in Nat /\ list[i].size \in Nat
      /\ q.ptr \in Nat /\ q.size \in Nat
  BY <1>1, PlacedFacts
<1>4. Tidy(l)
  <2>1. \A i \in 1 .. Len(l) : Placed(l[i])
    BY <1>1, <1>2
  <2>2. ASSUME NEW i \in 1 .. Len(list), NEW j \in 1 .. Len(list), i < j
        PROVE  l[i].ptr + l[i].size <= l[j].ptr
    <3>1. CASE i # k /\ j # k
      BY <1>1, <1>2, <2>2, <3>1
    <3>2. CASE i = k
      <4>1. j \in k + 1 .. Len(list) /\ l[i] = q /\ l[j] = list[j]
        BY <1>1, <1>2, <2>2, <3>2
      <4> QED BY <4>1
    <3>3. CASE j = k
      <4>1. l[i] = list[i] /\ l[j] = q
        BY <1>1, <1>2, <2>2, <3>3
      <4>2. list[i].ptr + list[i].size <= list[k].ptr
        BY <1>1, <2>2, <3>3
      <4> QED BY <1>3, <4>1, <4>2
    <3> QED BY <3>1, <3>2, <3>3
  <2> QED BY <1>2, <2>1, <2>2, TidyIntro
<1>5. Covered(l) = (Covered(list) \ Bytes(list[k])) \cup Bytes(q)
  <2>1. \A a : a \in Covered(l) <=> \E i \in 1 .. Len(list) : a \in Bytes(l[i])
    BY <1>2 DEF Covered
  <2>2. \A a : a \in Covered(list) <=> \E i \in 1 .. Len(list) : a \in Bytes(list[i])
    BY <1>1 DEF Covered
  <2>3. \A i \in 1 .. Len(list) : i # k => Bytes(list[i]) \cap Bytes(list[k]) = {}
    BY <1>1
  <2> QED BY <1>2, <2>1, <2>2, <2>3
<1> QED BY <1>0, <1>2, <1>4, <1>5

\* ltrim takes the first bytes of a region away from the list.
LEMMA TrimmedFacts ==
  ASSUME NEW list, Tidy(list), NEW k \in 1 .. Len(list), NEW z \in Nat,
         z > 0, z <= list[k].size
  PROVE  /\ Tidy(Trimmed(list, k, z))
         /\ Placed(Region(list[k].ptr, z))
         /\ Bytes(Region(list[k].ptr, z)) \subseteq Bytes(list[k])
         /\ Covered(Trimmed(list, k, z)) = Covered(list) \ Bytes(Region(list[k].ptr, z))
<1>0. PICK l : l = Trimmed(list, k, z)
  OBVIOUS
<1> DEFINE r == list[k]
           c == Region(r.ptr, z)
<1>1. /\ list \in Seq(Regions) /\ Len(list) \in Nat /\ DOMAIN list = 1 .. Len(list)
      /\ \A i \in 1 .. Len(list) : Placed(list[i])
      /\ \A i, j \in 1 .. Len(list) : i < j => list[i].ptr + list[i].size <= list[j].ptr
  BY TidyFacts
<1>2. /\ r.ptr \in Nat /\ r.size \in Nat /\ r.size > 0
      /\ 1 <= r.ptr /\ r.ptr + r.size - 1 <= StorageBytes
  BY <1>1, PlacedFacts
<1>3. Placed(c) /\ c.ptr = r.ptr /\ c.size = z
  BY <1>2, KmallocConstants, RegionPlaced
<1>4. Bytes(c) = r.ptr .. r.ptr + z - 1 /\ Bytes(r) = r.ptr .. r.ptr + r.size - 1
  BY <1>3 DEF Bytes
<1>5. Bytes(c) \subseteq Bytes(r)
  BY <1>2, <1>4
<1>6. CASE r.size = z
  <2>1. l = RemoveAt(list, k)
    BY <1>0, <1>6 DEF Trimmed
  <2>2. Bytes(c) = Bytes(list[k])
    BY <1>4, <1>6
  <2>3. Tidy(l) /\ Covered(l) = Covered(list) \ Bytes(list[k])
    BY <2>1, RemoveRegionFacts
  <2> QED BY <1>0, <1>3, <1>5, <2>2, <2>3
<1>7. CASE r.size # z
  <2>0. PICK q : q = Region(r.ptr + z, r.size - z)
    OBVIOUS
  <2>1. l = ReplaceAt(list, k, q)
    BY <1>0, <1>7, <2>0 DEF Trimmed, ReplaceAt
  <2>2. Placed(q) /\ q.ptr = r.ptr + z /\ q.size = r.size - z
    <3>1. /\ r.ptr + z \in Nat /\ r.size - z \in Nat /\ r.size - z > 0
          /\ 1 <= r.ptr + z /\ (r.ptr + z) + (r.size - z) - 1 <= StorageBytes
      BY <1>2, <1>7, KmallocConstants
    <3> QED BY <2>0, <3>1, RegionPlaced
  <2>3. list[k].ptr <= q.ptr /\ \A j \in k + 1 .. Len(list) : q.ptr + q.size <= list[j].ptr
    <3>1. \A j \in k + 1 .. Len(list) : r.ptr + r.size <= list[j].ptr
      BY <1>1
    <3>2. q.ptr + q.size = r.ptr + r.size
      BY <1>2, <2>2
    <3> QED BY <1>2, <2>2, <3>1, <3>2
  <2>4. Tidy(l) /\ Covered(l) = (Covered(list) \ Bytes(list[k])) \cup Bytes(q)
    BY <2>1, <2>2, <2>3, ReplaceRegionFacts
  <2>5. Bytes(q) = Bytes(r) \ Bytes(c)
    <3>1. Bytes(q) = r.ptr + z .. (r.ptr + z) + (r.size - z) - 1
      BY <2>2 DEF Bytes
    <3>2. ASSUME NEW p \in Nat, NEW y \in Nat, y >= z
          PROVE  p + z .. (p + z) + (y - z) - 1 = (p .. p + y - 1) \ (p .. p + z - 1)
      BY <3>2
    <3> QED BY <1>2, <1>4, <3>1, <3>2
  <2>6. Bytes(r) \subseteq Covered(list)
    BY <1>1 DEF Covered
  <2> QED BY <1>0, <1>3, <1>5, <2>4, <2>5, <2>6
<1> QED BY <1>6, <1>7

\* Merging two neighbours leaves the free bytes as they are.
LEMMA MergedFacts ==
  ASSUME Tidy(free_regions), NEW i \in 1 .. Len(free_regions), NEW l, l = Merged(i)
  PROVE  /\ Tidy(l) /\ i \in 1 .. Len(l) /\ Len(l) <= Len(free_regions)
         /\ Covered(l) = Covered(free_regions)
         /\ \A j \in 1 .. i - 1 : l[j] = free_regions[j]
         /\ ~Merges(i) => l = free_regions
<1> DEFINE n == Len(free_regions)
<1>0. PICK a, b, k : a = free_regions[i] /\ b = free_regions[k] /\ k = i + 1
  OBVIOUS
<1>1. /\ free_regions \in Seq(Regions) /\ n \in Nat /\ DOMAIN free_regions = 1 .. n
      /\ \A j \in 1 .. n : Placed(free_regions[j])
      /\ \A j, m \in 1 .. n : j < m =>
            free_regions[j].ptr + free_regions[j].size <= free_regions[m].ptr
      /\ \A j, m \in 1 .. n : j # m => Bytes(free_regions[j]) \cap Bytes(free_regions[m]) = {}
  BY TidyFacts
<1>2. CASE ~Merges(i)
  <2>1. l = free_regions
    BY <1>2 DEF Merged
  <2> QED BY <1>1, <2>1
<1>3. CASE Merges(i)
  <2>1. i + 1 \in 1 .. n /\ k \in 1 .. n /\ a.ptr + a.size = b.ptr
    BY <1>0, <1>1, <1>3 DEF Merges, AreAdjacent
  <2>2. PICK m : m = RemoveAt(free_regions, k)
    OBVIOUS
  <2>3. /\ Tidy(m) /\ Len(m) = n - 1
        /\ \A j \in 1 .. n - 1 : m[j] = IF j < k THEN free_regions[j] ELSE free_regions[j + 1]
        /\ Covered(m) = Covered(free_regions) \ Bytes(b)
    BY <1>0, <2>1, <2>2, RemoveRegionFacts
  <2>4. i \in 1 .. n - 1 /\ m[i] = a
    BY <1>0, <1>1, <2>1, <2>3
  <2>5. /\ a \in Regions /\ a.ptr \in Nat /\ a.size \in Nat /\ a.size > 0 /\ 1 <= a.ptr
        /\ b.ptr \in Nat /\ b.size \in Nat /\ b.size > 0 /\ b.ptr + b.size - 1 <= StorageBytes
    <3>1. Placed(a) /\ Placed(b)
      BY <1>0, <1>1, <2>1
    <3> QED BY <3>1, PlacedFacts DEF Placed
  <2>0. PICK q : q = Region(a.ptr, a.size + b.size)
    OBVIOUS
  <2>6. Placed(q) /\ q.ptr = a.ptr /\ q.size = a.size + b.size
    <3>1. /\ a.size + b.size \in Nat /\ a.size + b.size > 0
          /\ a.ptr + (a.size + b.size) - 1 <= StorageBytes
      <4>1. PICK p, s, r, z \in Nat : p = a.ptr /\ s = a.size /\ r = b.ptr /\ z = b.size
        BY <2>5
      <4>2. p + s = r /\ s > 0 /\ z > 0 /\ r + z - 1 <= StorageBytes
        BY <2>1, <2>5, <4>1
      <4>3. p + (s + z) - 1 = r + z - 1 /\ s + z \in Nat /\ s + z > 0
        BY <4>2
      <4>4. p + (s + z) - 1 <= StorageBytes
        BY <4>2, <4>3
      <4> QED BY <4>1, <4>3, <4>4
    <3>2. PICK p \in Nat, s \in Nat : p = a.ptr /\ s = a.size + b.size
      BY <2>5, <3>1
    <3>3. s > 0 /\ 1 <= p /\ p + s - 1 <= StorageBytes
      BY <2>5, <3>1, <3>2
    <3>4. Placed(Region(p, s)) /\ Region(p, s).ptr = p /\ Region(p, s).size = s
      BY <3>3, RegionPlaced
    <3> QED BY <2>0, <3>2, <3>4
  <2>7. l = ReplaceAt(m, i, q)
    <3>1. l = [m EXCEPT ![i].size = @ + free_regions[i + 1].size]
      BY <1>0, <1>3, <2>2 DEF Merged
    <3>2. l = [m EXCEPT ![i] = [a EXCEPT !.size = a.size + b.size]]
      BY <1>0, <2>4, <3>1
    <3>3. [a EXCEPT !.size = a.size + b.size] = q
      BY <2>0, <2>5 DEF Regions, Region
    <3> QED BY <3>2, <3>3 DEF ReplaceAt
  <2>8. m[i].ptr <= q.ptr /\ \A j \in i + 1 .. Len(m) : q.ptr + q.size <= m[j].ptr
    <3>1. m[i].ptr <= q.ptr
      BY <2>4, <2>5, <2>6
    <3>2. ASSUME NEW j \in i + 1 .. Len(m) PROVE q.ptr + q.size <= m[j].ptr
      <4>1. j \in 1 .. n - 1 /\ ~(j < k) /\ j + 1 \in 1 .. n /\ k < j + 1
        BY <1>0, <1>1, <2>1, <2>3
      <4>2. m[j] = free_regions[j + 1]
        BY <2>3, <4>1
      <4>3. b.ptr + b.size <= free_regions[j + 1].ptr
        BY <1>0, <1>1, <2>1, <4>1
      <4> QED BY <2>1, <2>5, <2>6, <4>2, <4>3
    <3> QED BY <3>1, <3>2
  <2>9. /\ Tidy(l) /\ Len(l) = n - 1
        /\ \A j \in 1 .. n - 1 : l[j] = IF j = i THEN q ELSE m[j]
        /\ Covered(l) = (Covered(m) \ Bytes(m[i])) \cup Bytes(q)
    <3>1. Tidy(m) /\ i \in 1 .. Len(m)
      BY <2>3, <2>4
    <3>2. /\ Tidy(l) /\ Len(l) = Len(m)
          /\ \A j \in 1 .. Len(m) : l[j] = IF j = i THEN q ELSE m[j]
          /\ Covered(l) = (Covered(m) \ Bytes(m[i])) \cup Bytes(q)
      BY <2>6, <2>7, <2>8, <3>1, ReplaceRegionFacts
    <3> QED BY <2>3, <3>2
  <2>10. Covered(l) = Covered(free_regions)
    <3>1. Bytes(q) = Bytes(a) \cup Bytes(b)
      <4>1. /\ Bytes(q) = a.ptr .. a.ptr + (a.size + b.size) - 1
            /\ Bytes(b) = a.ptr + a.size .. a.ptr + a.size + b.size - 1
            /\ Bytes(a) = a.ptr .. a.ptr + a.size - 1
        BY <2>1, <2>6 DEF Bytes
      <4>2. PICK p \in Nat, y \in Nat, z \in Nat : a.ptr = p /\ a.size = y /\ b.size = z
        BY <2>5
      <4>3. p .. p + (y + z) - 1 = (p .. p + y - 1) \cup (p + y .. p + y + z - 1)
        OBVIOUS
      <4> QED BY <4>1, <4>2, <4>3
    <3>2. Bytes(a) \subseteq Covered(free_regions) /\ Bytes(b) \subseteq Covered(free_regions)
      BY <1>0, <1>1, <2>1 DEF Covered
    <3> QED BY <2>3, <2>4, <2>9, <3>1, <3>2
  <2>11. \A j \in 1 .. i - 1 : l[j] = free_regions[j]
    BY <1>0, <1>1, <2>1, <2>3, <2>9
  <2> QED BY <1>1, <1>3, <2>4, <2>9, <2>10, <2>11
<1> QED BY <1>2, <1>3

-----------------------------------------------------------------------------
(* The invariant, in terms of the bytes that the lists cover.              *)

HeapOK ==
    /\ Tidy(free_regions) /\ Tidy(allocated_regions)
    /\ Covered(free_regions) \cap Covered(allocated_regions) = {}
    /\ ~fault => Storage \subseteq Covered(free_regions) \cup Covered(allocated_regions)
    /\ Covered(free_regions) \cap dirty = {}
    /\ dirty \subseteq Storage
    /\ call \in [size : Sizes \cup {0}, pos : Nat, merged : BOOLEAN]
    /\ fault \in BOOLEAN

LEMMA HeapOKIsKmallocInv == HeapOK /\ CallOK <=> KmallocInv
<1>1. /\ \A list : \A a : a \in Covered(list) <=> \E i \in DOMAIN list : a \in Bytes(list[i])
  BY DEF Covered
<1>2. ASSUME HeapOK PROVE TypeOK /\ Partition /\ FreeIsClean
  <2>1. TypeOK
    BY <1>2 DEF HeapOK, TypeOK, Tidy
  <2>2. Partition
    BY <1>1, <1>2 DEF HeapOK, Partition, Tidy
  <2>3. FreeIsClean
    BY <1>1, <1>2 DEF HeapOK, FreeIsClean
  <2> QED BY <2>1, <2>2, <2>3
<1>3. ASSUME TypeOK, Partition, FreeIsClean PROVE HeapOK
  <2>1. Tidy(free_regions) /\ Tidy(allocated_regions)
    BY <1>3 DEF TypeOK, Partition, Tidy
  <2>2. Covered(free_regions) \cap Covered(allocated_regions) = {}
    BY <1>1, <1>3 DEF Partition
  <2>3. ~fault => Storage \subseteq Covered(free_regions) \cup Covered(allocated_regions)
    BY <1>1, <1>3 DEF Partition
  <2>4. Covered(free_regions) \cap dirty = {}
    BY <1>1, <1>3 DEF FreeIsClean
  <2> QED BY <1>3, <2>1, <2>2, <2>3, <2>4 DEF HeapOK, TypeOK
<1> QED BY <1>2, <1>3 DEF KmallocInv

\* What a step means for a heap: one of its steps, or nothing.
HeapStep == Abstract!Next \/ UNCHANGED <<Members(allocated_regions), dirty>>

LEMMA IdleFacts ==
  ASSUME HeapOK, CallOK, call # Idle
  PROVE  /\ call.size \in Sizes /\ call.size \in Nat /\ call.size > 0
         /\ call.pos \in Nat /\ call.pos > 0
<1>1. call.size \in Sizes /\ call.pos > 0
  BY DEF CallOK
<1>2. call.pos \in Nat
  BY DEF HeapOK
<1>3. \A z \in Sizes : z \in Nat /\ z > 0
  BY KmallocConstants
<1> QED BY <1>1, <1>2, <1>3

\* The regions that kmalloc takes over or removes are clean: clearing them changes nothing.
LEMMA ClearedClean ==
  ASSUME HeapOK, NEW r, Bytes(r) \subseteq Covered(free_regions)
  PROVE  Cleared(dirty, r) = dirty
BY DEF HeapOK, Cleared

LEMMA MergeClears ==
  ASSUME HeapOK, NEW i \in 1 .. Len(free_regions)
  PROVE  (IF Merges(i) THEN Cleared(dirty, free_regions[i + 1]) ELSE dirty) = dirty
<1>1. CASE Merges(i)
  <2>1. free_regions \in Seq(Regions) /\ i + 1 \in DOMAIN free_regions
    BY <1>1 DEF Merges, HeapOK, Tidy
  <2>2. Bytes(free_regions[i + 1]) \subseteq Covered(free_regions)
    BY <2>1 DEF Covered
  <2> QED BY <2>2, ClearedClean
<1> QED BY <1>1

-----------------------------------------------------------------------------
(* Steps.                                                                  *)

LEMMA KmallocCallStep ==
  ASSUME HeapOK, NEW size \in Sizes, KmallocCall(size)
  PROVE  HeapOK' /\ CallOK' /\ HeapStep
<1>1. /\ UNCHANGED <<free_regions, allocated_regions, dirty, fault>>
      /\ call' = [size |-> size, pos |-> 1, merged |-> FALSE]
  BY DEF KmallocCall
<1>2. size \in Nat /\ size > 0
  BY KmallocConstants
<1>3. HeapOK'
  BY <1>1 DEF HeapOK
<1>4. CallOK'
  <2>1. call'.size = size /\ call'.pos = 1
    BY <1>1
  <2>2. DOMAIN free_regions = 1 .. Len(free_regions)
    BY DEF HeapOK, Tidy
  <2>3. \A i \in DOMAIN free_regions' : ~(i < call'.pos)
    BY <1>1, <2>1, <2>2
  <2> QED BY <2>1, <2>3 DEF CallOK
<1>5. HeapStep
  BY <1>1 DEF HeapStep
<1> QED BY <1>3, <1>4, <1>5

LEMMA KmallocFailsStep ==
  ASSUME HeapOK, KmallocFails PROVE HeapOK' /\ CallOK' /\ HeapStep
<1>1. UNCHANGED <<free_regions, allocated_regions, dirty, fault>> /\ call' = Idle
  BY DEF KmallocFails
<1>2. HeapOK'
  BY <1>1 DEF HeapOK, Idle
<1>3. CallOK'
  BY <1>1 DEF CallOK, Idle
<1> QED BY <1>1, <1>2, <1>3 DEF HeapStep

LEMMA KmallocNextStep ==
  ASSUME HeapOK, CallOK, KmallocNext PROVE HeapOK' /\ CallOK' /\ HeapStep
<1>1. PICK i : i = call.pos
  OBVIOUS
<1>2. /\ call # Idle /\ i <= Len(free_regions) /\ ~Fits(Merged(i)[i], call.size)
      /\ free_regions' = Merged(i)
      /\ dirty' = IF Merges(i) THEN Cleared(dirty, free_regions[i + 1]) ELSE dirty
      /\ call' = [call EXCEPT !.pos = i + 1, !.merged = call.merged \/ Merges(i)]
      /\ UNCHANGED <<allocated_regions, fault>>
  BY <1>1 DEF KmallocNext
<1>3. /\ Tidy(free_regions) /\ free_regions \in Seq(Regions) /\ Len(free_regions) \in Nat
      /\ i \in 1 .. Len(free_regions)
  BY <1>1, <1>2, IdleFacts DEF HeapOK, Tidy
<1>4. /\ Tidy(free_regions') /\ i \in 1 .. Len(free_regions')
      /\ Len(free_regions') <= Len(free_regions)
      /\ Covered(free_regions') = Covered(free_regions)
      /\ \A j \in 1 .. i - 1 : free_regions'[j] = free_regions[j]
      /\ ~Merges(i) => free_regions' = free_regions
  BY <1>2, <1>3, MergedFacts
<1>5. UNCHANGED dirty
  BY <1>2, <1>3, MergeClears
<1>6. /\ call' \in [size : Sizes \cup {0}, pos : Nat, merged : BOOLEAN]
      /\ call'.size = call.size /\ call'.pos = i + 1
      /\ call'.merged = (call.merged \/ Merges(i))
  <2>1. call \in [size : Sizes \cup {0}, pos : Nat, merged : BOOLEAN]
    BY DEF HeapOK
  <2>2. PICK b \in BOOLEAN : b = (call.merged \/ Merges(i))
    OBVIOUS
  <2>3. call' = [call EXCEPT !.pos = i + 1, !.merged = b]
    BY <1>2, <2>2
  <2>4. i + 1 \in Nat
    BY <1>3
  <2> QED BY <2>1, <2>2, <2>3, <2>4
<1>7. HeapOK'
  BY <1>2, <1>4, <1>5, <1>6 DEF HeapOK
<1>8. CallOK'
  <2>1. /\ free_regions' \in Seq(Regions) /\ DOMAIN free_regions' = 1 .. Len(free_regions')
        /\ DOMAIN free_regions = 1 .. Len(free_regions) /\ Len(free_regions') \in Nat
        /\ \A j \in 1 .. Len(free_regions') : free_regions'[j].size \in Nat
    BY <1>3, <1>4, TidyFacts, PlacedFacts
  <2>2. ASSUME NEW j \in DOMAIN free_regions', j < i + 1
        PROVE  free_regions'[j].size < call.size
    <3>1. CASE j = i
      BY <1>2, <1>4, <2>1, <3>1, IdleFacts DEF Fits
    <3>2. CASE j # i
      <4>1. j \in 1 .. i - 1 /\ j \in DOMAIN free_regions /\ j < call.pos
        BY <1>1, <1>3, <1>4, <2>1, <2>2, <3>2
      <4> QED BY <1>2, <1>4, <4>1 DEF CallOK
    <3> QED BY <3>1, <3>2
  <2>3. ASSUME ~call'.merged, NEW j \in DOMAIN free_regions', j < i + 1 PROVE ~Merges(j)'
    <3>1. ~call.merged /\ ~Merges(i) /\ free_regions' = free_regions
      BY <1>4, <1>6, <2>3
    <3>2. j = i \/ (j \in DOMAIN free_regions /\ j < call.pos)
      BY <1>1, <1>3, <2>1, <2>3, <3>1
    <3>3. ~Merges(j)
      BY <1>2, <3>1, <3>2 DEF CallOK
    <3> QED BY <3>1, <3>3 DEF Merges
  <2>4. call'.size \in Sizes /\ call'.pos > 0
    BY <1>2, <1>3, <1>6, IdleFacts
  <2> QED BY <1>6, <2>2, <2>3, <2>4 DEF CallOK
<1>9. HeapStep
  BY <1>2, <1>5 DEF HeapStep
<1> QED BY <1>7, <1>8, <1>9

\* The block that kmalloc finds is free memory, and the lists hand it over whole.
LEMMA KmallocFitsStep ==
  ASSUME HeapOK, CallOK, KmallocFits PROVE HeapOK' /\ CallOK' /\ HeapStep
<1>1. PICK i, z, list, new, rest :
         /\ i = call.pos /\ z = call.size /\ list = Merged(i)
         /\ new = Region(list[i].ptr, z) /\ rest = Trimmed(list, i, z)
  OBVIOUS
<1> DEFINE cleared == IF Merges(i) THEN Cleared(dirty, free_regions[i + 1]) ELSE dirty
<1>2. /\ call # Idle /\ i <= Len(free_regions) /\ Fits(list[i], z)
      /\ free_regions' = rest
      /\ dirty' = IF list[i].size = z THEN Cleared(cleared, list[i]) ELSE cleared
      /\ call' = Idle
      /\ \/ allocated_regions' = AddRegion(new, allocated_regions) /\ UNCHANGED fault
         \/ fault' = TRUE /\ UNCHANGED allocated_regions
  BY <1>1 DEF KmallocFits
<1>3. /\ z \in Nat /\ z > 0 /\ i \in 1 .. Len(free_regions)
      /\ Tidy(free_regions) /\ Tidy(allocated_regions)
  <2>1. free_regions \in Seq(Regions)
    BY DEF HeapOK, Tidy
  <2> QED BY <1>1, <1>2, <2>1, IdleFacts DEF HeapOK
<1>4. Tidy(list) /\ i \in 1 .. Len(list) /\ Covered(list) = Covered(free_regions)
  BY <1>1, <1>3, MergedFacts
<1>5. z <= list[i].size
  <2>1. Placed(list[i])
    BY <1>4, TidyFacts
  <2> QED BY <1>2, <1>3, <2>1, PlacedFacts DEF Fits
<1>6. /\ Tidy(rest) /\ Placed(new) /\ Bytes(new) \subseteq Bytes(list[i])
      /\ Covered(rest) = Covered(free_regions) \ Bytes(new)
  <2>1. /\ Tidy(Trimmed(list, i, z)) /\ Placed(Region(list[i].ptr, z))
        /\ Bytes(Region(list[i].ptr, z)) \subseteq Bytes(list[i])
        /\ Covered(Trimmed(list, i, z)) = Covered(list) \ Bytes(Region(list[i].ptr, z))
    BY <1>3, <1>4, <1>5, TrimmedFacts
  <2> QED BY <1>1, <1>4, <2>1
<1>7. Bytes(list[i]) \subseteq Covered(free_regions)
  BY <1>4, TidyFacts DEF Covered
<1>8. UNCHANGED dirty
  <2>1. cleared = dirty
    BY <1>3, MergeClears
  <2> HIDE DEF cleared
  <2>2. Cleared(dirty, list[i]) = dirty
    BY <1>7, ClearedClean
  <2> QED BY <1>2, <2>1, <2>2
<1>9. Bytes(new) \cap Covered(allocated_regions) = {} /\ Bytes(new) \cap dirty = {}
  BY <1>6, <1>7 DEF HeapOK
<1>10. /\ Tidy(AddRegion(new, allocated_regions))
       /\ Members(AddRegion(new, allocated_regions)) = Members(allocated_regions) \cup {new}
       /\ Covered(AddRegion(new, allocated_regions)) = Covered(allocated_regions) \cup Bytes(new)
  BY <1>3, <1>6, <1>9, AddRegionFacts
<1>11. CallOK' /\ call' \in [size : Sizes \cup {0}, pos : Nat, merged : BOOLEAN]
  BY <1>2 DEF CallOK, Idle
<1> HIDE DEF cleared
<1>12. CASE allocated_regions' = AddRegion(new, allocated_regions) /\ UNCHANGED fault
  <2>1. /\ Tidy(allocated_regions')
        /\ Covered(allocated_regions') = Covered(allocated_regions) \cup Bytes(new)
        /\ Members(allocated_regions') = Members(allocated_regions) \cup {new}
    BY <1>10, <1>12
  <2>2. HeapOK'
    BY <1>2, <1>6, <1>8, <1>9, <1>11, <1>12, <2>1 DEF HeapOK, Storage
  <2>3. Abstract!Malloc
    <3>1. /\ new.ptr \in Storage /\ new.size \in Storage
          /\ Bytes(new) \subseteq Storage \ dirty
          /\ new = [ptr |-> new.ptr, size |-> new.size]
      <4>1. /\ new.ptr \in Nat /\ new.size \in Nat /\ new.size > 0 /\ 1 <= new.ptr
            /\ new.ptr + new.size - 1 <= StorageBytes /\ Bytes(new) \subseteq Storage
        BY <1>6, PlacedFacts
      <4>2. new = [ptr |-> new.ptr, size |-> new.size]
        BY <1>6 DEF Placed, Regions
      <4> QED BY <1>9, <4>1, <4>2, KmallocConstants DEF Storage
    <3>2. \A c \in Members(allocated_regions) : Bytes(new) \cap Bytes(c) = {}
      BY <1>9 DEF Members, Covered
    <3> QED BY <1>8, <2>1, <3>1, <3>2
            DEF Abstract!Malloc, Abstract!Storage, Abstract!Bytes, Storage, Bytes, Members
  <2> QED BY <1>11, <2>2, <2>3 DEF HeapStep, Abstract!Next
<1>13. CASE fault' = TRUE /\ UNCHANGED allocated_regions
  <2>1. HeapOK'
    BY <1>2, <1>6, <1>8, <1>11, <1>13 DEF HeapOK, Storage
  <2> QED BY <1>8, <1>11, <1>13, <2>1 DEF HeapStep
<1> QED BY <1>2, <1>12, <1>13

\* kfree gives the bytes of the block back, zeroed.
LEMMA KfreeStep ==
  ASSUME HeapOK, NEW i \in DOMAIN allocated_regions, Kfree(i)
  PROVE  HeapOK' /\ CallOK' /\ HeapStep
<1>1. PICK r : r = allocated_regions[i]
  OBVIOUS
<1>2. /\ call = Idle
      /\ allocated_regions' = RemoveAt(allocated_regions, i)
      /\ free_regions' = AddRegion(r, free_regions)
      /\ dirty' = dirty \ Bytes(r)
      /\ UNCHANGED <<call, fault>>
  BY <1>1 DEF Kfree, Cleared
<1>3. /\ Tidy(free_regions) /\ Tidy(allocated_regions)
      /\ i \in 1 .. Len(allocated_regions) /\ Placed(r)
      /\ r \in Members(allocated_regions) /\ Bytes(r) \subseteq Covered(allocated_regions)
  <2>1. Tidy(free_regions) /\ Tidy(allocated_regions)
    BY DEF HeapOK
  <2>2. i \in 1 .. Len(allocated_regions) /\ Placed(r)
    BY <1>1, <2>1, TidyFacts
  <2> QED BY <1>1, <2>1, <2>2 DEF Members, Covered
<1>4. /\ Tidy(allocated_regions')
      /\ Members(allocated_regions') = Members(allocated_regions) \ {r}
      /\ Covered(allocated_regions') = Covered(allocated_regions) \ Bytes(r)
  BY <1>1, <1>2, <1>3, RemoveRegionFacts
<1>5. Bytes(r) \cap Covered(free_regions) = {}
  BY <1>3 DEF HeapOK
<1>6. Tidy(free_regions') /\ Covered(free_regions') = Covered(free_regions) \cup Bytes(r)
  BY <1>2, <1>3, <1>5, AddRegionFacts
<1>7. HeapOK'
  BY <1>2, <1>4, <1>6 DEF HeapOK, Storage
<1>8. CallOK'
  BY <1>2 DEF CallOK, Idle
<1>9. Abstract!Free
  BY <1>2, <1>3, <1>4 DEF Abstract!Free, Abstract!Bytes, Bytes, Members
<1> QED BY <1>7, <1>8, <1>9 DEF HeapStep, Abstract!Next

LEMMA WriteStep ==
  ASSUME HeapOK, NEW i \in DOMAIN allocated_regions, Write(i)
  PROVE  HeapOK' /\ CallOK' /\ HeapStep
<1>1. PICK r : r = allocated_regions[i]
  OBVIOUS
<1>2. /\ call = Idle /\ dirty' = dirty \cup Bytes(r)
      /\ UNCHANGED <<free_regions, allocated_regions, call, fault>>
  BY <1>1 DEF Write
<1>3. /\ r \in Members(allocated_regions) /\ Bytes(r) \subseteq Covered(allocated_regions)
      /\ Bytes(r) \subseteq Storage
  <2>1. Tidy(allocated_regions)
    BY DEF HeapOK
  <2>2. Placed(r)
    BY <1>1, <2>1, TidyFacts
  <2> QED BY <1>1, <2>2 DEF Members, Covered, Placed
<1>4. HeapOK'
  BY <1>2, <1>3 DEF HeapOK, Storage
<1>5. CallOK'
  BY <1>2 DEF CallOK, Idle
<1>6. Abstract!Write
  BY <1>2, <1>3 DEF Abstract!Write, Abstract!Bytes, Bytes, Members
<1> QED BY <1>4, <1>5, <1>6 DEF HeapStep, Abstract!Next

LEMMA KmallocNextFacts ==
  ASSUME HeapOK, CallOK, [Next]_vars PROVE HeapOK' /\ CallOK' /\ HeapStep
<1>1. CASE UNCHANGED vars
  BY <1>1 DEF vars, HeapOK, CallOK, HeapStep, Merges, Idle
<1>2. CASE Next
  BY <1>2, KmallocCallStep, KmallocFitsStep, KmallocNextStep, KmallocFailsStep, KfreeStep,
     WriteStep DEF Next
<1> QED BY <1>1, <1>2

LEMMA KmallocInit == ASSUME Init PROVE HeapOK /\ CallOK /\ Abstract!Init
<1>1. PICK r : r = Region(1, StorageBytes)
  OBVIOUS
<1>2. Placed(r) /\ r \in Regions /\ Bytes(r) = Storage
  BY <1>1, KmallocConstants, RegionPlaced DEF Placed, Bytes, Storage
<1>3. /\ free_regions = <<r>> /\ allocated_regions = <<>> /\ dirty = {} /\ call = Idle
      /\ fault = FALSE
  BY <1>1 DEF Init
<1>4. /\ Tidy(free_regions) /\ Covered(free_regions) = Storage
  <2>1. /\ free_regions \in Seq(Regions) /\ Len(free_regions) = 1
        /\ DOMAIN free_regions = {1} /\ free_regions[1] = r
    BY <1>2, <1>3
  <2> QED BY <1>2, <2>1, TidyIntro DEF Covered
<1>5. Tidy(allocated_regions) /\ Covered(allocated_regions) = {} /\ Members(allocated_regions) = {}
  BY <1>3 DEF Tidy, InOrder, Covered, Members
<1>6. HeapOK
  BY <1>3, <1>4, <1>5 DEF HeapOK, Idle
<1>7. CallOK
  BY <1>3 DEF CallOK
<1> QED BY <1>3, <1>5, <1>6, <1>7 DEF Abstract!Init, Members

LEMMA KmallocInvariance == Spec => [](HeapOK /\ CallOK)
BY KmallocInit, KmallocNextFacts, PTL DEF Spec

\* The lists, the storage and the loop of kmalloc keep their types (mem.c).
THEOREM KmallocTypeCorrect == Spec => []TypeOK
<1>1. HeapOK /\ CallOK => TypeOK
  BY HeapOKIsKmallocInv DEF KmallocInv
<1> QED BY <1>1, KmallocInvariance, PTL

\* Splitting, merging and freeing neither lose nor share a byte of the storage: the free
\* and the allocated regions partition it (kmalloc, kfree, ltrim, add_region, remove).
THEOREM MemoryIsPartitioned == Spec => []Partition
<1>1. HeapOK /\ CallOK => Partition
  BY HeapOKIsKmallocInv DEF KmallocInv
<1> QED BY <1>1, KmallocInvariance, PTL

\* What kmalloc can deal out is zeroed, whatever the owners of blocks have written
\* (remove's memset in kfree).
THEOREM FreeMemoryIsClean == Spec => []FreeIsClean
<1>1. HeapOK /\ CallOK => FreeIsClean
  BY HeapOKIsKmallocInv DEF KmallocInv
<1> QED BY <1>1, KmallocInvariance, PTL

\* The two sorted lists of regions implement the heap of module Heap: blocks in the
\* storage that do not overlap and come zeroed.
THEOREM KmallocImplementsHeap == Spec => ImplementsHeap
<1>1. HeapStep => [Abstract!Next]_<<{allocated_regions[i] : i \in DOMAIN allocated_regions}, dirty>>
  BY DEF HeapStep, Members
<1> QED BY <1>1, KmallocInit, KmallocNextFacts, KmallocInvariance, PTL
        DEF Spec, ImplementsHeap, Abstract!Spec

-----------------------------------------------------------------------------
(* NULL is honest.                                                         *)

\* A stretch of free memory that begins in a region ends in it, if no two regions of the
\* list adjoin.
LEMMA StretchInOneRegion ==
  ASSUME Tidy(free_regions),
         \A i \in 1 .. Len(free_regions) : ~Merges(i),
         NEW a \in Nat, NEW z \in Nat, z > 0,
         \A b \in a .. a + z - 1 : b \in Covered(free_regions)
  PROVE  \E i \in 1 .. Len(free_regions) : free_regions[i].size >= z
<1> DEFINE n == Len(free_regions)
           f == free_regions
<1>1. /\ n \in Nat /\ DOMAIN f = 1 .. n
      /\ \A i, j \in 1 .. n : i < j => f[i].ptr + f[i].size <= f[j].ptr
      /\ \A i \in 1 .. n : f[i].ptr \in Nat /\ f[i].size \in Nat /\ f[i].size > 0
  BY TidyFacts, PlacedFacts
<1>2. \A b : b \in Covered(f) => \E i \in 1 .. n : b \in f[i].ptr .. f[i].ptr + f[i].size - 1
  BY <1>1 DEF Covered, Bytes
<1>3. a \in a .. a + z - 1
  OBVIOUS
<1>4. PICK i \in 1 .. n : a \in f[i].ptr .. f[i].ptr + f[i].size - 1
  BY <1>2, <1>3
<1>5. PICK e : e = f[i].ptr + f[i].size
  OBVIOUS
<1>6. e \in Nat /\ a < e /\ f[i].ptr <= a
  BY <1>1, <1>4, <1>5
<1>7. CASE a + z <= e
  BY <1>1, <1>5, <1>6, <1>7
<1>8. CASE e < a + z
  <2>1. e \in a .. a + z - 1
    BY <1>6, <1>8
  <2>2. PICK j \in 1 .. n : e \in f[j].ptr .. f[j].ptr + f[j].size - 1
    BY <1>2, <2>1
  <2>3. f[j].ptr <= e /\ e < f[j].ptr + f[j].size
    BY <1>1, <1>6, <2>2
  <2>4. i < j
    <3>1. j # i
      BY <1>1, <1>5, <2>3
    <3>2. ~(j < i)
      <4>1. SUFFICES ASSUME j < i PROVE FALSE
        OBVIOUS
      <4>2. f[j].ptr + f[j].size <= f[i].ptr
        BY <1>1, <4>1
      <4> QED BY <1>1, <1>5, <1>6, <2>3, <4>2
    <3> QED BY <1>1, <3>1, <3>2
  <2>5. PICK k \in 1 .. n : k = i + 1
    BY <1>1, <2>4
  <2>6. e <= f[k].ptr
    BY <1>1, <1>5, <2>5
  <2>7. f[k].ptr <= f[j].ptr
    <3>1. k = j \/ k < j
      BY <1>1, <2>4, <2>5
    <3>2. CASE k < j
      <4>1. f[k].ptr + f[k].size <= f[j].ptr
        BY <1>1, <3>2
      <4> QED BY <1>1, <4>1
    <3> QED BY <1>1, <3>1, <3>2
  <2>8. f[i].ptr + f[i].size = f[k].ptr
    BY <1>1, <1>5, <1>6, <2>3, <2>6, <2>7
  <2>9. Merges(i)
    BY <1>1, <2>5, <2>8 DEF Merges, AreAdjacent
  <2> QED BY <2>9
<1> QED BY <1>1, <1>6, <1>7, <1>8

\* kmalloc returns NULL only if no free region is large enough, and, unless the call has
\* merged regions, only if no stretch of free memory is (the loop of kmalloc).
THEOREM NullIsHonest == Spec => FailsHonestly
<1> DEFINE Honest == /\ \A i \in DOMAIN free_regions : free_regions[i].size < call.size
                     /\ ~call.merged =>
                          \A a \in 1 .. StorageBytes - call.size + 1 :
                             ~(Bytes(Region(a, call.size)) \subseteq FreeBytes)
<1>1. ASSUME HeapOK, CallOK, KmallocFails PROVE Honest
  <2>1. /\ call # Idle /\ call.pos > Len(free_regions)
        /\ call.size \in Nat /\ call.size > 0 /\ call.pos \in Nat
    BY <1>1, IdleFacts DEF KmallocFails
  <2>2. /\ Tidy(free_regions) /\ Len(free_regions) \in Nat
        /\ DOMAIN free_regions = 1 .. Len(free_regions)
        /\ \A i \in 1 .. Len(free_regions) : free_regions[i].size \in Nat
    <3>1. Tidy(free_regions)
      BY <1>1 DEF HeapOK
    <3> QED BY <3>1, TidyFacts, PlacedFacts
  <2>3. \A i \in DOMAIN free_regions : i < call.pos
    BY <2>1, <2>2
  <2>4. \A i \in DOMAIN free_regions : free_regions[i].size < call.size
    BY <1>1, <2>1, <2>3 DEF CallOK
  <2>5. ASSUME ~call.merged, NEW a \in 1 .. StorageBytes - call.size + 1,
               Bytes(Region(a, call.size)) \subseteq FreeBytes
        PROVE  FALSE
    <3>1. \A i \in 1 .. Len(free_regions) : ~Merges(i)
      BY <1>1, <2>1, <2>2, <2>3, <2>5 DEF CallOK
    <3>2. a \in Nat
      BY <2>1, KmallocConstants
    <3>3. \A b \in a .. a + call.size - 1 : b \in Covered(free_regions)
      BY <2>5 DEF Bytes, Region, FreeBytes, Covered
    <3>4. \E i \in 1 .. Len(free_regions) : free_regions[i].size >= call.size
      BY <2>1, <2>2, <3>1, <3>2, <3>3, StretchInOneRegion
    <3> QED BY <2>1, <2>2, <2>4, <3>4
  <2> QED BY <2>4, <2>5
<1>2. HeapOK /\ CallOK => (KmallocFails => Honest)
  BY <1>1
<1>3. HeapOK /\ CallOK => [KmallocFails => Honest]_vars
  BY <1>2
<1> QED BY <1>3, KmallocInvariance, PTL DEF FailsHonestly
=============================================================================
