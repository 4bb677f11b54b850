------------------------------ MODULE Kmalloc ------------------------------
(***************************************************************************)
(* The kernel allocator, mem.c: two lists of regions sorted by address,    *)
(* made of a fixed pile of region records.                                 *)
(*                                                                         *)
(* One turn of kmalloc's loop is one step; call holds the caller's place   *)
(* in the free list.  Callers have interrupts disabled, so a call is never *)
(* overtaken by another.  The sentinels (address NULL, size 0) are not in  *)
(* the sequences: they never fit a request, never adjoin the storage and   *)
(* only cost two records.                                                  *)
(***************************************************************************)
EXTENDS Integers, Sequences, SequencesExt

CONSTANTS
    StorageBytes,   \* STORAGE_BYTES; addresses are 1 .. StorageBytes, NULL is 0
    MaxRegions,     \* MAX_REGIONS
    Sizes,          \* the sizes that callers ask for (0 is refused at once)
    MaxLive         \* blocks that callers hold at a time (bound)

ASSUME KmallocConstants ==
    /\ StorageBytes \in Nat \ {0}
    /\ MaxRegions \in Nat /\ MaxRegions >= 3
    /\ Sizes \subseteq Nat \ {0}
    /\ MaxLive \in Nat

VARIABLES
    free_regions, allocated_regions,
    dirty,          \* addresses whose byte is not zero
    call,           \* the kmalloc in progress
    fault           \* whether add_region has dereferenced new_region's NULL

vars == <<free_regions, allocated_regions, dirty, call, fault>>

Region(p, s) == [ptr |-> p, size |-> s]
Bytes(r)     == r.ptr .. r.ptr + r.size - 1
Idle         == [size |-> 0, pos |-> 0, merged |-> FALSE]

\* Records of regions[] in use: one each, and two sentinels.
RecordsInUse(free, alloc) == 2 + Len(free) + Len(alloc)

\* MUTANT of AddRegion: the new region goes to the end of the list.
AddRegionLast(new, list) == Append(list, new)

\* add_region: before the first region whose address is not lower.
AddRegion(new, list) ==
    LET below == {i \in DOMAIN list : list[i].ptr < new.ptr}
        k     == CHOOSE k \in 0 .. Len(list) :
                    /\ \A i \in 1 .. k : i \in below
                    /\ k < Len(list) => k + 1 \notin below
    IN  InsertAt(list, k + 1, new)

\* MUTANT of Fits: a region of exactly the size is passed over.
FitsStrictly(r, size) == r.size > size

Fits(r, size) == r.size >= size

AreAdjacent(first, second) == first.ptr + first.size = second.ptr

\* MUTANT of Cleared: the memory of a removed region keeps its contents.
ClearedNot(d, r) == d

\* remove's memset over the region's storage.
Cleared(d, r) == d \ Bytes(r)

\* The free list after kmalloc has looked at region i's successor.
Merges(i) == i < Len(free_regions) /\ AreAdjacent(free_regions[i], free_regions[i + 1])

Merged(i) ==
    IF Merges(i)
    THEN [RemoveAt(free_regions, i + 1) EXCEPT ![i].size = @ + free_regions[i + 1].size]
    ELSE free_regions

\* MUTANT of Trimmed: the rest of the region keeps its address.
TrimmedInPlace(list, i, size) ==
    IF list[i].size = size THEN RemoveAt(list, i)
    ELSE [list EXCEPT ![i].size = @ - size]

\* ltrim: cut `size' bytes from the left of region i, or take all of it.
Trimmed(list, i, size) ==
    IF list[i].size = size
    THEN RemoveAt(list, i)
    ELSE [list EXCEPT ![i] = Region(@.ptr + size, @.size - size)]

-----------------------------------------------------------------------------
\* kmalloc is called.
KmallocCall(size) ==
    /\ call = Idle
    /\ Len(allocated_regions) < MaxLive
    /\ call' = [size |-> size, pos |-> 1, merged |-> FALSE]
    /\ UNCHANGED <<free_regions, allocated_regions, dirty, fault>>

\* One turn of its loop, at a region that is or becomes large enough.  Without a record
\* for the block add_region reads through NULL: the page fault squashes the caller and
\* the block is lost.
KmallocFits ==
    LET i    == call.pos
        list == Merged(i)
        new  == Region(list[i].ptr, call.size)
        rest == Trimmed(list, i, call.size)
        cleared == IF Merges(i) THEN Cleared(dirty, free_regions[i + 1]) ELSE dirty
    IN
    /\ call # Idle
    /\ i <= Len(free_regions)
    /\ Fits(list[i], call.size)
    /\ free_regions' = rest
    /\ dirty' = IF list[i].size = call.size THEN Cleared(cleared, list[i]) ELSE cleared
    /\ call' = Idle
    /\ IF RecordsInUse(rest, allocated_regions) < MaxRegions
       THEN /\ allocated_regions' = AddRegion(new, allocated_regions)
            /\ UNCHANGED fault
       ELSE /\ fault' = TRUE
            /\ UNCHANGED allocated_regions

\* One turn at a region that stays too small.
KmallocNext ==
    LET i == call.pos IN
    /\ call # Idle
    /\ i <= Len(free_regions)
    /\ ~Fits(Merged(i)[i], call.size)
    /\ free_regions' = Merged(i)
    /\ dirty' = IF Merges(i) THEN Cleared(dirty, free_regions[i + 1]) ELSE dirty
    /\ call' = [call EXCEPT !.pos = @ + 1, !.merged = @ \/ Merges(i)]
    /\ UNCHANGED <<allocated_regions, fault>>

\* The list is exhausted: kmalloc returns NULL.
KmallocFails ==
    /\ call # Idle
    /\ call.pos > Len(free_regions)
    /\ call' = Idle
    /\ UNCHANGED <<free_regions, allocated_regions, dirty, fault>>

\* kfree of allocated region i; any other pointer is ignored.
Kfree(i) ==
    LET r == allocated_regions[i] IN
    /\ call = Idle
    /\ allocated_regions' = RemoveAt(allocated_regions, i)
    /\ free_regions' = AddRegion(r, free_regions)
    /\ dirty' = Cleared(dirty, r)
    /\ UNCHANGED <<call, fault>>

\* The owner of a block fills it with something.
Write(i) ==
    /\ call = Idle
    /\ dirty' = dirty \cup Bytes(allocated_regions[i])
    /\ UNCHANGED <<free_regions, allocated_regions, call, fault>>

\* MUTANT of Init: the storage is believed to be one byte longer.
InitTooLong ==
    /\ free_regions = <<Region(1, StorageBytes + 1)>>
    /\ allocated_regions = <<>>
    /\ dirty = {}
    /\ call = Idle
    /\ fault = FALSE

\* init_mem
Init ==
    /\ free_regions = <<Region(1, StorageBytes)>>
    /\ allocated_regions = <<>>
    /\ dirty = {}
    /\ call = Idle
    /\ fault = FALSE

Next ==
    \/ \E size \in Sizes : KmallocCall(size)
    \/ KmallocFits
    \/ KmallocNext
    \/ KmallocFails
    \/ \E i \in DOMAIN allocated_regions : Kfree(i) \/ Write(i)

Spec == Init /\ [][Next]_vars

-----------------------------------------------------------------------------
(* Properties.                                                             *)

Storage == 1 .. StorageBytes
Regions == [ptr : Nat, size : Nat]

TypeOK ==
    /\ free_regions \in Seq(Regions)
    /\ allocated_regions \in Seq(Regions)
    /\ dirty \subseteq Storage
    /\ call \in [size : Sizes \cup {0}, pos : Nat, merged : BOOLEAN]
    /\ fault \in BOOLEAN

\* Regions of a list are in order of address, within the storage, and do not overlap.
InOrder(list) ==
    /\ \A i \in DOMAIN list : list[i].size > 0 /\ Bytes(list[i]) \subseteq Storage
    /\ \A i, j \in DOMAIN list : i < j => list[i].ptr + list[i].size <= list[j].ptr

\* Splitting, merging and freeing neither lose nor share memory: the free and the
\* allocated regions, in order of address, partition the storage.
Partition ==
    /\ InOrder(free_regions) /\ InOrder(allocated_regions)
    /\ \A i \in DOMAIN free_regions, j \in DOMAIN allocated_regions :
          Bytes(free_regions[i]) \cap Bytes(allocated_regions[j]) = {}
    /\ ~fault => \A a \in Storage :
          \/ \E i \in DOMAIN free_regions : a \in Bytes(free_regions[i])
          \/ \E j \in DOMAIN allocated_regions : a \in Bytes(allocated_regions[j])

\* Whatever the owners wrote, what kmalloc deals out is zeroed (mem.c:197 "clears out the
\* storage memory so that allocated memory is always clean").
FreeIsClean == \A i \in DOMAIN free_regions : Bytes(free_regions[i]) \cap dirty = {}

\* kmalloc ends with a block or with NULL (mem.c:41), never in a page fault: as long as
\* callers hold no more than MaxLive blocks the pile of region records does not run out.
RecordsSuffice == ~fault

FreeBytes == UNION {Bytes(free_regions[i]) : i \in DOMAIN free_regions}

\* kmalloc returns NULL only if no region on the free list is large enough, and, unless
\* this call has merged regions, only if no stretch of free memory is.
FailsHonestly ==
    [][KmallocFails =>
         /\ \A i \in DOMAIN free_regions : free_regions[i].size < call.size
         /\ ~call.merged =>
              \A a \in 1 .. StorageBytes - call.size + 1 :
                 ~(Bytes(Region(a, call.size)) \subseteq FreeBytes)]_vars

\* What the loop of kmalloc knows at its place in the free list: every region it has
\* passed is too small and, unless it has merged some, does not adjoin the next one.
CallOK ==
    call # Idle =>
       /\ call.size \in Sizes /\ call.pos > 0
       /\ \A i \in DOMAIN free_regions : i < call.pos => free_regions[i].size < call.size
       /\ ~call.merged =>
            \A i \in DOMAIN free_regions : i < call.pos => ~Merges(i)

\* The inductive invariant of the proofs.
KmallocInv == TypeOK /\ Partition /\ FreeIsClean /\ CallOK

Abstract == INSTANCE Heap WITH
    blocks <- {allocated_regions[i] : i \in DOMAIN allocated_regions}

\* kmalloc and kfree implement the heap that the rest of the kernel relies on.
ImplementsHeap == Abstract!Spec
=============================================================================
