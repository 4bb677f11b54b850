-------------------------------- MODULE Heap --------------------------------
(***************************************************************************)
(* What kmalloc and kfree promise: blocks that lie in the storage, do not  *)
(* overlap and come zeroed.                                                *)
(***************************************************************************)
EXTENDS Integers

CONSTANT StorageBytes \* the storage is the addresses 1 .. StorageBytes
VARIABLES blocks,     \* the live blocks, as [ptr, size]
          dirty       \* addresses that do not hold zero

Storage  == 1 .. StorageBytes
Bytes(b) == b.ptr .. b.ptr + b.size - 1

\* kmalloc that succeeds
Malloc ==
    \E p \in Storage, s \in Storage :
       LET b == [ptr |-> p, size |-> s] IN
       /\ Bytes(b) \subseteq Storage \ dirty
       /\ \A c \in blocks : Bytes(b) \cap Bytes(c) = {}
       /\ blocks' = blocks \cup {b}
       /\ UNCHANGED dirty

\* The owner of a block fills it.
Write == \E b \in blocks : dirty' = dirty \cup Bytes(b) /\ UNCHANGED blocks

\* kfree of a live block
Free ==
    \E b \in blocks :
       /\ blocks' = blocks \ {b}
       /\ dirty' = dirty \ Bytes(b)

Init == blocks = {} /\ dirty = {}
Next == Malloc \/ Write \/ Free
Spec == Init /\ [][Next]_<<blocks, dirty>>
=============================================================================
