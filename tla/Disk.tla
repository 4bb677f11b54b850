-------------------------------- MODULE Disk --------------------------------
(***************************************************************************)
(* What fdc_disk_read and fdc_disk_write of fdc.c promise their caller: a  *)
(* call moves a prefix of the disk into memory, or of memory onto the      *)
(* disk, cylinder by cylinder from the beginning, touches nothing outside  *)
(* the cylinder it is at, and reports 0 only when all of it has arrived.   *)
(* The motor, seeks, retries, DMA buffer and interrupts of Fdc are left    *)
(* out.                                                                    *)
(***************************************************************************)
EXTENDS Integers

CONSTANTS
    FDC_MAX_SIZE,       \* bytes on a disk
    FDC_BUFFER_SIZE     \* bytes in a cylinder

VARIABLES
    disk,       \* the medium
    buffer,     \* the caller's memory
    dir,        \* direction of the call under way, "none" between calls
    bytes,      \* the length it was asked for
    pos,        \* bytes moved so far
    ret         \* what the last call returned

diskVars == <<disk, buffer, dir, bytes, pos, ret>>

Addr == 0 .. FDC_MAX_SIZE - 1

\* The cylinder the call is at, and the bytes of it that were asked for.
Cylinder == {a \in Addr : a >= pos /\ a < pos + FDC_BUFFER_SIZE}
Moving   == {a \in Cylinder : a < bytes}

NextPos == IF pos + FDC_BUFFER_SIZE < bytes THEN pos + FDC_BUFFER_SIZE ELSE bytes

Refuse ==
    /\ dir = "none"
    /\ ret' = -1
    /\ UNCHANGED <<disk, buffer, dir, bytes, pos>>

Call(d, n) ==
    /\ dir = "none"
    /\ dir' = d /\ bytes' = n /\ pos' = 0
    /\ UNCHANGED <<disk, buffer, ret>>

\* A cylinder's worth arrives in memory, and nothing else in memory changes.
ReadCylinder ==
    /\ dir = "read" /\ pos < bytes
    /\ buffer' = [a \in Addr |-> IF a \in Moving THEN disk[a] ELSE buffer[a]]
    /\ pos' = NextPos
    /\ UNCHANGED <<disk, dir, bytes, ret>>

\* An attempt to write, complete or not, leaves the rest of the disk alone.
WriteAttempt ==
    /\ dir = "write" /\ pos < bytes
    /\ DOMAIN disk' = Addr
    /\ \A a \in Addr \ Cylinder : disk'[a] = disk[a]
    /\ UNCHANGED <<buffer, dir, bytes, pos, ret>>

\* The driver goes on only when the bytes asked for are on the disk.
WriteCylinder ==
    /\ dir = "write" /\ pos < bytes
    /\ \A a \in Moving : disk[a] = buffer[a]
    /\ pos' = NextPos
    /\ UNCHANGED <<disk, buffer, dir, bytes, ret>>

Return(r) ==
    /\ dir # "none"
    /\ r = 0 => pos = bytes
    /\ dir' = "none" /\ ret' = r
    /\ UNCHANGED <<disk, buffer, bytes, pos>>

DiskInit ==
    /\ DOMAIN disk = Addr /\ DOMAIN buffer = Addr
    /\ dir = "none" /\ bytes = 0 /\ pos = 0 /\ ret = 0

DiskNext ==
    \/ Refuse
    \/ \E d \in {"read", "write"}, n \in 0 .. FDC_MAX_SIZE : Call(d, n)
    \/ ReadCylinder \/ WriteAttempt \/ WriteCylinder
    \/ \E r \in {0, -2} : Return(r)

DiskSpec == DiskInit /\ [][DiskNext]_diskVars
=============================================================================
