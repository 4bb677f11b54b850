-------------------------------- MODULE Fdc --------------------------------
(***************************************************************************)
(* The floppy driver, fdc.c, against the controller: fdc_init and the      *)
(* calls of fdc_disk_read and fdc_disk_write run as one sequence of        *)
(* commands, each issued, waited for in fdc_irq_wait and asked for its     *)
(* result.  The flag that the interrupt handler sets does not say which    *)
(* command it is for, and nothing clears it before a command is issued.    *)
(***************************************************************************)
EXTENDS Integers

CONSTANTS
    FDC_MAX_SIZE,       \* bytes on a disk
    FDC_BUFFER_SIZE,    \* bytes in a cylinder, and in fdc_dmabuffer
    Sizes,              \* lengths that callers ask for
    MaxErrors,          \* bound on the commands that fail
    MaxStrays           \* bound on interrupts nobody asked for

ASSUME FdcConstants ==
    /\ FDC_BUFFER_SIZE \in Nat \ {0}
    /\ FDC_MAX_SIZE \in Nat \ {0} /\ FDC_MAX_SIZE % FDC_BUFFER_SIZE = 0
    /\ Sizes \subseteq Nat
    /\ MaxErrors \in Nat /\ MaxStrays \in Nat

VARIABLES
    fdc_drive,      \* -1 until fdc_init
    motor_state,    \* the driver's idea of the motor: TRUE for MOTOR_ON
    fdc_interrupt_occurred,
    enabled,        \* the processor takes interrupts
    pc,             \* the function the driver is in
    step,           \* "issue" a command, "wait" for its interrupt, read its "status"
    dir, bytes, cylinder, pos, ret,     \* fdc_disk_read or fdc_disk_write
    fdc_dmabuffer,
    buffer,         \* the caller's memory
    motor,          \* hardware: the motor bits of the DOR
    chip,           \* hardware: the command under way and its outcome
    at,             \* hardware: the cylinder the heads are at
    irq,            \* hardware: an interrupt is pending
    disk,           \* hardware: the medium
    protected,      \* hardware: it is write protected
    errors, strays  \* failed commands and stray interrupts so far

callVars  == <<dir, bytes, cylinder, pos, ret>>
faultVars == <<errors, strays, protected>>
vars == <<fdc_drive, motor_state, fdc_interrupt_occurred, enabled, pc, step, callVars,
          fdc_dmabuffer, buffer, motor, chip, at, irq, disk, faultVars>>

Addr      == 0 .. FDC_MAX_SIZE - 1
Offsets   == 0 .. FDC_BUFFER_SIZE - 1
Cylinders == 0 .. FDC_MAX_SIZE \div FDC_BUFFER_SIZE - 1

\* Every byte is told from every other by where it was first.
Byte == {"disk", "ram", "dma"} \X Nat

Idle == [cmd |-> "none", cyl |-> 0, phase |-> "idle", ic |-> 0, nw |-> FALSE]
Command(cmd, cyl) == [cmd |-> cmd, cyl |-> cyl, phase |-> "exec", ic |-> 0, nw |-> FALSE]

\* fdc_write_cmd spins until MSR says that the controller takes a byte: not in a
\* reset, nor in a transfer or while its result has not been read.
Ready == \/ chip.cmd \in {"none", "calibrate", "seek"}
         \/ chip.cmd = "reset" /\ chip.phase = "done"

\* MUTANT of MotorOn: the DOR is taken to be as the driver left it.
MotorOnAssumed ==
    /\ motor_state' = TRUE
    /\ motor' = motor

\* fdc_motor(MOTOR_ON) writes the DOR only when motor_state is MOTOR_OFF.
MotorOn ==
    /\ motor_state' = TRUE
    /\ motor' = (motor \/ ~motor_state)

MotorOff ==
    /\ motor_state' = FALSE
    /\ motor' = FALSE

\* Reading the status lowers the line; an interrupt already latched may stay so.
Acknowledge == irq' \in {irq, FALSE}

-----------------------------------------------------------------------------
(* fdc_init, fdc_reset and fdc_calibrate                                   *)

\* Called at boot, once; it resets the controller, the motor bits included.  A drive
\* number above 1 is refused and nothing changes.
FdcInit(drive) ==
    /\ pc = "idle" /\ fdc_drive = -1
    /\ drive <= 1
    /\ fdc_drive' = drive
    /\ motor' = FALSE
    /\ chip' = Command("reset", 0)
    /\ pc' = "reset" /\ step' = "wait" /\ enabled' = TRUE
    /\ UNCHANGED <<motor_state, fdc_interrupt_occurred, callVars, fdc_dmabuffer, buffer, at, irq,
                   disk, faultVars>>

\* MUTANT of IrqWait: the flag is left for the next command.
IrqWaitKeeps ==
    /\ step = "wait" /\ fdc_interrupt_occurred
    /\ enabled' = FALSE
    /\ step' = "status"
    /\ UNCHANGED <<fdc_drive, fdc_interrupt_occurred, motor_state, pc, callVars, fdc_dmabuffer,
                   buffer, motor, chip, at, irq, disk, faultVars>>

\* fdc_irq_wait returns
IrqWait ==
    /\ step = "wait" /\ fdc_interrupt_occurred
    /\ fdc_interrupt_occurred' = FALSE
    /\ enabled' = FALSE
    /\ step' = "status"
    /\ UNCHANGED <<fdc_drive, motor_state, pc, callVars, fdc_dmabuffer, buffer, motor, chip,
                   at, irq, disk, faultVars>>

\* The status after a reset is read and ignored; calibration follows.
ResetDone ==
    /\ pc = "reset" /\ step = "status" /\ Ready
    /\ chip' = Idle /\ Acknowledge
    /\ MotorOn
    /\ pc' = "calibrate" /\ step' = "issue"
    /\ UNCHANGED <<fdc_drive, fdc_interrupt_occurred, enabled, callVars, fdc_dmabuffer, buffer,
                   at, disk, faultVars>>

\* Where a calibration or a seek is to end.
Target == IF pc = "calibrate" THEN 0 ELSE cylinder

\* The command bytes of fdc_calibrate and fdc_seek, then sti() in fdc_irq_wait.
IssuePositioning ==
    /\ pc \in {"calibrate", "seek0", "seek1"} /\ step = "issue" /\ Ready
    /\ chip' = Command(IF pc = "calibrate" THEN "calibrate" ELSE "seek", Target)
    /\ enabled' = TRUE /\ step' = "wait"
    /\ UNCHANGED <<fdc_drive, motor_state, fdc_interrupt_occurred, pc, callVars, fdc_dmabuffer,
                   buffer, motor, at, irq, disk, faultVars>>

\* fdc_awk: the outcome of a finished command; "invalid command" before that.
Sensed == IF chip.phase = "done" THEN chip.ic ELSE 2

\* MUTANT of InPlace: the cylinder that the controller reports is not compared.
InPlaceUnchecked == Sensed = 0

InPlace == Sensed = 0 /\ at = Target

\* fdc_calibrate and fdc_seek after fdc_awk: again, or the motor off and on to the
\* second head, the transfer, or the end of fdc_init.
SensePositioning ==
    /\ pc \in {"calibrate", "seek0", "seek1"} /\ step = "status" /\ Ready
    /\ chip' = IF chip.phase = "done" THEN Idle ELSE chip
    /\ Acknowledge
    /\ IF ~InPlace
       THEN step' = "issue" /\ UNCHANGED <<motor_state, motor, pc>>
       ELSE \/ /\ pc = "calibrate"
               /\ pc' = "idle" /\ step' = step
               /\ MotorOff
            \/ /\ pc = "seek0"          \* fdc_seek(cylinder, 1) turns it on again
               /\ pc' = "seek1" /\ step' = "issue"
               /\ motor_state' = TRUE /\ motor' = TRUE
            \/ /\ pc = "seek1"
               /\ pc' = "transfer" /\ step' = "issue"
               /\ MotorOff
    /\ UNCHANGED <<fdc_drive, fdc_interrupt_occurred, enabled, callVars, fdc_dmabuffer, buffer,
                   at, disk, faultVars>>

-----------------------------------------------------------------------------
(* fdc_disk_read, fdc_disk_write and fdc_do_track                          *)

Remaining == bytes - pos

\* MUTANT of CopyThisIter: always a whole cylinder.
CopyWhole == FDC_BUFFER_SIZE

CopyThisIter == IF Remaining < FDC_BUFFER_SIZE THEN Remaining ELSE FDC_BUFFER_SIZE

\* The call, up to its loop
DiskCall(d, n) ==
    /\ pc = "idle"
    /\ IF fdc_drive < 0 \/ n > FDC_MAX_SIZE
       THEN ret' = -1 /\ UNCHANGED <<pc, dir, bytes, cylinder, pos>>
       ELSE /\ pc' = "loop"
            /\ dir' = d /\ bytes' = n /\ cylinder' = 0 /\ pos' = 0
            /\ UNCHANGED ret
    /\ UNCHANGED <<fdc_drive, motor_state, fdc_interrupt_occurred, enabled, step, fdc_dmabuffer,
                   buffer, motor, chip, at, irq, disk, faultVars>>

\* The head of the loop: return, or copy a cylinder's worth for a write and begin
\* fdc_do_track with the motor on for the first seek.
DiskLoop ==
    /\ pc = "loop"
    /\ IF Remaining > 0
       THEN /\ fdc_dmabuffer' = IF dir = "read" THEN fdc_dmabuffer
                                ELSE [i \in Offsets |-> IF i < CopyThisIter THEN buffer[pos + i]
                                                        ELSE fdc_dmabuffer[i]]
            /\ pc' = "seek0" /\ step' = "issue"
            /\ MotorOn
            /\ UNCHANGED <<dir, ret>>
       ELSE /\ pc' = "idle" /\ dir' = "none" /\ ret' = 0
            /\ UNCHANGED <<step, fdc_dmabuffer, motor_state, motor>>
    /\ UNCHANGED <<fdc_drive, fdc_interrupt_occurred, enabled, bytes, cylinder, pos, buffer,
                   chip, at, irq, disk, faultVars>>

\* fdc_do_track: motor, DMA and the nine command bytes
IssueTransfer ==
    /\ pc = "transfer" /\ step = "issue" /\ Ready
    /\ MotorOn
    /\ chip' = Command(dir, cylinder)
    /\ enabled' = TRUE /\ step' = "wait"
    /\ UNCHANGED <<fdc_drive, fdc_interrupt_occurred, pc, callVars, fdc_dmabuffer, buffer, at,
                   irq, disk, faultVars>>

\* MUTANT of CheckError: a failed transfer is taken for a good one.
CheckErrorIgnored == IF chip.nw THEN 2 ELSE 0

\* fdc_check_error: 1 for what is tried again, looked at first; 2 for a protected disk
CheckError == IF chip.ic # 0 THEN 1 ELSE IF chip.nw THEN 2 ELSE 0

\* The result bytes are there when the transfer is over.
TransferDone ==
    /\ pc = "transfer" /\ step = "status" /\ chip.phase = "done"
    /\ chip' = Idle /\ Acknowledge
    /\ \/ /\ CheckError = 0
          /\ MotorOff
          /\ buffer' = IF dir = "write" THEN buffer
                       ELSE [a \in Addr |-> IF a >= pos /\ a < pos + CopyThisIter
                                            THEN fdc_dmabuffer[a - pos] ELSE buffer[a]]
          /\ pos' = pos + CopyThisIter /\ cylinder' = cylinder + 1
          /\ pc' = "loop" /\ step' = step
          /\ UNCHANGED <<dir, ret>>
       \/ /\ CheckError = 1
          /\ step' = "issue"
          /\ UNCHANGED <<motor_state, motor, buffer, pos, cylinder, pc, dir, ret>>
       \/ /\ CheckError = 2             \* "fatal sector error": the motor stays on
          /\ pc' = "idle" /\ dir' = "none" /\ ret' = -2 /\ step' = step
          /\ UNCHANGED <<motor_state, motor, buffer, pos, cylinder>>
    /\ UNCHANGED <<fdc_drive, fdc_interrupt_occurred, enabled, bytes, fdc_dmabuffer, at, disk,
                   faultVars>>

-----------------------------------------------------------------------------
(* The interrupt and the controller                                        *)

\* fdc_handler
FdcHandler ==
    /\ irq /\ enabled
    /\ irq' = FALSE
    /\ fdc_interrupt_occurred' = TRUE
    /\ UNCHANGED <<fdc_drive, motor_state, enabled, pc, step, callVars, fdc_dmabuffer, buffer,
                   motor, chip, at, disk, faultVars>>

\* The cylinder c of the disk once the first k bytes of the buffer have been written to it.
Written(c, k) ==
    [a \in Addr |-> IF a >= c * FDC_BUFFER_SIZE /\ a < c * FDC_BUFFER_SIZE + k
                    THEN fdc_dmabuffer[a - c * FDC_BUFFER_SIZE] ELSE disk[a]]

\* The buffer once the first k bytes of the cylinder c have been read into it.
Filled(c, k) ==
    [i \in Offsets |-> IF i < k THEN disk[c * FDC_BUFFER_SIZE + i] ELSE fdc_dmabuffer[i]]

\* The command is carried out.  A transfer needs the heads to be where it says.
ChipDone ==
    /\ chip.phase = "exec"
    /\ chip.cmd \in {"read", "write"} => at = chip.cyl
    /\ chip.cmd = "write" => ~protected
    /\ chip' = [chip EXCEPT !.phase = "done"]
    /\ irq' = TRUE
    /\ at' = IF chip.cmd \in {"calibrate", "seek"} THEN chip.cyl ELSE at
    /\ fdc_dmabuffer' = IF chip.cmd = "read" THEN Filled(chip.cyl, FDC_BUFFER_SIZE) ELSE fdc_dmabuffer
    /\ disk' = IF chip.cmd = "write" THEN Written(chip.cyl, FDC_BUFFER_SIZE) ELSE disk
    /\ UNCHANGED <<fdc_drive, motor_state, fdc_interrupt_occurred, enabled, pc, step, callVars,
                   buffer, motor, faultVars>>

\* The command fails: the heads stop anywhere, or a transfer breaks off.
ChipFails ==
    /\ chip.phase = "exec" /\ chip.cmd # "reset" /\ errors < MaxErrors
    /\ errors' = errors + 1
    /\ irq' = TRUE
    /\ \E ic \in {0, 1} :
         /\ chip' = [chip EXCEPT !.phase = "done", !.ic = ic]
         /\ ic = 0 => chip.cmd \in {"calibrate", "seek"}
    /\ IF chip.cmd \in {"calibrate", "seek"}
       THEN at' \in Cylinders /\ UNCHANGED <<fdc_dmabuffer, disk>>
       ELSE \E k \in 0 .. FDC_BUFFER_SIZE - 1 :
              /\ fdc_dmabuffer' = IF chip.cmd = "read" THEN Filled(chip.cyl, k) ELSE fdc_dmabuffer
              /\ disk' = IF chip.cmd = "write" /\ ~protected THEN Written(chip.cyl, k) ELSE disk
              /\ UNCHANGED at
    /\ UNCHANGED <<fdc_drive, motor_state, fdc_interrupt_occurred, enabled, pc, step, callVars,
                   buffer, motor, strays, protected>>

\* A write to a protected disk is refused.  Controllers end it abnormally (ST0 IC = 1) with
\* NW set; the test for NW in fdc_check_error expects one that leaves IC 0.
ChipRefuses ==
    /\ chip.phase = "exec" /\ chip.cmd = "write" /\ protected
    /\ \E ic \in {0, 1} : chip' = [chip EXCEPT !.phase = "done", !.ic = ic, !.nw = TRUE]
    /\ irq' = TRUE
    /\ UNCHANGED <<fdc_drive, motor_state, fdc_interrupt_occurred, enabled, pc, step, callVars,
                   fdc_dmabuffer, buffer, motor, at, disk, faultVars>>

\* An interrupt nobody waits for: one left over from the boot loader, or latched twice.
Stray ==
    /\ strays < MaxStrays
    /\ strays' = strays + 1
    /\ irq' = TRUE
    /\ UNCHANGED <<fdc_drive, motor_state, fdc_interrupt_occurred, enabled, pc, step, callVars,
                   fdc_dmabuffer, buffer, motor, chip, at, disk, errors, protected>>

-----------------------------------------------------------------------------
\* Boot: kernel.c calls sti() and then fdc_init(0) and fdc_disk_read.
Init ==
    /\ fdc_drive = -1 /\ motor_state = FALSE /\ fdc_interrupt_occurred = FALSE
    /\ enabled = TRUE
    /\ pc = "idle" /\ step = "issue"
    /\ dir = "none" /\ bytes = 0 /\ cylinder = 0 /\ pos = 0 /\ ret = 0
    /\ disk = [a \in Addr |-> <<"disk", a>>]
    /\ buffer = [a \in Addr |-> <<"ram", a>>]
    /\ fdc_dmabuffer = [i \in Offsets |-> <<"dma", i>>]
    /\ motor = FALSE /\ chip = Idle /\ at \in Cylinders /\ irq = FALSE
    /\ protected \in BOOLEAN
    /\ errors = 0 /\ strays = 0

Driver ==
    \/ IrqWait \/ ResetDone \/ IssuePositioning \/ SensePositioning
    \/ DiskLoop \/ IssueTransfer \/ TransferDone

Next ==
    \/ \E drive \in {0, 1} : FdcInit(drive)
    \/ \E d \in {"read", "write"}, n \in Sizes : DiskCall(d, n)
    \/ Driver \/ FdcHandler
    \/ ChipDone \/ ChipFails \/ ChipRefuses \/ Stray

Spec == Init /\ [][Next]_vars

\* The processor runs the driver and its handler; the controller ends what it begins.
FairSpec ==
    /\ Spec
    /\ WF_vars(Driver) /\ WF_vars(FdcHandler) /\ WF_vars(ChipDone \/ ChipRefuses)

-----------------------------------------------------------------------------
(* Properties.                                                             *)

TypeOK ==
    /\ fdc_drive \in {-1, 0, 1}
    /\ motor_state \in BOOLEAN /\ fdc_interrupt_occurred \in BOOLEAN /\ enabled \in BOOLEAN
    /\ pc \in {"idle", "reset", "calibrate", "loop", "seek0", "seek1", "transfer"}
    /\ step \in {"issue", "wait", "status"}
    /\ dir \in {"none", "read", "write"} /\ ret \in {0, -1, -2}
    /\ bytes \in 0 .. FDC_MAX_SIZE /\ pos \in 0 .. bytes /\ cylinder \in Nat
    /\ disk \in [Addr -> Byte] /\ buffer \in [Addr -> Byte]
    /\ fdc_dmabuffer \in [Offsets -> Byte]
    /\ motor \in BOOLEAN /\ irq \in BOOLEAN
    /\ chip \in [cmd : {"none", "reset", "calibrate", "seek", "read", "write"}, cyl : Cylinders,
                 phase : {"idle", "exec", "done"}, ic : {0, 1}, nw : BOOLEAN]
    /\ at \in Cylinders /\ protected \in BOOLEAN
    /\ errors \in 0 .. MaxErrors /\ strays \in 0 .. MaxStrays

\* Through every seek, retry, early interrupt and error the controller moves the heads
\* and transfers only while the motor turns, and outside a call the motor is off, unless
\* the disk was protected: fdc_do_track then returns without turning it off.
MotorFollows ==
    /\ chip.phase = "exec" /\ chip.cmd # "reset" => motor
    /\ pc = "idle" /\ motor => protected
    /\ motor_state = motor

\* The heads are over the cylinder of the call whenever a transfer is under way,
\* whatever interrupt ended the wait for the seeks.
TransferInPlace == chip.cmd \in {"read", "write"} => at = chip.cyl /\ chip.cyl = cylinder

\* fdc_disk_read and fdc_disk_write move what they were asked to move, whatever fails
\* on the way and whenever an interrupt comes that belongs to no command.
ImplementsDisk == INSTANCE Disk
DiskPromise == ImplementsDisk!DiskSpec

\* As long as no stray interrupt arrives every call but a write to a protected disk returns,
\* however often commands fail (a bounded number of times): the retry loops have no bound of
\* their own.
CallReturns ==
    [](strays = 0) => (pc # "idle" /\ ~(protected /\ dir = "write") ~> pc = "idle")

\* The same of every call: fdc_do_track gives up on a disk that cannot be written (fdc.c:454
\* "not writable", fdc.c:375 "fatal sector error").
EveryCallReturns == [](strays = 0) => (pc # "idle" ~> pc = "idle")

-----------------------------------------------------------------------------
(* The inductive strengthening of MotorFollows and TransferInPlace.        *)

\* What the steps need of the types.
FdcTypes ==
    /\ motor \in BOOLEAN /\ motor_state \in BOOLEAN /\ protected \in BOOLEAN
    /\ cylinder \in Nat /\ at \in Nat
    /\ pc \in {"idle", "reset", "calibrate", "loop", "seek0", "seek1", "transfer"}
    /\ step \in {"issue", "wait", "status"} /\ dir \in {"none", "read", "write"}
    /\ chip \in [cmd : {"none", "reset", "calibrate", "seek", "read", "write"}, cyl : Nat,
                 phase : {"idle", "exec", "done"}, ic : {0, 1}, nw : BOOLEAN]

\* Where the motor is known to turn, and where it is known to stand.
MotorAt ==
    /\ pc \in {"calibrate", "seek0", "seek1"} => motor
    /\ pc = "transfer" /\ step # "issue" => motor
    /\ fdc_drive = -1 => ~motor /\ pc = "idle"
    /\ pc = "reset" => ~motor
    /\ pc = "loop" /\ motor => protected

\* Which command the controller may be at where: before a transfer nothing is left of
\* the seeks, and a transfer runs only in fdc_do_track, with the heads in place.
ChipAt ==
    /\ pc \in {"idle", "loop"} \/ (pc = "transfer" /\ step = "issue") => chip = Idle
    /\ pc = "transfer" => at = cylinder /\ dir # "none"
    /\ pc \in {"loop", "seek0", "seek1"} => dir # "none"
    /\ pc = "transfer" /\ step # "issue" => chip.cmd \in {"read", "write"} /\ chip.cyl = cylinder
    /\ chip.cmd \in {"read", "write"} => pc = "transfer"
    /\ pc = "reset" => chip.cmd = "reset"
    /\ chip.nw => protected

FdcInv == FdcTypes /\ MotorFollows /\ TransferInPlace /\ MotorAt /\ ChipAt

-----------------------------------------------------------------------------
(* What the types and DiskPromise need besides.                            *)

AtCylinder == pc \in {"seek0", "seek1", "transfer"}

\* Where a call is: as long as bytes are left, at the beginning of its cylinder.
CallAt ==
    /\ dir = "none" <=> pc \in {"idle", "reset", "calibrate"}
    /\ dir # "none" /\ pos < bytes => pos = cylinder * FDC_BUFFER_SIZE
    /\ AtCylinder => pos < bytes
    /\ chip.cmd \in {"read", "write"} => chip.cmd = dir

\* Where the bytes are: what is to be written stays in the DMA buffer through seeks and
\* retries, and after a transfer that succeeded the buffer and the cylinder agree.
BytesAt ==
    /\ AtCylinder /\ dir = "write" =>
         \A i \in Offsets : i < CopyThisIter => fdc_dmabuffer[i] = buffer[pos + i]
    /\ chip.cmd \in {"read", "write"} /\ chip.phase = "done" /\ chip.ic = 0 /\ ~chip.nw =>
         \A i \in Offsets : disk[cylinder * FDC_BUFFER_SIZE + i] = fdc_dmabuffer[i]

DiskInv == FdcInv /\ TypeOK /\ CallAt /\ BytesAt
=============================================================================
