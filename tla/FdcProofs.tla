----------------------------- MODULE FdcProofs -----------------------------
(***************************************************************************)
(* The floppy driver moves the heads and transfers only with the motor on  *)
(* and the heads in place, for a disk of any size and any number of failed *)
(* commands and stray interrupts.  FdcInv ties the place the driver is at  *)
(* to what the controller can be doing there; with where the bytes are     *)
(* meanwhile (CallAt, BytesAt) the driver implements the disk of module    *)
(* Disk.                                                                   *)
(***************************************************************************)
EXTENDS Fdc, TLAPS

ChipStates ==
    [cmd : {"none", "reset", "calibrate", "seek", "read", "write"}, cyl : Nat,
     phase : {"idle", "exec", "done"}, ic : {0, 1}, nw : BOOLEAN]

\* An idle controller is at no command, and has refused nothing.
LEMMA IdleFacts ==
  Idle \in ChipStates /\ Idle.cmd = "none" /\ Idle.phase = "idle" /\ ~Idle.nw
BY DEF Idle, ChipStates

\* A command just issued is under way.
LEMMA CommandFacts ==
  ASSUME NEW cmd \in {"reset", "calibrate", "seek", "read", "write"}, NEW cyl \in Nat
  PROVE  /\ Command(cmd, cyl) \in ChipStates
         /\ Command(cmd, cyl).cmd = cmd /\ Command(cmd, cyl).cyl = cyl
         /\ Command(cmd, cyl).phase = "exec" /\ ~Command(cmd, cyl).nw
BY DEF Command, ChipStates

\* fdc_motor(MOTOR_ON) turns the motor on, since motor_state says what the motor does.
LEMMA MotorOnFacts ==
  ASSUME FdcInv, MotorOn PROVE motor' = TRUE /\ motor_state' = TRUE
<1>1. motor \in BOOLEAN /\ motor_state = motor
  BY DEF FdcInv, FdcTypes, ChipStates, MotorFollows
<1>2. CASE motor = TRUE
  BY <1>1, <1>2 DEF MotorOn
<1>3. CASE motor = FALSE
  BY <1>1, <1>3 DEF MotorOn
<1> QED BY <1>1, <1>2, <1>3

\* At boot nothing turns and nothing is under way.
LEMMA FdcInitInv == ASSUME Init PROVE FdcInv
<1>1. at \in Nat
  BY FdcConstants DEF Init, Cylinders
<1> QED BY <1>1, IdleFacts
        DEF Init, FdcInv, FdcTypes, ChipStates, MotorFollows, TransferInPlace, MotorAt, ChipAt

\* fdc_init resets the controller with the motor off.
LEMMA FdcInitStep == ASSUME FdcInv, NEW drive \in {0, 1}, FdcInit(drive) PROVE FdcInv'
<1>1. motor_state' = FALSE /\ motor' = FALSE
  BY DEF FdcInit, FdcInv, FdcTypes, ChipStates, MotorFollows, MotorAt
<1>2. /\ chip' \in ChipStates
      /\ chip'.cmd = "reset" /\ ~chip'.nw
  BY CommandFacts DEF FdcInit
<1>3. pc' = "reset" /\ step' = "wait" /\ fdc_drive' # -1
      /\ UNCHANGED <<protected, cylinder, at, dir>>
  BY DEF FdcInit, callVars, faultVars
<1> QED BY <1>1, <1>2, <1>3
  DEF FdcInv, FdcTypes, ChipStates, MotorFollows, TransferInPlace, MotorAt, ChipAt

\* The call, and the head of its loop.
LEMMA DiskCallStep ==
  ASSUME FdcInv, NEW d \in {"read", "write"}, NEW n, DiskCall(d, n) PROVE FdcInv'
BY IdleFacts
DEF DiskCall, faultVars, FdcInv, FdcTypes, ChipStates, MotorFollows, TransferInPlace, MotorAt, ChipAt

LEMMA DiskLoopStep == ASSUME FdcInv, DiskLoop PROVE FdcInv'
<1>1. /\ pc = "loop" /\ chip = Idle /\ chip' = chip
      /\ UNCHANGED <<protected, cylinder, at, fdc_drive>>
  BY DEF DiskLoop, faultVars, FdcInv, ChipAt
<1>2. CASE Remaining > 0
  <2>1. pc' = "seek0" /\ step' = "issue" /\ dir' = dir /\ motor' = TRUE /\ motor_state' = TRUE
    BY <1>2, MotorOnFacts DEF DiskLoop
  <2> QED BY <1>1, <2>1, IdleFacts
          DEF FdcInv, FdcTypes, ChipStates, MotorFollows, TransferInPlace, MotorAt, ChipAt
<1>3. CASE ~(Remaining > 0)
  <2>1. pc' = "idle" /\ dir' = "none" /\ UNCHANGED <<step, motor, motor_state>>
    BY <1>3 DEF DiskLoop
  <2> QED BY <1>1, <2>1, IdleFacts
          DEF FdcInv, FdcTypes, ChipStates, MotorFollows, TransferInPlace, MotorAt, ChipAt
<1> QED BY <1>2, <1>3

\* The end of a wait, whichever interrupt ended it.
LEMMA IrqWaitStep == ASSUME FdcInv, IrqWait PROVE FdcInv'
BY DEF IrqWait, callVars, faultVars, FdcInv, FdcTypes, ChipStates, MotorFollows, TransferInPlace, MotorAt, ChipAt

LEMMA ResetDoneStep == ASSUME FdcInv, ResetDone PROVE FdcInv'
BY IdleFacts
DEF ResetDone, MotorOn, callVars, faultVars, FdcInv, FdcTypes, ChipStates, MotorFollows, TransferInPlace,
    MotorAt, ChipAt

LEMMA IssuePositioningStep == ASSUME FdcInv, IssuePositioning PROVE FdcInv'
BY CommandFacts
DEF IssuePositioning, Target, callVars, faultVars, FdcInv, FdcTypes, ChipStates, MotorFollows,
    TransferInPlace, MotorAt, ChipAt

\* The motor is turned off only when the controller has reported the end of its command.
LEMMA SensePositioningStep == ASSUME FdcInv, SensePositioning PROVE FdcInv'
<1>1. CASE ~InPlace
  BY <1>1, IdleFacts
  DEF SensePositioning, callVars, faultVars, FdcInv, FdcTypes, ChipStates, MotorFollows, TransferInPlace,
      MotorAt, ChipAt
<1>2. CASE InPlace
  <2>1. chip' = Idle /\ at = Target
    BY <1>2 DEF InPlace, Sensed, SensePositioning
  <2>2. UNCHANGED <<protected, cylinder, at, fdc_drive, dir>>
    BY DEF SensePositioning, callVars, faultVars
  <2>3. \/ pc = "calibrate" /\ pc' = "idle" /\ step' = step /\ motor' = FALSE /\ motor_state' = FALSE
        \/ pc = "seek0" /\ pc' = "seek1" /\ step' = "issue" /\ motor' = TRUE /\ motor_state' = TRUE
        \/ pc = "seek1" /\ pc' = "transfer" /\ step' = "issue" /\ motor' = FALSE /\ motor_state' = FALSE
    BY <1>2 DEF SensePositioning, MotorOff
  <2>4. pc = "seek1" => at = cylinder
    BY <2>1 DEF Target
  <2>5. CASE pc = "calibrate"
    <3>1. pc' = "idle" /\ step' = step /\ motor' = FALSE /\ motor_state' = FALSE
      BY <2>3, <2>5
    <3>2. FdcTypes' /\ TransferInPlace' /\ ChipAt'
      BY <2>1, <2>2, <3>1, IdleFacts DEF FdcInv, FdcTypes, ChipStates, TransferInPlace, ChipAt
    <3>3. MotorFollows' /\ MotorAt'
      BY <2>1, <2>2, <3>1, IdleFacts DEF MotorFollows, MotorAt
    <3> QED BY <3>2, <3>3 DEF FdcInv
  <2>6. CASE pc = "seek0"
    <3>1. pc' = "seek1" /\ step' = "issue" /\ motor' = TRUE /\ motor_state' = TRUE
      BY <2>3, <2>6
    <3>2. FdcTypes' /\ TransferInPlace'
      BY <2>1, <2>2, <3>1, IdleFacts DEF FdcInv, FdcTypes, ChipStates, TransferInPlace
    <3>3. ChipAt'
      BY <2>1, <2>2, <2>6, <3>1, IdleFacts DEF FdcInv, FdcTypes, ChipAt
    <3>4. MotorFollows' /\ MotorAt'
      BY <2>1, <2>2, <2>6, <3>1, IdleFacts DEF FdcInv, MotorFollows, MotorAt
    <3> QED BY <3>2, <3>3, <3>4 DEF FdcInv
  <2>7. CASE pc = "seek1"
    <3>1. pc' = "transfer" /\ step' = "issue" /\ motor' = FALSE /\ motor_state' = FALSE
      BY <2>3, <2>7
    <3>2. FdcTypes' /\ TransferInPlace'
      BY <2>1, <2>2, <3>1, IdleFacts DEF FdcInv, FdcTypes, ChipStates, TransferInPlace
    <3>3. ChipAt'
      BY <2>1, <2>2, <2>7, <3>1, <2>4, IdleFacts DEF FdcInv, FdcTypes, ChipAt
    <3>4. MotorFollows' /\ MotorAt'
      BY <2>1, <2>2, <2>7, <3>1, IdleFacts DEF FdcInv, MotorFollows, MotorAt
    <3> QED BY <3>2, <3>3, <3>4 DEF FdcInv
  <2> QED BY <2>3, <2>5, <2>6, <2>7
<1> QED BY <1>1, <1>2

LEMMA IssueTransferStep == ASSUME FdcInv, IssueTransfer PROVE FdcInv'
<1>1. dir \in {"read", "write"} /\ cylinder \in Nat /\ at = cylinder
  BY DEF IssueTransfer, FdcInv, FdcTypes, ChipStates, ChipAt
<1>2. /\ chip' \in ChipStates
      /\ chip'.cmd \in {"read", "write"} /\ chip'.cyl = cylinder /\ ~chip'.nw
  BY <1>1, CommandFacts DEF IssueTransfer
<1> QED BY <1>1, <1>2
        DEF IssueTransfer, MotorOn, callVars, faultVars, FdcInv, FdcTypes, ChipStates, MotorFollows,
            TransferInPlace, MotorAt, ChipAt

\* Only a protected disk makes fdc_do_track return with the motor on.
LEMMA TransferDoneStep == ASSUME FdcInv, TransferDone PROVE FdcInv'
<1>1. CheckError = 2 => protected
  BY DEF CheckError, FdcInv, ChipAt
<1>2. /\ pc = "transfer" /\ chip' = Idle /\ motor \in BOOLEAN /\ motor_state = motor
      /\ UNCHANGED <<protected, at, fdc_drive>>
  BY DEF TransferDone, faultVars, FdcInv, FdcTypes, ChipStates, MotorFollows
<1>3. CASE CheckError = 0
  <2>1. /\ pc' = "loop" /\ step' = step /\ dir' = dir /\ cylinder' = cylinder + 1
        /\ motor' = FALSE /\ motor_state' = FALSE
    BY <1>3 DEF TransferDone, MotorOff
  <2>2. cylinder' \in Nat
    BY <2>1 DEF FdcInv, FdcTypes, ChipStates
  <2> QED BY <1>2, <2>1, <2>2, IdleFacts
          DEF FdcInv, FdcTypes, ChipStates, MotorFollows, TransferInPlace, MotorAt, ChipAt
<1>4. CASE CheckError = 1
  <2>1. step' = "issue" /\ UNCHANGED <<pc, dir, cylinder, motor, motor_state>>
    BY <1>4 DEF TransferDone
  <2> QED BY <1>2, <2>1, IdleFacts
          DEF FdcInv, FdcTypes, ChipStates, MotorFollows, TransferInPlace, MotorAt, ChipAt
<1>5. CASE CheckError = 2
  <2>1. pc' = "idle" /\ dir' = "none" /\ UNCHANGED <<step, cylinder, motor, motor_state>>
    BY <1>5 DEF TransferDone
  <2> QED BY <1>1, <1>2, <1>5, <2>1, IdleFacts
          DEF FdcInv, FdcTypes, ChipStates, MotorFollows, TransferInPlace, MotorAt, ChipAt
<1> QED BY <1>3, <1>4, <1>5 DEF TransferDone

\* The controller ends a command, well or badly, and stops the heads where it may.
LEMMA ChipStep == ASSUME FdcInv, ChipDone \/ ChipFails \/ ChipRefuses PROVE FdcInv'
<1>1. /\ chip.phase = "exec" /\ chip'.phase = "done" /\ chip'.cmd = chip.cmd
      /\ chip'.cyl = chip.cyl
      /\ chip' \in ChipStates
      /\ chip'.nw => chip.nw \/ protected
  BY DEF ChipDone, ChipFails, ChipRefuses, FdcInv, FdcTypes, ChipStates
<1>2. UNCHANGED <<motor, motor_state, protected, cylinder, pc, step, dir, fdc_drive>>
  BY DEF ChipDone, ChipFails, ChipRefuses, callVars, faultVars
<1>3. at' \in Nat /\ (chip.cmd \notin {"calibrate", "seek"} => at' = at)
  BY FdcConstants DEF ChipDone, ChipFails, ChipRefuses, Cylinders, FdcInv, FdcTypes, ChipStates
<1>4. chip # Idle
  BY <1>1, IdleFacts
<1> QED BY <1>1, <1>2, <1>3, <1>4
        DEF FdcInv, FdcTypes, ChipStates, MotorFollows, TransferInPlace, MotorAt, ChipAt

\* Interrupts, asked for or not, change nothing of this.
LEMMA InterruptStep ==
  ASSUME FdcInv, FdcHandler \/ Stray \/ UNCHANGED vars PROVE FdcInv'
<1>1. UNCHANGED <<motor, motor_state, protected, cylinder, pc, step, dir, fdc_drive, at, chip>>
  BY DEF FdcHandler, Stray, vars, callVars, faultVars
<1> QED BY <1>1 DEF FdcInv, FdcTypes, ChipStates, MotorFollows, TransferInPlace, MotorAt, ChipAt

\* Every step keeps the invariant.
LEMMA FdcNextInv == ASSUME FdcInv, [Next]_vars PROVE FdcInv'
<1>1. CASE \E drive \in {0, 1} : FdcInit(drive)
  BY <1>1, FdcInitStep
<1>2. CASE \E d \in {"read", "write"}, n \in Sizes : DiskCall(d, n)
  BY <1>2, DiskCallStep
<1>3. CASE Driver
  BY <1>3, IrqWaitStep, ResetDoneStep, IssuePositioningStep, SensePositioningStep,
     DiskLoopStep, IssueTransferStep, TransferDoneStep DEF Driver
<1>4. CASE FdcHandler \/ Stray \/ UNCHANGED vars
  BY <1>4, InterruptStep
<1>5. CASE ChipDone \/ ChipFails \/ ChipRefuses
  BY <1>5, ChipStep
<1> QED BY <1>1, <1>2, <1>3, <1>4, <1>5 DEF Next

\* The inductive invariant of the floppy driver and its controller.
THEOREM FdcInvariance == Spec => []FdcInv
BY FdcInitInv, FdcNextInv, PTL DEF Spec

\* The heads move and bytes are transferred only while the motor turns, and it is off
\* between calls unless the disk is protected (fdc_motor, fdc_seek, fdc_do_track).
THEOREM MotorIsOnWhenNeeded == Spec => []MotorFollows
<1>1. FdcInv => MotorFollows
  BY DEF FdcInv
<1> QED BY <1>1, FdcInvariance, PTL

\* No transfer is under way with the heads elsewhere, whichever interrupt ended the wait
\* for the seeks (fdc_seek, fdc_do_track).
THEOREM TransfersAreInPlace == Spec => []TransferInPlace
<1>1. FdcInv => TransferInPlace
  BY DEF FdcInv
<1> QED BY <1>1, FdcInvariance, PTL

-----------------------------------------------------------------------------
(* The bytes: types, and the refinement of Disk.                           *)

\* The controller's states, with the cylinders that exist.
ChipTypes ==
    [cmd : {"none", "reset", "calibrate", "seek", "read", "write"}, cyl : Cylinders,
     phase : {"idle", "exec", "done"}, ic : {0, 1}, nw : BOOLEAN]

\* The rest of the types.
DriverTypes ==
    /\ fdc_drive \in {-1, 0, 1}
    /\ motor_state \in BOOLEAN /\ fdc_interrupt_occurred \in BOOLEAN /\ enabled \in BOOLEAN
    /\ pc \in {"idle", "reset", "calibrate", "loop", "seek0", "seek1", "transfer"}
    /\ step \in {"issue", "wait", "status"}
    /\ dir \in {"none", "read", "write"} /\ ret \in {0, -1, -2}
    /\ bytes \in 0 .. FDC_MAX_SIZE /\ pos \in 0 .. bytes /\ cylinder \in Nat
    /\ disk \in [Addr -> Byte] /\ buffer \in [Addr -> Byte]
    /\ fdc_dmabuffer \in [Offsets -> Byte]
    /\ motor \in BOOLEAN /\ irq \in BOOLEAN
    /\ at \in Cylinders /\ protected \in BOOLEAN
    /\ errors \in 0 .. MaxErrors /\ strays \in 0 .. MaxStrays

LEMMA TypeParts ==
  /\ TypeOK <=> DriverTypes /\ chip \in ChipTypes
  /\ TypeOK' <=> DriverTypes' /\ chip' \in ChipTypes
<1>1. TypeOK <=> DriverTypes /\ chip \in ChipTypes
  BY Zenon DEF TypeOK, DriverTypes, ChipTypes
<1>2. TypeOK' <=> DriverTypes' /\ chip' \in ChipTypes
  BY Zenon DEF TypeOK, DriverTypes, ChipTypes
<1> QED BY <1>1, <1>2

\* Cylinders and the bytes in them: a disk is a whole number of cylinders.
LEMMA Geometry ==
  ASSUME NEW c \in Nat
  PROVE  /\ c * FDC_BUFFER_SIZE \in Nat
         /\ (c + 1) * FDC_BUFFER_SIZE = c * FDC_BUFFER_SIZE + FDC_BUFFER_SIZE
         /\ c * FDC_BUFFER_SIZE < FDC_MAX_SIZE => c \in Cylinders
         /\ c \in Cylinders => c * FDC_BUFFER_SIZE + FDC_BUFFER_SIZE <= FDC_MAX_SIZE
<1>1. PICK B \in Nat \ {0} : B = FDC_BUFFER_SIZE
  BY FdcConstants
<1>2. PICK M \in Nat \ {0} : M = FDC_MAX_SIZE
  BY FdcConstants
<1>3. PICK N \in Nat : N = M \div B
  BY <1>1, <1>2
<1>4. M = N * B
  <2>1. ASSUME NEW x \in Nat, NEW y \in Nat \ {0} PROVE x = y * (x \div y) + (x % y)
    OBVIOUS
  <2>2. M % B = 0
    BY <1>1, <1>2, FdcConstants
  <2>3. M = B * N + 0
    BY <1>1, <1>2, <1>3, <2>1, <2>2
  <2> QED BY <2>3, <1>1, <1>3
<1>5. c * B \in Nat /\ (c + 1) * B = c * B + B
  BY <1>1
<1>6. ASSUME NEW x \in Nat, NEW y \in Nat, x <= y PROVE x * B <= y * B
  <2>1. PICK d \in Nat : y = x + d
    <3>1. y - x \in Nat /\ y = x + (y - x)
      BY <1>6
    <3> QED BY <3>1
  <2>2. y * B = x * B + d * B /\ d * B \in Nat /\ x * B \in Nat
    BY <1>1, <2>1
  <2> QED BY <2>2
<1>7. ASSUME c * B < M PROVE c \in 0 .. N - 1
  <2>1. ~(N <= c)
    <3>1. SUFFICES ASSUME N <= c PROVE FALSE
      OBVIOUS
    <3>2. N * B <= c * B
      BY <3>1, <1>3, <1>6
    <3> QED BY <3>2, <1>4, <1>7, <1>5, <1>2
  <2> QED BY <2>1, <1>3
<1>8. ASSUME c \in 0 .. N - 1 PROVE c * B + B <= M
  <2>1. (c + 1) * B <= N * B
    BY <1>3, <1>6, <1>8
  <2> QED BY <2>1, <1>4, <1>5
<1>9. Cylinders = 0 .. N - 1
  BY <1>1, <1>2, <1>3 DEF Cylinders
<1> QED BY <1>1, <1>2, <1>5, <1>7, <1>8, <1>9

\* Commands name cylinders that exist.
LEMMA ChipTypesFacts ==
  /\ 0 \in Cylinders /\ Cylinders \subseteq Nat /\ Idle \in ChipTypes
  /\ \A cmd \in {"reset", "calibrate", "seek", "read", "write"}, cyl \in Cylinders :
       Command(cmd, cyl) \in ChipTypes
<1>1. 0 * FDC_BUFFER_SIZE = 0 /\ 0 < FDC_MAX_SIZE
  BY FdcConstants
<1>2. 0 \in Cylinders
  BY <1>1, Geometry
<1>3. Cylinders \subseteq Nat
  BY DEF Cylinders
<1> QED BY <1>2, <1>3 DEF Idle, Command, ChipTypes

\* While a call is at a cylinder, that cylinder exists and lies between its position and
\* the end of the disk.
LEMMA CylinderFacts ==
  ASSUME DiskInv, AtCylinder
  PROVE  /\ cylinder \in Cylinders /\ pos = cylinder * FDC_BUFFER_SIZE /\ pos \in Nat
         /\ pos + FDC_BUFFER_SIZE <= FDC_MAX_SIZE
         /\ bytes \in Nat /\ pos < bytes /\ dir \in {"read", "write"}
         /\ CopyThisIter \in 1 .. FDC_BUFFER_SIZE
         /\ CopyThisIter = IF bytes - pos < FDC_BUFFER_SIZE THEN bytes - pos ELSE FDC_BUFFER_SIZE
<1>1. /\ bytes \in 0 .. FDC_MAX_SIZE /\ pos \in 0 .. bytes /\ cylinder \in Nat
      /\ dir \in {"none", "read", "write"} /\ FDC_MAX_SIZE \in Nat /\ FDC_BUFFER_SIZE \in Nat \ {0}
  BY FdcConstants DEF DiskInv, TypeOK
<1>2. dir # "none" /\ pos < bytes /\ pos = cylinder * FDC_BUFFER_SIZE
  BY DEF DiskInv, CallAt, AtCylinder
<1>3. pos < FDC_MAX_SIZE /\ pos \in Nat /\ bytes \in Nat
  BY <1>1, <1>2
<1>4. cylinder \in Cylinders /\ pos + FDC_BUFFER_SIZE <= FDC_MAX_SIZE
  BY <1>1, <1>2, <1>3, Geometry
<1>5. CopyThisIter = IF bytes - pos < FDC_BUFFER_SIZE THEN bytes - pos ELSE FDC_BUFFER_SIZE
  BY DEF CopyThisIter, Remaining
<1>6. CopyThisIter \in 1 .. FDC_BUFFER_SIZE
  BY <1>1, <1>2, <1>3, <1>5
<1> QED BY <1>1, <1>2, <1>3, <1>4, <1>5, <1>6

\* A step that moves no bytes, neither the call nor its data.
Quiet ==
    /\ UNCHANGED <<bytes, pos, cylinder, dir, ret, disk, buffer, fdc_dmabuffer>>
    /\ pc' \in {"idle", "reset", "calibrate"} <=> pc \in {"idle", "reset", "calibrate"}
    /\ AtCylinder' <=> AtCylinder
    /\ chip'.cmd \in {"read", "write"} =>
         chip'.cmd = dir /\ (chip'.phase # "done" \/ chip'.nw \/ chip' = chip)

LEMMA QuietStep ==
  ASSUME DiskInv, Quiet
  PROVE  CallAt' /\ BytesAt' /\ UNCHANGED ImplementsDisk!diskVars
<1>1. CallAt'
  BY DEF DiskInv, Quiet, CallAt
<1>2. CopyThisIter' = CopyThisIter
  BY DEF Quiet, CopyThisIter, Remaining
<1>3. BytesAt'
  BY <1>2 DEF DiskInv, Quiet, BytesAt
<1>4. UNCHANGED ImplementsDisk!diskVars
  BY DEF Quiet, ImplementsDisk!diskVars
<1> QED BY <1>1, <1>3, <1>4

LEMMA InitDisk == ASSUME Init PROVE DiskInv /\ ImplementsDisk!DiskInit
<1>1. FdcInv
  BY FdcInitInv
<1>2. CallAt /\ BytesAt
  BY IdleFacts DEF Init, CallAt, BytesAt, AtCylinder
<1>3. chip \in ChipTypes
  BY ChipTypesFacts DEF Init
<1>4. disk \in [Addr -> Byte] /\ buffer \in [Addr -> Byte] /\ fdc_dmabuffer \in [Offsets -> Byte]
  BY FdcConstants DEF Init, Byte, Addr, Offsets
<1>5. bytes \in 0 .. FDC_MAX_SIZE /\ pos \in 0 .. bytes /\ errors \in 0 .. MaxErrors /\ strays \in 0 .. MaxStrays
  BY FdcConstants DEF Init
<1>6. TypeOK
  BY <1>3, <1>4, <1>5 DEF Init, TypeOK, ChipTypes
<1>7. ImplementsDisk!DiskInit
  BY DEF Init, ImplementsDisk!DiskInit, ImplementsDisk!Addr, Addr
<1> QED BY <1>1, <1>2, <1>6, <1>7 DEF DiskInv

\* What a step of the driver or the controller is to the types, the bytes and the promise.
StepOK == TypeOK' /\ CallAt' /\ BytesAt' /\ [ImplementsDisk!DiskNext]_ImplementsDisk!diskVars

LEMMA InitDiskStep == ASSUME DiskInv, NEW drive \in {0, 1}, FdcInit(drive) PROVE StepOK
<1>1. Quiet
  BY CommandFacts DEF FdcInit, Quiet, callVars, faultVars, AtCylinder
<1>2. chip' \in ChipTypes
  BY ChipTypesFacts DEF FdcInit
<1>3. DriverTypes'
  <2>1. DriverTypes
    BY TypeParts DEF DiskInv
  <2> QED BY <2>1, <1>2 DEF FdcInit, DriverTypes, callVars, faultVars
<1> QED BY <1>1, <1>3, <1>2, TypeParts, QuietStep DEF StepOK

LEMMA IrqWaitDisk == ASSUME DiskInv, IrqWait PROVE StepOK
<1>1. Quiet
  BY DEF IrqWait, Quiet, callVars, faultVars, AtCylinder, DiskInv, CallAt
<1>2. chip' \in ChipTypes
  BY DEF IrqWait, DiskInv, TypeOK, ChipTypes
<1>3. DriverTypes'
  <2>1. DriverTypes
    BY TypeParts DEF DiskInv
  <2>2. /\ fdc_interrupt_occurred' = FALSE /\ enabled' = FALSE /\ step' = "status"
        /\ UNCHANGED <<fdc_drive, motor_state, pc, dir, bytes, cylinder, pos, ret,
                       fdc_dmabuffer, buffer, motor, at, irq, disk, errors, strays, protected>>
    BY DEF IrqWait, callVars, faultVars
  <2> QED BY <2>1, <2>2 DEF DriverTypes
<1> QED BY <1>1, <1>3, <1>2, TypeParts, QuietStep DEF StepOK

LEMMA HandlerDisk == ASSUME DiskInv, FdcHandler \/ Stray PROVE StepOK
<1>1. Quiet
  BY DEF FdcHandler, Stray, Quiet, callVars, faultVars, AtCylinder, DiskInv, CallAt
<1>2. chip' \in ChipTypes
  BY DEF FdcHandler, Stray, DiskInv, TypeOK, ChipTypes
<1>3. strays' \in 0 .. MaxStrays
  BY FdcConstants DEF FdcHandler, Stray, faultVars, DiskInv, TypeOK
<1>4. DriverTypes'
  <2>1. DriverTypes
    BY TypeParts DEF DiskInv
  <2>2. CASE FdcHandler
    <3>1. /\ irq' = FALSE /\ fdc_interrupt_occurred' = TRUE
          /\ UNCHANGED <<fdc_drive, motor_state, enabled, pc, step, dir, bytes, cylinder, pos,
                         ret, fdc_dmabuffer, buffer, motor, at, disk, errors, strays, protected>>
      BY <2>2 DEF FdcHandler, callVars, faultVars
    <3>2. irq' \in BOOLEAN /\ fdc_interrupt_occurred' \in BOOLEAN
      BY <3>1
    <3>3. /\ motor_state' \in BOOLEAN /\ enabled' \in BOOLEAN /\ motor' \in BOOLEAN
          /\ protected' \in BOOLEAN
      BY <2>1, <3>1 DEF DriverTypes
    <3>4. /\ bytes' \in 0 .. FDC_MAX_SIZE /\ pos' \in 0 .. bytes' /\ cylinder' \in Nat
          /\ errors' \in 0 .. MaxErrors /\ strays' \in 0 .. MaxStrays
      BY <2>1, <3>1 DEF DriverTypes
    <3> QED BY <2>1, <3>1, <3>2, <3>3, <3>4 DEF DriverTypes
  <2>3. CASE Stray
    BY <2>1, <2>3, <1>3 DEF Stray, DriverTypes, callVars
  <2> QED BY <2>2, <2>3
<1> QED BY <1>1, <1>4, <1>2, TypeParts, QuietStep DEF StepOK

LEMMA ResetDisk == ASSUME DiskInv, ResetDone PROVE StepOK
<1>1. Quiet
  BY IdleFacts DEF ResetDone, Quiet, callVars, AtCylinder
<1>2. motor' = TRUE /\ motor_state' = TRUE
  BY MotorOnFacts DEF DiskInv, ResetDone
<1>3. irq' \in BOOLEAN
  BY DEF ResetDone, Acknowledge, DiskInv, TypeOK
<1>4. chip' \in ChipTypes
  BY ChipTypesFacts DEF ResetDone
<1>5. DriverTypes'
  <2>1. DriverTypes
    BY TypeParts DEF DiskInv
  <2> QED BY <2>1, <1>2, <1>3, <1>4 DEF ResetDone, DriverTypes, callVars, faultVars
<1> QED BY <1>1, <1>5, <1>4, TypeParts, QuietStep DEF StepOK

LEMMA IssuePositioningDisk == ASSUME DiskInv, IssuePositioning PROVE StepOK
<1>1. Target \in Cylinders
  BY CylinderFacts, ChipTypesFacts DEF IssuePositioning, Target, AtCylinder
<1>2. PICK cmd \in {"calibrate", "seek"} : chip' = Command(cmd, Target)
  BY DEF IssuePositioning
<1>3. chip' \in ChipTypes /\ chip'.cmd \notin {"read", "write"}
  BY <1>1, <1>2, ChipTypesFacts, CommandFacts
<1>4. Quiet
  BY <1>3 DEF IssuePositioning, Quiet, callVars, AtCylinder
<1>5. DriverTypes'
  <2>1. DriverTypes
    BY TypeParts DEF DiskInv
  <2> QED BY <2>1, <1>3 DEF IssuePositioning, DriverTypes, callVars, faultVars
<1> QED BY <1>4, <1>5, <1>3, TypeParts, QuietStep DEF StepOK

LEMMA SensePositioningDisk == ASSUME DiskInv, SensePositioning PROVE StepOK
<1>1. chip' \in {chip, Idle} /\ chip' \in ChipTypes /\ chip'.cmd \notin {"read", "write"}
  BY ChipTypesFacts, IdleFacts DEF SensePositioning, DiskInv, TypeOK, ChipTypes, FdcInv, ChipAt
<1>2. /\ pc \in {"calibrate", "seek0", "seek1"} /\ pc' \in {"calibrate", "idle", "seek0", "seek1", "transfer"}
      /\ pc = "calibrate" <=> pc' \in {"calibrate", "idle"}
      /\ step' \in {"issue", "wait", "status"} /\ motor' \in BOOLEAN /\ motor_state' \in BOOLEAN
  BY DEF SensePositioning, MotorOff, DiskInv, TypeOK
<1>3. irq' \in BOOLEAN
  BY DEF SensePositioning, Acknowledge, DiskInv, TypeOK
<1>4. Quiet
  BY <1>1, <1>2 DEF SensePositioning, Quiet, callVars, AtCylinder
<1>5. DriverTypes'
  <2>1. DriverTypes
    BY TypeParts DEF DiskInv
  <2> QED BY <2>1, <1>1, <1>2, <1>3 DEF SensePositioning, DriverTypes, callVars, faultVars
<1> QED BY <1>4, <1>5, <1>1, TypeParts, QuietStep DEF StepOK

LEMMA IssueTransferDisk == ASSUME DiskInv, IssueTransfer PROVE StepOK
<1>1. cylinder \in Cylinders /\ dir \in {"read", "write"} /\ cylinder \in Nat
  BY CylinderFacts, ChipTypesFacts DEF IssueTransfer, AtCylinder
<1>2. chip' \in ChipTypes /\ chip'.cmd = dir /\ chip'.phase = "exec"
  BY <1>1, ChipTypesFacts, CommandFacts DEF IssueTransfer
<1>3. motor' = TRUE /\ motor_state' = TRUE
  BY MotorOnFacts DEF DiskInv, IssueTransfer
<1>4. Quiet
  BY <1>2 DEF IssueTransfer, Quiet, callVars, AtCylinder
<1>5. DriverTypes'
  <2>1. DriverTypes
    BY TypeParts DEF DiskInv
  <2> QED BY <2>1, <1>2, <1>3 DEF IssueTransfer, DriverTypes, callVars, faultVars
<1> QED BY <1>4, <1>5, <1>2, TypeParts, QuietStep DEF StepOK

LEMMA RefusesDisk == ASSUME DiskInv, ChipRefuses PROVE StepOK
<1>1. PICK ic \in {0, 1} : chip' = [chip EXCEPT !.phase = "done", !.ic = ic, !.nw = TRUE]
                          /\ irq' = TRUE /\ chip.cmd = "write"
  BY DEF ChipRefuses
<1>2. chip \in ChipTypes
  BY TypeParts DEF DiskInv
<1>3. chip' \in ChipTypes /\ chip'.cmd = chip.cmd /\ chip'.nw
  BY <1>1, <1>2 DEF ChipTypes
<1>4. Quiet
  BY <1>1, <1>3 DEF ChipRefuses, Quiet, callVars, AtCylinder, DiskInv, CallAt
<1>5. DriverTypes'
  <2>1. DriverTypes
    BY TypeParts DEF DiskInv
  <2> QED BY <2>1, <1>1 DEF ChipRefuses, DriverTypes, callVars, faultVars
<1> QED BY <1>3, <1>4, <1>5, TypeParts, QuietStep DEF StepOK

\* A call begins, or is refused.
LEMMA DiskCallDisk ==
  ASSUME DiskInv, NEW d \in {"read", "write"}, NEW n \in Sizes, DiskCall(d, n) PROVE StepOK
<1>1. /\ pc = "idle" /\ UNCHANGED <<disk, buffer, fdc_dmabuffer, chip>> /\ dir = "none"
      /\ n \in Nat
  BY FdcConstants DEF DiskCall, DiskInv, CallAt
<1>2. DriverTypes /\ chip' \in ChipTypes /\ chip'.cmd \notin {"read", "write"}
  BY <1>1, TypeParts DEF DiskInv, FdcInv, ChipAt
<1>3. CASE fdc_drive < 0 \/ n > FDC_MAX_SIZE
  <2>1. ret' = -1 /\ UNCHANGED <<pc, dir, bytes, cylinder, pos>>
    BY <1>3 DEF DiskCall
  <2>2. DriverTypes'
    BY <1>1, <1>2, <2>1 DEF DiskCall, DriverTypes, faultVars
  <2>3. CallAt' /\ BytesAt'
    BY <1>1, <1>2, <2>1 DEF DiskInv, CallAt, BytesAt, AtCylinder
  <2>4. ImplementsDisk!Refuse
    BY <1>1, <2>1 DEF ImplementsDisk!Refuse
  <2> QED BY <1>2, <2>2, <2>3, <2>4, TypeParts DEF StepOK, ImplementsDisk!DiskNext
<1>4. CASE ~(fdc_drive < 0 \/ n > FDC_MAX_SIZE)
  <2>1. pc' = "loop" /\ dir' = d /\ bytes' = n /\ cylinder' = 0 /\ pos' = 0 /\ UNCHANGED ret
    BY <1>4 DEF DiskCall
  <2>2. n \in 0 .. FDC_MAX_SIZE /\ 0 \in 0 .. n /\ 0 * FDC_BUFFER_SIZE = 0
    BY <1>1, <1>4, FdcConstants
  <2>3. DriverTypes'
    BY <1>1, <1>2, <2>1, <2>2 DEF DiskCall, DriverTypes, faultVars
  <2>4. CallAt' /\ BytesAt'
    BY <1>1, <1>2, <2>1, <2>2 DEF DiskInv, CallAt, BytesAt, AtCylinder
  <2>5. ImplementsDisk!Call(d, n)
    BY <1>1, <2>1 DEF ImplementsDisk!Call
  <2> QED BY <1>2, <2>2, <2>3, <2>4, <2>5, TypeParts DEF StepOK, ImplementsDisk!DiskNext
<1> QED BY <1>3, <1>4

\* The head of the loop: a write's bytes go to the DMA buffer, or the call is over.
LEMMA DiskLoopDisk == ASSUME DiskInv, DiskLoop PROVE StepOK
<1>1. /\ pc = "loop" /\ chip.cmd \notin {"read", "write"} /\ dir \in {"read", "write"}
      /\ UNCHANGED <<bytes, cylinder, pos, buffer, chip, disk>>
  BY IdleFacts DEF DiskLoop, DiskInv, FdcInv, FdcTypes, ChipAt
<1>2. DriverTypes /\ chip' \in ChipTypes /\ chip'.cmd \notin {"read", "write"}
  BY <1>1, TypeParts DEF DiskInv
<1>3. bytes \in Nat /\ pos \in 0 .. bytes /\ bytes <= FDC_MAX_SIZE /\ pos \in Nat
  BY <1>2, FdcConstants DEF DriverTypes
<1>4. CASE Remaining > 0
  <2>1. /\ pc' = "seek0" /\ step' = "issue" /\ UNCHANGED <<dir, ret>>
        /\ fdc_dmabuffer' = IF dir = "read" THEN fdc_dmabuffer
                            ELSE [i \in Offsets |-> IF i < CopyThisIter THEN buffer[pos + i]
                                                    ELSE fdc_dmabuffer[i]]
    BY <1>4 DEF DiskLoop
  <2>2. motor' = TRUE /\ motor_state' = TRUE
    BY <1>4, MotorOnFacts DEF DiskInv, DiskLoop
  <2>3. pos < bytes /\ CopyThisIter' = CopyThisIter /\ CopyThisIter \in Nat /\ CopyThisIter <= bytes - pos
    BY <1>1, <1>3, <1>4, FdcConstants DEF Remaining, CopyThisIter
  <2>4. \A i \in Offsets : i < CopyThisIter => pos + i \in Addr
    BY <1>3, <2>3, FdcConstants DEF Offsets, Addr
  <2>5. fdc_dmabuffer' \in [Offsets -> Byte]
    BY <1>2, <2>1, <2>4 DEF DriverTypes
  <2>6. DriverTypes'
    BY <1>1, <1>2, <2>1, <2>2, <2>5 DEF DiskLoop, DriverTypes, faultVars
  <2>7. CallAt'
    BY <1>1, <1>2, <2>1, <2>3 DEF DiskInv, CallAt, AtCylinder
  <2>8. BytesAt'
    BY <1>1, <1>2, <2>1, <2>3 DEF BytesAt, AtCylinder
  <2>9. UNCHANGED ImplementsDisk!diskVars
    BY <1>1, <2>1 DEF ImplementsDisk!diskVars
  <2> QED BY <1>2, <2>6, <2>7, <2>8, <2>9, TypeParts DEF StepOK
<1>5. CASE ~(Remaining > 0)
  <2>1. /\ pc' = "idle" /\ dir' = "none" /\ ret' = 0
        /\ UNCHANGED <<step, fdc_dmabuffer, motor_state, motor>>
    BY <1>5 DEF DiskLoop
  <2>2. pos = bytes
    BY <1>3, <1>5 DEF Remaining
  <2>3. DriverTypes'
    BY <1>1, <1>2, <2>1 DEF DiskLoop, DriverTypes, faultVars
  <2>4. CallAt' /\ BytesAt'
    BY <1>1, <1>2, <2>1 DEF CallAt, BytesAt, AtCylinder
  <2>5. ImplementsDisk!Return(0)
    BY <1>1, <2>1, <2>2 DEF ImplementsDisk!Return
  <2> QED BY <1>2, <2>3, <2>4, <2>5, TypeParts DEF StepOK, ImplementsDisk!DiskNext
<1> QED BY <1>4, <1>5

\* A transfer is the call's own, at the cylinder of the call.
LEMMA TransferFacts ==
  ASSUME DiskInv, chip.cmd \in {"read", "write"}
  PROVE  /\ pc = "transfer" /\ chip.cyl = cylinder /\ chip.cmd = dir
         /\ AtCylinder
BY DEF DiskInv, FdcInv, TransferInPlace, ChipAt, CallAt, AtCylinder

\* What the controller writes stays within the cylinder, also when it breaks off.
LEMMA WrittenFacts ==
  ASSUME DiskInv, chip.cmd = "write", NEW k \in 0 .. FDC_BUFFER_SIZE, disk' = Written(chip.cyl, k)
  PROVE  /\ disk' \in [Addr -> Byte]
         /\ \A a \in Addr : ~(a >= pos /\ a < pos + FDC_BUFFER_SIZE) => disk'[a] = disk[a]
         /\ k = FDC_BUFFER_SIZE => \A i \in Offsets : disk'[pos + i] = fdc_dmabuffer[i]
<1>1. /\ chip.cyl = cylinder /\ pos = cylinder * FDC_BUFFER_SIZE /\ pos \in Nat
      /\ pos + FDC_BUFFER_SIZE <= FDC_MAX_SIZE
  BY TransferFacts, CylinderFacts
<1>2. /\ disk \in [Addr -> Byte] /\ fdc_dmabuffer \in [Offsets -> Byte]
      /\ FDC_BUFFER_SIZE \in Nat /\ FDC_MAX_SIZE \in Nat
  BY FdcConstants DEF DiskInv, TypeOK
<1>3. disk' = [a \in Addr |-> IF a >= pos /\ a < pos + k THEN fdc_dmabuffer[a - pos] ELSE disk[a]]
  BY <1>1 DEF Written
<1>4. \A a \in Addr : a >= pos /\ a < pos + k => a - pos \in Offsets
  BY <1>1, <1>2 DEF Addr, Offsets
<1>5. disk' \in [Addr -> Byte]
  BY <1>2, <1>3, <1>4
<1>6. \A a \in Addr : ~(a >= pos /\ a < pos + FDC_BUFFER_SIZE) => disk'[a] = disk[a]
  <2> TAKE a \in Addr
  <2> HAVE ~(a >= pos /\ a < pos + FDC_BUFFER_SIZE)
  <2>1. ~(a >= pos /\ a < pos + k)
    BY <1>1, <1>2 DEF Addr
  <2> QED BY <1>3, <2>1
<1>7. ASSUME k = FDC_BUFFER_SIZE, NEW i \in Offsets PROVE disk'[pos + i] = fdc_dmabuffer[i]
  <2>1. pos + i \in Addr /\ pos + i >= pos /\ pos + i < pos + k /\ (pos + i) - pos = i
    BY <1>1, <1>2, <1>7 DEF Addr, Offsets
  <2> QED BY <1>3, <2>1
<1> QED BY <1>5, <1>6, <1>7

\* What the controller reads goes to the DMA buffer.
LEMMA FilledFacts ==
  ASSUME DiskInv, chip.cmd = "read", NEW k \in 0 .. FDC_BUFFER_SIZE,
         fdc_dmabuffer' = Filled(chip.cyl, k)
  PROVE  /\ fdc_dmabuffer' \in [Offsets -> Byte]
         /\ k = FDC_BUFFER_SIZE => \A i \in Offsets : fdc_dmabuffer'[i] = disk[pos + i]
<1>1. /\ chip.cyl = cylinder /\ pos = cylinder * FDC_BUFFER_SIZE /\ pos \in Nat
      /\ pos + FDC_BUFFER_SIZE <= FDC_MAX_SIZE
  BY TransferFacts, CylinderFacts
<1>2. /\ disk \in [Addr -> Byte] /\ fdc_dmabuffer \in [Offsets -> Byte]
      /\ FDC_BUFFER_SIZE \in Nat /\ FDC_MAX_SIZE \in Nat
  BY FdcConstants DEF DiskInv, TypeOK
<1>3. fdc_dmabuffer' = [i \in Offsets |-> IF i < k THEN disk[pos + i] ELSE fdc_dmabuffer[i]]
  BY <1>1 DEF Filled
<1>4. \A i \in Offsets : pos + i \in Addr
  BY <1>1, <1>2 DEF Addr, Offsets
<1>5. fdc_dmabuffer' \in [Offsets -> Byte]
  BY <1>2, <1>3, <1>4
<1>6. k = FDC_BUFFER_SIZE => \A i \in Offsets : i < k
  BY <1>2 DEF Offsets
<1> QED BY <1>3, <1>5, <1>6

\* An attempt to write is one of Disk's.
LEMMA AttemptFacts ==
  ASSUME DiskInv, chip.cmd = "write", NEW k \in 0 .. FDC_BUFFER_SIZE, disk' = Written(chip.cyl, k),
         UNCHANGED <<buffer, dir, bytes, pos, ret>>
  PROVE  ImplementsDisk!WriteAttempt
<1>1. dir = "write" /\ pos < bytes
  BY TransferFacts, CylinderFacts
<1>2. DOMAIN disk' = Addr
  BY WrittenFacts
<1>3. \A a \in Addr : ~(a >= pos /\ a < pos + FDC_BUFFER_SIZE) => disk'[a] = disk[a]
  BY WrittenFacts
<1> QED BY <1>1, <1>2, <1>3
        DEF ImplementsDisk!WriteAttempt, ImplementsDisk!Cylinder, ImplementsDisk!Addr, Addr

\* The end of a command, good or bad, when the controller moves bytes.
LEMMA ChipDisk ==
  ASSUME DiskInv, ChipDone \/ ChipFails PROVE StepOK
<1>1. /\ UNCHANGED <<bytes, pos, cylinder, dir, ret, buffer, pc>> /\ chip.phase = "exec"
      /\ DriverTypes /\ chip \in ChipTypes
  BY TypeParts DEF ChipDone, ChipFails, callVars, DiskInv
<1>2. PICK ic \in {0, 1} :
        /\ chip' = [chip EXCEPT !.phase = "done", !.ic = ic]
        /\ chip.cmd \in {"read", "write"} /\ ic = 0 => ChipDone
  <2>1. CASE ChipDone
    <3>1. chip' = [chip EXCEPT !.phase = "done"] /\ chip.ic \in {0, 1}
      BY <1>1, <2>1 DEF ChipDone, ChipTypes
    <3>2. chip' = [chip EXCEPT !.phase = "done", !.ic = chip.ic]
      BY <1>1, <3>1 DEF ChipTypes
    <3> QED BY <2>1, <3>1, <3>2
  <2>2. CASE ChipFails
    BY <2>2 DEF ChipFails
  <2> QED BY <2>1, <2>2
<1>3. chip' \in ChipTypes /\ chip'.cmd = chip.cmd /\ chip'.phase = "done" /\ chip'.ic = ic
  BY <1>1, <1>2 DEF ChipTypes
<1>4. at' \in Cylinders /\ irq' = TRUE /\ errors' \in 0 .. MaxErrors
  <2>1. at \in Cylinders /\ chip.cyl \in Cylinders /\ errors \in 0 .. MaxErrors
    BY <1>1 DEF DriverTypes, ChipTypes
  <2>2. CASE ChipDone
    BY <2>1, <2>2 DEF ChipDone, faultVars
  <2>3. CASE ChipFails
    BY <2>1, <2>3, FdcConstants DEF ChipFails
  <2> QED BY <2>2, <2>3
<1>5. /\ disk' \in [Addr -> Byte] /\ fdc_dmabuffer' \in [Offsets -> Byte]
      /\ \/ UNCHANGED disk
         \/ chip.cmd = "write" /\ \E k \in 0 .. FDC_BUFFER_SIZE : disk' = Written(chip.cyl, k)
      /\ chip.cmd # "read" => UNCHANGED fdc_dmabuffer
      /\ ChipDone /\ chip.cmd \in {"read", "write"} =>
           \A i \in Offsets : disk'[pos + i] = fdc_dmabuffer'[i]
  <2>1. disk \in [Addr -> Byte] /\ fdc_dmabuffer \in [Offsets -> Byte] /\ FDC_BUFFER_SIZE \in Nat
    BY <1>1, FdcConstants DEF DriverTypes
  <2>2. PICK k \in 0 .. FDC_BUFFER_SIZE :
          /\ \/ UNCHANGED fdc_dmabuffer
             \/ chip.cmd = "read" /\ fdc_dmabuffer' = Filled(chip.cyl, k)
          /\ \/ UNCHANGED disk
             \/ chip.cmd = "write" /\ disk' = Written(chip.cyl, k)
          /\ ChipDone => /\ k = FDC_BUFFER_SIZE
                         /\ chip.cmd = "read" => fdc_dmabuffer' = Filled(chip.cyl, k)
                         /\ chip.cmd = "write" => disk' = Written(chip.cyl, k)
    <3>1. CASE ChipDone
      <4>1. FDC_BUFFER_SIZE \in 0 .. FDC_BUFFER_SIZE
        BY <2>1
      <4>2. fdc_dmabuffer' = IF chip.cmd = "read" THEN Filled(chip.cyl, FDC_BUFFER_SIZE) ELSE fdc_dmabuffer
        BY <3>1 DEF ChipDone
      <4>3. disk' = IF chip.cmd = "write" THEN Written(chip.cyl, FDC_BUFFER_SIZE) ELSE disk
        BY <3>1 DEF ChipDone
      <4> QED BY <4>1, <4>2, <4>3
    <3>2. CASE ChipFails /\ ~ChipDone
      <4>1. CASE chip.cmd \in {"calibrate", "seek"}
        <5>1. UNCHANGED <<fdc_dmabuffer, disk>> /\ 0 \in 0 .. FDC_BUFFER_SIZE
          BY <2>1, <3>2, <4>1 DEF ChipFails
        <5> QED BY <5>1, <3>2
      <4>2. CASE chip.cmd \notin {"calibrate", "seek"}
        <5>1. PICK k \in 0 .. FDC_BUFFER_SIZE - 1 :
                /\ fdc_dmabuffer' = IF chip.cmd = "read" THEN Filled(chip.cyl, k) ELSE fdc_dmabuffer
                /\ disk' = IF chip.cmd = "write" /\ ~protected THEN Written(chip.cyl, k) ELSE disk
          BY <3>2, <4>2 DEF ChipFails
        <5>2. k \in 0 .. FDC_BUFFER_SIZE
          BY <2>1
        <5> QED BY <5>1, <5>2, <3>2
      <4> QED BY <4>1, <4>2
    <3> QED BY <3>1, <3>2
  <2>3. disk' \in [Addr -> Byte]
    BY <2>1, <2>2, WrittenFacts
  <2>4. fdc_dmabuffer' \in [Offsets -> Byte]
    BY <2>1, <2>2, FilledFacts
  <2>5. ASSUME ChipDone, chip.cmd \in {"read", "write"}, NEW i \in Offsets
        PROVE  disk'[pos + i] = fdc_dmabuffer'[i]
    <3>1. CASE chip.cmd = "read"
      BY <2>2, <2>5, <3>1, FilledFacts
    <3>2. CASE chip.cmd = "write"
      BY <2>2, <2>5, <3>2, WrittenFacts
    <3> QED BY <2>5, <3>1, <3>2
  <2> QED BY <2>2, <2>3, <2>4, <2>5
<1>6. DriverTypes'
  <2>1. /\ UNCHANGED <<fdc_drive, motor_state, fdc_interrupt_occurred, enabled, step, motor,
                       strays, protected>>
    BY DEF ChipDone, ChipFails, faultVars
  <2> QED BY <1>1, <1>4, <1>5, <2>1 DEF DriverTypes
<1>7. CallAt'
  BY <1>1, <1>3 DEF DiskInv, CallAt, AtCylinder
<1>8. BytesAt'
  <2>1. AtCylinder' = AtCylinder /\ CopyThisIter' = CopyThisIter
    BY <1>1 DEF AtCylinder, CopyThisIter, Remaining
  <2>2. ASSUME AtCylinder, dir = "write"
        PROVE  \A i \in Offsets : i < CopyThisIter => fdc_dmabuffer'[i] = buffer'[pos' + i]
    <3>1. chip.cmd # "read"
      BY <2>2, TransferFacts
    <3> QED BY <1>1, <1>5, <2>2, <3>1 DEF DiskInv, BytesAt
  <2>3. ASSUME chip'.cmd \in {"read", "write"}, chip'.ic = 0
        PROVE  \A i \in Offsets : disk'[cylinder' * FDC_BUFFER_SIZE + i] = fdc_dmabuffer'[i]
    <3>1. ChipDone /\ chip.cmd \in {"read", "write"}
      BY <1>2, <1>3, <2>3
    <3>2. cylinder' * FDC_BUFFER_SIZE = pos
      BY <1>1, <3>1, TransferFacts, CylinderFacts
    <3> QED BY <1>5, <3>1, <3>2
  <2> QED BY <1>1, <2>1, <2>2, <2>3 DEF BytesAt
<1>9. [ImplementsDisk!DiskNext]_ImplementsDisk!diskVars
  <2>1. CASE UNCHANGED disk
    BY <1>1, <2>1 DEF ImplementsDisk!diskVars
  <2>2. CASE chip.cmd = "write" /\ \E k \in 0 .. FDC_BUFFER_SIZE : disk' = Written(chip.cyl, k)
    BY <1>1, <2>2, AttemptFacts DEF ImplementsDisk!DiskNext
  <2> QED BY <1>5, <2>1, <2>2
<1> QED BY <1>3, <1>6, <1>7, <1>8, <1>9, TypeParts DEF StepOK

\* The result of a transfer: on to the next cylinder, again, or back with an error.
LEMMA TransferDoneDisk == ASSUME DiskInv, TransferDone PROVE StepOK
<1>1. /\ pc = "transfer" /\ step = "status" /\ chip' = Idle /\ chip.phase = "done"
      /\ UNCHANGED <<bytes, disk, fdc_dmabuffer>> /\ DriverTypes /\ chip \in ChipTypes
      /\ chip.cmd \in {"read", "write"}
  BY TypeParts DEF TransferDone, DiskInv, FdcInv, ChipAt
<1>2. chip' \in ChipTypes /\ chip'.cmd \notin {"read", "write"}
  BY <1>1, ChipTypesFacts, IdleFacts
<1>3. irq' \in BOOLEAN
  BY <1>1 DEF TransferDone, Acknowledge, DriverTypes
<1>4. /\ cylinder \in Nat /\ pos = cylinder * FDC_BUFFER_SIZE /\ pos \in Nat
      /\ pos + FDC_BUFFER_SIZE <= FDC_MAX_SIZE /\ bytes \in Nat /\ pos < bytes
      /\ dir \in {"read", "write"} /\ chip.cmd = dir
      /\ CopyThisIter = IF bytes - pos < FDC_BUFFER_SIZE THEN bytes - pos ELSE FDC_BUFFER_SIZE
      /\ FDC_BUFFER_SIZE \in Nat \ {0} /\ FDC_MAX_SIZE \in Nat
  BY <1>1, TransferFacts, CylinderFacts, FdcConstants DEF DriverTypes
<1>5. CASE CheckError = 0
  <2>1. /\ pc' = "loop" /\ step' = step /\ UNCHANGED <<dir, ret>>
        /\ motor_state' = FALSE /\ motor' = FALSE
        /\ pos' = pos + CopyThisIter /\ cylinder' = cylinder + 1
        /\ buffer' = IF dir = "write" THEN buffer
                     ELSE [a \in Addr |-> IF a >= pos /\ a < pos + CopyThisIter
                                          THEN fdc_dmabuffer[a - pos] ELSE buffer[a]]
    BY <1>5 DEF TransferDone, MotorOff
  <2>2. chip.ic = 0 /\ ~chip.nw
    BY <1>1, <1>5 DEF CheckError, ChipTypes
  <2>3. \A i \in Offsets : disk[pos + i] = fdc_dmabuffer[i]
    BY <1>1, <1>4, <2>2 DEF DiskInv, BytesAt
  <2>4. pos' \in 0 .. bytes /\ pos' = ImplementsDisk!NextPos
    BY <1>4, <2>1 DEF ImplementsDisk!NextPos
  <2>5. pos' < bytes => pos' = cylinder' * FDC_BUFFER_SIZE
    <3>1. (cylinder + 1) * FDC_BUFFER_SIZE = cylinder * FDC_BUFFER_SIZE + FDC_BUFFER_SIZE
      BY <1>4, Geometry
    <3> QED BY <1>4, <2>1, <3>1
  <2>6. \A a \in Addr : /\ a >= pos /\ a < pos + CopyThisIter <=> a \in ImplementsDisk!Moving
                        /\ a \in ImplementsDisk!Moving => a - pos \in Offsets /\ pos + (a - pos) = a
    BY <1>4 DEF ImplementsDisk!Moving, ImplementsDisk!Cylinder, ImplementsDisk!Addr, Addr, Offsets
  <2>7. ImplementsDisk!Addr = Addr /\ ImplementsDisk!Moving \subseteq Addr
    BY DEF ImplementsDisk!Addr, Addr, ImplementsDisk!Moving, ImplementsDisk!Cylinder
  <2>8. buffer' \in [Addr -> Byte]
    BY <1>1, <2>1, <2>6 DEF DriverTypes
  <2>9. DriverTypes'
    <3>1. cylinder' \in Nat /\ bytes' \in 0 .. FDC_MAX_SIZE /\ pos' \in 0 .. bytes'
      BY <1>1, <1>4, <2>1, <2>4 DEF DriverTypes
    <3>2. UNCHANGED <<fdc_drive, fdc_interrupt_occurred, enabled, at, errors, strays, protected>>
      BY DEF TransferDone, faultVars
    <3> QED BY <1>1, <1>3, <2>1, <2>8, <3>1, <3>2 DEF DriverTypes
  <2>10. CallAt'
    BY <1>1, <1>2, <1>4, <2>1, <2>5 DEF CallAt, AtCylinder
  <2>11. BytesAt'
    BY <1>2, <2>1 DEF BytesAt, AtCylinder
  <2>12. CASE dir = "read"
    <3>1. ASSUME NEW a \in Addr PROVE buffer'[a] = IF a \in ImplementsDisk!Moving THEN disk[a] ELSE buffer[a]
      <4>1. CASE a \in ImplementsDisk!Moving
        <5>1. buffer'[a] = fdc_dmabuffer[a - pos]
          BY <2>1, <2>6, <2>12, <4>1
        <5>2. disk[pos + (a - pos)] = fdc_dmabuffer[a - pos] /\ pos + (a - pos) = a
          BY <2>3, <2>6, <4>1
        <5> QED BY <4>1, <5>1, <5>2
      <4>2. CASE a \notin ImplementsDisk!Moving
        BY <2>1, <2>6, <2>12, <4>2
      <4> QED BY <4>1, <4>2
    <3>2. buffer' = [a \in Addr |-> IF a \in ImplementsDisk!Moving THEN disk[a] ELSE buffer[a]]
      BY <2>8, <3>1
    <3>3. ImplementsDisk!ReadCylinder
      BY <1>1, <1>4, <2>1, <2>4, <2>7, <2>12, <3>2 DEF ImplementsDisk!ReadCylinder
    <3> QED BY <1>2, <2>9, <2>10, <2>11, <3>3, TypeParts DEF StepOK, ImplementsDisk!DiskNext
  <2>13. CASE dir = "write"
    <3>1. \A i \in Offsets : i < CopyThisIter => fdc_dmabuffer[i] = buffer[pos + i]
      BY <1>1, <2>13 DEF DiskInv, BytesAt, AtCylinder
    <3>2. ASSUME NEW a \in ImplementsDisk!Moving PROVE disk[a] = buffer[a]
      <4>1. a - pos \in Offsets /\ pos + (a - pos) = a /\ a \in Addr
        BY <2>6, <2>7
      <4>2. a - pos < CopyThisIter
        <5>1. a < pos + CopyThisIter
          BY <2>6, <4>1
        <5> QED BY <1>4, <4>1, <5>1 DEF Addr
      <4>3. disk[pos + (a - pos)] = fdc_dmabuffer[a - pos]
        BY <2>3, <4>1
      <4>4. fdc_dmabuffer[a - pos] = buffer[pos + (a - pos)]
        BY <3>1, <4>1, <4>2
      <4> QED BY <4>1, <4>3, <4>4
    <3>3. ImplementsDisk!WriteCylinder
      BY <1>1, <1>4, <2>1, <2>4, <2>13, <3>2 DEF ImplementsDisk!WriteCylinder
    <3> QED BY <1>2, <2>9, <2>10, <2>11, <3>3, TypeParts DEF StepOK, ImplementsDisk!DiskNext
  <2> QED BY <1>4, <2>12, <2>13
<1>6. CASE CheckError = 1
  <2>1. step' = "issue" /\ UNCHANGED <<motor_state, motor, buffer, pos, cylinder, pc, dir, ret>>
    BY <1>6 DEF TransferDone
  <2>2. DriverTypes'
    BY <1>1, <1>3, <2>1 DEF TransferDone, DriverTypes, faultVars
  <2>3. Quiet
    BY <1>1, <1>2, <2>1 DEF Quiet, AtCylinder
  <2> QED BY <1>2, <2>2, <2>3, TypeParts, QuietStep DEF StepOK
<1>7. CASE CheckError = 2
  <2>1. /\ pc' = "idle" /\ dir' = "none" /\ ret' = -2 /\ step' = step
        /\ UNCHANGED <<motor_state, motor, buffer, pos, cylinder>>
    BY <1>7 DEF TransferDone
  <2>2. DriverTypes'
    BY <1>1, <1>3, <2>1 DEF TransferDone, DriverTypes, faultVars
  <2>3. CallAt' /\ BytesAt'
    BY <1>2, <2>1 DEF CallAt, BytesAt, AtCylinder
  <2>4. ImplementsDisk!Return(-2)
    BY <1>1, <1>4, <2>1 DEF ImplementsDisk!Return
  <2> QED BY <1>2, <2>2, <2>3, <2>4, TypeParts DEF StepOK, ImplementsDisk!DiskNext
<1> QED BY <1>5, <1>6, <1>7 DEF TransferDone

LEMMA DiskNextInv ==
  ASSUME DiskInv, [Next]_vars
  PROVE  DiskInv' /\ [ImplementsDisk!DiskNext]_ImplementsDisk!diskVars
<1>1. FdcInv'
  BY FdcNextInv DEF DiskInv
<1>2. CASE UNCHANGED vars
  <2>1. TypeOK' /\ CallAt' /\ BytesAt'
    BY <1>2 DEF vars, callVars, faultVars, DiskInv, TypeOK, CallAt, BytesAt, AtCylinder, CopyThisIter,
                Remaining
  <2>2. UNCHANGED ImplementsDisk!diskVars
    BY <1>2 DEF vars, callVars, ImplementsDisk!diskVars
  <2> QED BY <1>1, <2>1, <2>2 DEF DiskInv
<1>3. CASE Next
  <2>1. StepOK
    BY <1>3, InitDiskStep, DiskCallDisk, IrqWaitDisk, ResetDisk, IssuePositioningDisk,
       SensePositioningDisk, DiskLoopDisk, IssueTransferDisk, TransferDoneDisk, HandlerDisk,
       ChipDisk, RefusesDisk DEF Next, Driver
  <2> QED BY <1>1, <2>1 DEF StepOK, DiskInv
<1> QED BY <1>2, <1>3

\* Every variable of the driver and the controller keeps its type; in particular a call
\* never runs past the length it was asked for nor names a cylinder the disk lacks.
THEOREM FdcTypeCorrect == Spec => []TypeOK
<1>1. Init => DiskInv
  BY InitDisk
<1>2. DiskInv /\ [Next]_vars => DiskInv'
  BY DiskNextInv
<1>3. DiskInv => TypeOK
  BY DEF DiskInv
<1> QED BY <1>1, <1>2, <1>3, PTL DEF Spec

\* fdc_disk_read and fdc_disk_write implement the disk of module Disk: a call moves a
\* prefix cylinder by cylinder, touches nothing outside the cylinder it is at, and returns
\* 0 only when everything has arrived, whatever fails and whenever an interrupt comes that
\* belongs to no command, for a disk of any size.
THEOREM FdcImplementsDisk == Spec => DiskPromise
<1>1. Init => DiskInv /\ ImplementsDisk!DiskInit
  BY InitDisk
<1>2. DiskInv /\ [Next]_vars => DiskInv' /\ [ImplementsDisk!DiskNext]_ImplementsDisk!diskVars
  BY DiskNextInv
<1>3. Spec => ImplementsDisk!DiskInit /\ [][ImplementsDisk!DiskNext]_ImplementsDisk!diskVars
  BY <1>1, <1>2, PTL DEF Spec
<1> QED BY <1>3 DEF DiskPromise, ImplementsDisk!DiskSpec
=============================================================================
