------------------------------- MODULE Sound -------------------------------
(***************************************************************************)
(* The Sound Blaster driver, sb16.c, between the programs that call        *)
(* soundctrl and shutdown, the file table of the kernel process through    *)
(* which it reads the sound file, and the card, which plays the two halves *)
(* of dma_buffer in turn and interrupts whichever process is current.      *)
(* System calls and the handler run with interrupts disabled; a pending    *)
(* interrupt is taken before a program runs on.                            *)
(***************************************************************************)
EXTENDS FileTable

CONSTANTS
    Users,          \* processes besides the kernel's
    Wavs,           \* sound file -> [riff, bits, length, bad]: riff for a header that can be
                    \* read and that play_wav accepts, the length of the data, and the first
                    \* byte of it in a block that does not exist
    HEADER,         \* bytes in front of the data
    CHUNK_SIZE      \* half of dma_buffer

ASSUME SoundConstants ==
    /\ CHUNK_SIZE \in Nat \ {0}
    /\ HEADER \in Nat
    /\ DOMAIN Wavs \subseteq Nat
    /\ \A w \in DOMAIN Wavs : Wavs[w].length \in Nat /\ Wavs[w].bad \in Nat
    /\ "kernel" \notin Users

VARIABLES
    current_process,
    open_files,     \* per process: its table; positions count from the start of the data
    status,         \* status and current_block (0 first, 1 second) of sb16.c
    dma_buffer,     \* what was read into each half: <<file, position>>, or silence
    card,           \* external: transfer under way, auto-init, paused, the half it plays,
                    \* a pending interrupt
    asked,          \* history: the file last played, and current_block when it began
    heard           \* history: number of the chunk that the card plays, as far as there are

vars == <<current_process, open_files, status, dma_buffer, card, asked, heard>>

Procs   == Users \cup {"kernel"}
Silence == <<0, 0>>

\* The state that one call of the driver passes through, and its end.
Here == [files |-> open_files, status |-> status, dma |-> dma_buffer, card |-> card]
Become(x) ==
    /\ open_files' = x.files /\ status' = x.status
    /\ dma_buffer' = x.dma   /\ card' = x.card

\* A file without bad blocks.
Readable(w) == Wavs[w].bad >= Wavs[w].length

\* The bytes that a read of n bytes is after.
Wanted(f, n) ==
    LET left == Wavs[f.inode].length - f.pos
    IN  IF left < 0 THEN 0 ELSE IF n > left THEN left ELSE n

\* syscall_read of n bytes of the kernel's descriptor: what it returns
BytesRead(x, n) ==
    LET f == x.files["kernel"][x.status.fd]
        wanted == Wanted(f, n)
    IN  IF wanted > 0 /\ f.pos + wanted > Wavs[f.inode].bad THEN -1 ELSE wanted

\* The position after it.  It moves by -1 when the read fails, which at the start of the
\* file wraps around to far behind its end.
PosAfter(f, got) ==
    IF got = -1 /\ f.pos = -HEADER THEN Wavs[f.inode].length + 1 ELSE f.pos + got

\* What the read does: the position moves, and the bytes up to a bad block arrive.
ReadInto(x, n, halves) ==
    LET f == x.files["kernel"][x.status.fd]
        got == BytesRead(x, n)
        copied == IF got = -1 THEN Wavs[f.inode].bad - f.pos ELSE got
    IN  [x EXCEPT !.files["kernel"][x.status.fd].pos = PosAfter(f, got),
                  !.dma = [b \in {0, 1} |->
                             IF b \in DOMAIN halves /\ halves[b] * CHUNK_SIZE < copied
                             THEN <<f.inode, f.pos + halves[b] * CHUNK_SIZE>> ELSE x.dma[b]]]

\* bytes_read is a uint32_t, in which a failed read is the largest number: whether it is
\* less than a chunk.
Short(got) == got \in 0 .. CHUNK_SIZE - 1

\* dma_start: the transfer begins at the first half, over and over.
DmaStart(x) == [x EXCEPT !.card.half = 0]

\* sb16_start_playback: an auto-init transfer of that many samples, 8 or 16 bits wide.  Of
\* -1 the low 16 bits are kept, which are as many as both halves hold.
StartPlayback(x, size) ==
    [x EXCEPT !.card.on = TRUE, !.card.auto = TRUE, !.card.paused = FALSE,
              !.card.wide = ~x.status.mode8 \/ size < 0]

\* sb16_stop_playback_after: the transfer ends with the half it is at.
StopPlaybackAfter(x) == [x EXCEPT !.card.auto = FALSE]

\* reset_playback closes the descriptor in the table of the current process.
ResetPlayback(x) ==
    [x EXCEPT !.status.playing = FALSE, !.status.current_block = 0,
              !.dma = [b \in {0, 1} |-> Silence],
              !.files[current_process] = Closed(@, x.status.fd)]

StopPlayback(x) == ResetPlayback([x EXCEPT !.card.on = FALSE, !.card.paused = FALSE])

\* play_file of the kernel's descriptor fd; other widths than 8 and 16 are refused and
\* the file stays open.
PlayFile(x, fd, w) ==
    LET y == [x EXCEPT !.status.mode8 = @ \/ Wavs[w].bits = 8,
                       !.status.signed = @ \/ Wavs[w].bits = 16,
                       !.status.channel = IF Wavs[w].bits = 8 THEN 1 ELSE 5,
                       !.status.fd = fd, !.status.playing = TRUE]
        z == StartPlayback(DmaStart(ReadInto(y, 2 * CHUNK_SIZE, [b \in {0, 1} |-> b])),
                           CHUNK_SIZE)
    IN  IF Wavs[w].bits \notin {8, 16} THEN x
        ELSE IF Short(BytesRead(y, 2 * CHUNK_SIZE)) THEN StopPlaybackAfter(z) ELSE z

\* play_wav: a file that is not a sound file is closed again; status.fd keeps its number.
PlayWav(x, w) ==
    LET fd == FindNewFd(x.files["kernel"])
        opened == [x EXCEPT !.files["kernel"] = Opened(@, NewFile("file", w)), !.status.fd = fd]
    IN  IF x.status.playing THEN x
        ELSE IF fd < 0 \/ ~Wavs[w].riff
             THEN [opened EXCEPT !.files["kernel"] = Closed(@, fd)]
        ELSE PlayFile(opened, fd, w)

-----------------------------------------------------------------------------
(* System calls of the current program, and the scheduler                  *)

Program == current_process \in Users /\ ~card.irq

\* Whether a call has started w, as opposed to being refused.
Asked(x, w) ==
    IF x.status.playing THEN [wav |-> w, block |-> x.status.current_block] ELSE asked

\* MUTANT of CtrlPlay: a second file is not refused while one plays.
CtrlPlayAlways(w) ==
    LET x == PlayWav([Here EXCEPT !.status.playing = FALSE], w) IN
    /\ Program
    /\ Become([x EXCEPT !.status.playing = x.status.playing \/ status.playing])
    /\ asked' = IF status.playing THEN asked ELSE Asked(x, w)
    /\ heard' = IF status.playing THEN heard ELSE 0
    /\ UNCHANGED current_process

\* soundctrl(CTRL_PLAY_FILE, w)
CtrlPlay(w) ==
    /\ Program
    /\ ~status.playing
    /\ Become(PlayWav(Here, w))
    /\ asked' = Asked(PlayWav(Here, w), w)
    /\ heard' = 0
    /\ UNCHANGED current_process

CtrlPause ==
    /\ Program /\ status.playing
    /\ Become([Here EXCEPT !.card.paused = TRUE])
    /\ UNCHANGED <<current_process, asked, heard>>

CtrlResume ==
    /\ Program /\ status.playing
    /\ Become([Here EXCEPT !.card.paused = FALSE])
    /\ UNCHANGED <<current_process, asked, heard>>

\* soundctrl(CTRL_STOP), whether or not anything plays
CtrlStop ==
    /\ Program
    /\ Become(StopPlayback(Here))
    /\ UNCHANGED <<current_process, asked, heard>>

\* syscall_shutdown stops what plays and starts the farewell; then the caller waits
\* for a key and the machine goes off.
SyscallShutdown(w) ==
    /\ Program
    /\ Become(PlayWav(StopPlayback(Here), w))
    /\ asked' = Asked(PlayWav(StopPlayback(Here), w), w)
    /\ heard' = 0
    /\ UNCHANGED current_process

\* The program opens or closes a file of its own.
UserOpen ==
    /\ Program
    /\ open_files' = [open_files EXCEPT ![current_process] = Opened(@, NewFile("rtc", 0))]
    /\ UNCHANGED <<current_process, status, dma_buffer, card, asked, heard>>

UserClose(fd) ==
    /\ Program
    /\ open_files' = [open_files EXCEPT ![current_process] = Closed(@, fd)]
    /\ UNCHANGED <<current_process, status, dma_buffer, card, asked, heard>>

\* schedule() at a tick, or the kernel's idle loop
Switch(p) ==
    /\ p # current_process
    /\ current_process' = p
    /\ UNCHANGED <<open_files, status, dma_buffer, card, asked, heard>>

-----------------------------------------------------------------------------
(* The card and its interrupt                                              *)

\* The half is played.  A wide transfer, such as one of 16 bits, whose count is in samples,
\* interrupts only when both halves are played.
HalfPlayed ==
    /\ card.on /\ ~card.paused /\ ~card.irq
    /\ card' = [card EXCEPT !.irq = TRUE, !.on = card.auto,
                            !.half = IF card.wide THEN @ ELSE 1 - @]
    /\ heard' = IF status.playing /\ heard * CHUNK_SIZE < Wavs[asked.wav].length
                THEN heard + 1 ELSE heard
    /\ UNCHANGED <<current_process, open_files, status, dma_buffer, asked>>

OtherBlock(x) == [x EXCEPT !.status.current_block = 1 - @]

\* MUTANT of NextChunk: the half is filled after it has been given up.
NextChunkLate(x) ==
    LET n == BytesRead(x, CHUNK_SIZE)
        y == ReadInto(OtherBlock(x), CHUNK_SIZE,
                      [b \in {1 - x.status.current_block} |-> 0])
    IN  IF n = 0 THEN StopPlayback(ResetPlayback(x))
        ELSE StartPlayback(IF Short(n) THEN ResetPlayback(StopPlaybackAfter(y)) ELSE y, n)

\* MUTANT of NextChunk: the end of the file goes unnoticed.
NextChunkOnly(x) ==
    LET y == ReadInto(x, CHUNK_SIZE, [b \in {x.status.current_block} |-> 0])
    IN  StartPlayback(OtherBlock(y), CHUNK_SIZE)

\* sb16_handler while a file plays: the next chunk goes into the half that is free.
\* A chunk cut short is the last, nothing at all ends the playback at once, and a failed
\* read passes for a chunk.
NextChunk(x) ==
    LET n == BytesRead(x, CHUNK_SIZE)
        y == ReadInto(x, CHUNK_SIZE, [b \in {x.status.current_block} |-> 0])
    IN  IF n = 0 THEN StopPlayback(ResetPlayback(x))
        ELSE StartPlayback(OtherBlock(IF Short(n)
                                      THEN ResetPlayback(StopPlaybackAfter(y)) ELSE y), n)

Sb16Handler ==
    /\ card.irq
    /\ LET acked == [Here EXCEPT !.card.irq = FALSE]
       IN  Become(IF status.playing THEN NextChunk(acked) ELSE acked)
    /\ UNCHANGED <<current_process, asked, heard>>

-----------------------------------------------------------------------------
\* init_sb16, once the kernel process and the programs have their tables
Init ==
    /\ current_process \in Procs
    /\ open_files = [p \in Procs |-> NewTable]
    /\ status = [fd |-> 0, playing |-> FALSE, mode8 |-> FALSE, signed |-> FALSE, channel |-> 1,
                 current_block |-> 0]
    /\ dma_buffer = [b \in {0, 1} |-> Silence]
    /\ card = [on |-> FALSE, auto |-> FALSE, paused |-> FALSE, wide |-> FALSE, half |-> 0,
               irq |-> FALSE]
    /\ asked = [wav |-> 0, block |-> 0]
    /\ heard = 0

Next ==
    \/ \E w \in DOMAIN Wavs : CtrlPlay(w) \/ SyscallShutdown(w)
    \/ CtrlPause \/ CtrlResume \/ CtrlStop
    \/ UserOpen \/ \E fd \in Fds : UserClose(fd)
    \/ \E p \in Procs : Switch(p)
    \/ HalfPlayed \/ Sb16Handler

Spec == Init /\ [][Next]_vars

\* The card goes on playing, and its interrupt is taken.
FairSpec == Spec /\ WF_vars(HalfPlayed) /\ WF_vars(Sb16Handler)

-----------------------------------------------------------------------------
(* Properties.                                                             *)

\* While a file plays, the descriptor that the interrupt handler reads is open in the
\* kernel's table, is that file and, if it has no bad block, is positioned within it, whatever programs play, stop,
\* open and close and whichever process the interrupts hit.
PlayingFileOpen ==
    status.playing => LET f == open_files["kernel"][status.fd]
                      IN  /\ f.ops = "file" /\ f.inode = asked.wav
                          /\ Readable(asked.wav) => f.pos \in 0 .. Wavs[asked.wav].length

\* A readable 8-bit file that began with current_block at the first half is heard in order: the
\* half the card has come to holds the chunk that is due, never one already played or
\* one that the handler has put in its place.  (After a file that ended in a short chunk
\* current_block is left at the second half, and the next file is not played so.)
HeardInOrder ==
    status.playing /\ Readable(asked.wav) /\ Wavs[asked.wav].bits = 8 /\ asked.block = 0
       /\ heard * CHUNK_SIZE < Wavs[asked.wav].length =>
          dma_buffer[card.half] = <<asked.wav, heard * CHUNK_SIZE>>

\* The playback of a readable file ends, unless it is paused: the handler finds the end of
\* the file.
PlaybackEnds == status.playing ~> (~status.playing \/ card.paused \/ ~Readable(asked.wav))

\* Every playback ends, also that of a file with a bad block.
EveryPlaybackEnds == status.playing ~> (~status.playing \/ card.paused)

\* When a playback is over the card stops: "there are no more chunks after this one; stop
\* playback after the current block" (sb16.c:534).
CardStops == ~status.playing ~> (~card.on \/ status.playing)

\* A program's descriptor is closed by the program alone: descriptors are "specific to
\* the current process" (syscall.c:267).
UsersFilesKept ==
    [][\A u \in Users, fd \in Fds :
         open_files[u][fd] # NoFile /\ open_files'[u][fd] = NoFile => UserClose(fd)]_vars

-----------------------------------------------------------------------------
(* The inductive strengthening of PlayingFileOpen and HeardInOrder.        *)

States ==
    [files  : [Procs -> [Fds -> [ops : {"none", "stdin", "stdout", "rtc", "file"},
                                 inode : Nat, pos : Int]]],
     status : [fd : Int, playing : BOOLEAN, mode8 : BOOLEAN, signed : BOOLEAN, channel : {1, 5},
               current_block : {0, 1}],
     dma    : [{0, 1} -> Nat \X Int],
     card   : [on : BOOLEAN, auto : BOOLEAN, paused : BOOLEAN, wide : BOOLEAN, half : {0, 1},
               irq : BOOLEAN]]

\* The place in a file of that length behind its first k chunks.
Behind(k, length) == IF k * CHUNK_SIZE < length THEN k * CHUNK_SIZE ELSE length

\* Where the card, the handler and the reading of the file w are to each other when chunk k
\* is due: between interrupts the card is at the half that is filled next, and the other one
\* is filled already; while one is pending it has gone on to that other half.
InStep(x, w, k) ==
    LET pos  == x.files["kernel"][x.status.fd].pos
        len  == Wavs[w].length
        next == x.status.current_block
    IN  /\ x.status.mode8 /\ ~x.card.wide
        /\ x.card.irq  => pos = Behind(k + 1, len) /\ x.card.half = 1 - next
        /\ ~x.card.irq => /\ pos = Behind(k + 2, len) /\ x.card.half = next
                          /\ (k + 1) * CHUNK_SIZE < len => x.dma[1 - next] = <<w, (k + 1) * CHUNK_SIZE>>
        /\ k * CHUNK_SIZE < len => x.dma[x.card.half] = <<w, k * CHUNK_SIZE>>

\* A state of the driver in which, if anything plays, it is the file a.wav, begun at half
\* a.block, of which chunk k is due.
Playing(x, a, k) ==
    x.status.playing =>
       /\ a.wav \in DOMAIN Wavs /\ x.status.fd \in Fds
       /\ LET f == x.files["kernel"][x.status.fd]
          IN  /\ f.ops = "file" /\ f.inode = a.wav
              /\ Readable(a.wav) => f.pos \in 0 .. Wavs[a.wav].length
       /\ Readable(a.wav) /\ Wavs[a.wav].bits = 8 /\ a.block = 0 => InStep(x, a.wav, k)

SoundInv ==
    /\ current_process \in Procs /\ Here \in States /\ heard \in Nat
    /\ Playing(Here, asked, heard)
=============================================================================
