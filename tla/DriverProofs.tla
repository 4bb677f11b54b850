---------------------------- MODULE DriverProofs ----------------------------
(***************************************************************************)
(* Two device drivers that share a device among programs.                  *)
(*                                                                         *)
(* Sound: for any sound files, any half of the DMA buffer and any number   *)
(* of programs, the file that plays stays open and is heard in order.      *)
(* SoundInv says where the card, the handler and the reading of the file   *)
(* are to each other.                                                      *)
(*                                                                         *)
(* Rtc, the clock: for any highest rate, descriptors and numbers written,  *)
(* its counters count the users.                                           *)
(***************************************************************************)
EXTENDS Sound, Rtc, FiniteSetTheorems, WellFoundedInduction, TLAPS

-----------------------------------------------------------------------------
(* Sound: the pieces of a state.                                           *)

Kinds       == {"none", "stdin", "stdout", "rtc", "file"}
Entries     == [ops : Kinds, inode : Nat, pos : Int]
StatusTypes == [fd : Int, playing : BOOLEAN, mode8 : BOOLEAN, signed : BOOLEAN, channel : {1, 5},
                current_block : {0, 1}]
CardTypes   == [on : BOOLEAN, auto : BOOLEAN, paused : BOOLEAN, wide : BOOLEAN, half : {0, 1},
                irq : BOOLEAN]
DmaTypes    == [{0, 1} -> Nat \X Int]
TableTypes  == [Procs -> [Fds -> Entries]]

LEMMA StatesAre ==
  States = [files : TableTypes, status : StatusTypes, dma : DmaTypes, card : CardTypes]
BY DEF States, TableTypes, Entries, Kinds, StatusTypes, DmaTypes, CardTypes

\* A state put together from its parts.
LEMMA StateOf ==
  ASSUME NEW x \in States
  PROVE  /\ x.files \in TableTypes /\ x.status \in StatusTypes
         /\ x.dma \in DmaTypes /\ x.card \in CardTypes
         /\ x = [files |-> x.files, status |-> x.status, dma |-> x.dma, card |-> x.card]
BY StatesAre

LEMMA StateWith ==
  ASSUME NEW files \in TableTypes, NEW status_ \in StatusTypes, NEW dma \in DmaTypes,
         NEW card_ \in CardTypes
  PROVE  [files |-> files, status |-> status_, dma |-> dma, card |-> card_] \in States
BY StatesAre

\* The end of a call is the state it has come to.
LEMMA BecomeFacts ==
  ASSUME NEW x \in States, Become(x)
  PROVE  Here' = x
<1>1. Here' = [files |-> open_files', status |-> status', dma |-> dma_buffer', card |-> card']
  BY DEF Here
<1>2. /\ open_files' = x.files /\ status' = x.status /\ dma_buffer' = x.dma /\ card' = x.card
  BY DEF Become
<1> QED BY <1>1, <1>2, StateOf

\* Where chunks begin.
LEMMA ChunkFacts ==
  ASSUME NEW k \in Nat
  PROVE  /\ k * CHUNK_SIZE \in Nat /\ CHUNK_SIZE \in Nat \ {0}
         /\ (k + 1) * CHUNK_SIZE = k * CHUNK_SIZE + CHUNK_SIZE
<1>1. PICK C \in Nat \ {0} : C = CHUNK_SIZE
  BY SoundConstants
<1>2. k * C \in Nat /\ (k + 1) * C = k * C + C
  BY <1>1
<1> QED BY <1>1, <1>2

\* A place in a file.
LEMMA BehindFacts ==
  ASSUME NEW k \in Nat, NEW len \in Nat
  PROVE  Behind(k, len) \in 0 .. len
BY ChunkFacts DEF Behind

-----------------------------------------------------------------------------
(* Sound: what the parts of a call do.                                     *)

\* The part of syscall_read that the driver sees when the file f can be read.
WellRead(x, n, halves, f, got) ==
  /\ got \in Nat
  /\ got = IF n > Wavs[f.inode].length - f.pos THEN Wavs[f.inode].length - f.pos ELSE n
  /\ f.pos + got \in 0 .. Wavs[f.inode].length /\ PosAfter(f, got) = f.pos + got
  /\ \A b \in {0, 1} : ReadInto(x, n, halves).dma[b] =
       IF b \in DOMAIN halves /\ halves[b] * CHUNK_SIZE < got
       THEN <<f.inode, f.pos + halves[b] * CHUNK_SIZE>> ELSE x.dma[b]

\* And what it sees in any case.
ReadDone(x, n, halves, f, got) ==
  /\ got = BytesRead(x, n)
  /\ ReadInto(x, n, halves) \in States
  /\ ReadInto(x, n, halves).status = x.status /\ ReadInto(x, n, halves).card = x.card
  /\ ReadInto(x, n, halves).files["kernel"][x.status.fd] =
       [ops |-> f.ops, inode |-> f.inode, pos |-> PosAfter(f, got)]
  /\ \A b \in {0, 1} \ DOMAIN halves : ReadInto(x, n, halves).dma[b] = x.dma[b]
  /\ Readable(f.inode) /\ f.pos \in 0 .. Wavs[f.inode].length => WellRead(x, n, halves, f, got)

LEMMA ReadIntoFacts ==
  ASSUME NEW x \in States, NEW n \in Nat, NEW D \in SUBSET {0, 1}, NEW halves \in [D -> Nat],
         x.status.fd \in Fds, NEW f, f = x.files["kernel"][x.status.fd],
         f.inode \in DOMAIN Wavs
  PROVE  \E got \in Int : ReadDone(x, n, halves, f, got)
<1>1. PICK fd \in Fds : fd = x.status.fd
  OBVIOUS
<1>2. /\ x.files \in TableTypes /\ x.status \in StatusTypes /\ x.dma \in DmaTypes
      /\ x.card \in CardTypes /\ "kernel" \in Procs
      /\ x = [files |-> x.files, status |-> x.status, dma |-> x.dma, card |-> x.card]
  BY StateOf DEF Procs
<1>3. f \in Entries
  BY <1>1, <1>2 DEF TableTypes
<1>4. f = [ops |-> f.ops, inode |-> f.inode, pos |-> f.pos] /\ f.pos \in Int /\ f.inode \in Nat
      /\ f.ops \in Kinds
  BY <1>3 DEF Entries
<1>5. PICK len \in Nat : len = Wavs[f.inode].length
  BY SoundConstants
<1>6. PICK bad \in Nat : bad = Wavs[f.inode].bad
  BY SoundConstants
<1>7. PICK a \in Int : a = f.pos
  BY <1>4
<1>8. PICK wanted \in Nat :
        wanted = IF len - a < 0 THEN 0 ELSE IF n > len - a THEN len - a ELSE n
  <2>1. (IF len - a < 0 THEN 0 ELSE IF n > len - a THEN len - a ELSE n) \in Nat
    OBVIOUS
  <2> QED BY <2>1
<1>9. Wanted(f, n) = wanted
  BY <1>5, <1>7, <1>8 DEF Wanted
<1>10. PICK got \in Int : got = IF wanted > 0 /\ a + wanted > bad THEN -1 ELSE wanted
  OBVIOUS
<1>11. got = BytesRead(x, n)
  BY <1>1, <1>6, <1>7, <1>9, <1>10 DEF BytesRead
<1>12. PICK p \in Int : p = PosAfter(f, got)
  <2>1. PosAfter(f, got) = IF got = -1 /\ a = -HEADER THEN len + 1 ELSE a + got
    BY <1>5, <1>7 DEF PosAfter
  <2> QED BY <2>1
<1>13. PICK copied \in Int : copied = IF got = -1 THEN bad - a ELSE got
  <2>1. PICK d \in Int : d = bad - a
    OBVIOUS
  <2>2. (IF got = -1 THEN d ELSE got) \in Int
    OBVIOUS
  <2> QED BY <2>1, <2>2, Zenon
<1>14. PICK g : g = [ops |-> f.ops, inode |-> f.inode, pos |-> p]
  OBVIOUS
<1>15. g \in Entries /\ g = [f EXCEPT !.pos = p]
  <2>1. [f EXCEPT !.pos = p] = [ops |-> f.ops, inode |-> f.inode, pos |-> p]
    BY <1>3 DEF Entries
  <2> QED BY <1>4, <1>14, <2>1 DEF Entries
<1>16. PICK files : files = [x.files EXCEPT !["kernel"] = [x.files["kernel"] EXCEPT ![fd] = g]]
  OBVIOUS
<1>17. files \in TableTypes /\ files["kernel"][fd] = g
  BY <1>1, <1>2, <1>15, <1>16 DEF TableTypes
<1>18. PICK dma : dma = [b \in {0, 1} |->
                          IF b \in D /\ halves[b] * CHUNK_SIZE < copied
                          THEN <<f.inode, f.pos + halves[b] * CHUNK_SIZE>> ELSE x.dma[b]]
  OBVIOUS
<1>19. dma \in DmaTypes
  <2>1. \A b \in D : f.pos + halves[b] * CHUNK_SIZE \in Int
    <3>1. \A b \in D : halves[b] * CHUNK_SIZE \in Nat
      BY ChunkFacts
    <3> QED BY <1>4, <3>1
  <2>2. \A b \in {0, 1} : x.dma[b] \in Nat \X Int
    BY <1>2 DEF DmaTypes
  <2>3. \A b \in D : <<f.inode, f.pos + halves[b] * CHUNK_SIZE>> \in Nat \X Int
    BY <1>4, <2>1
  <2>4. \A b \in {0, 1} : dma[b] \in Nat \X Int
    BY <1>18, <2>2, <2>3
  <2> QED BY <1>18, <2>4 DEF DmaTypes
<1>20. DOMAIN halves = D
  OBVIOUS
<1>21. ReadInto(x, n, halves) =
         [x EXCEPT !.files = [x.files EXCEPT !["kernel"] = [x.files["kernel"] EXCEPT
                                ![fd] = [f EXCEPT !.pos = p]]],
                   !.dma = dma]
  BY <1>1, <1>6, <1>7, <1>11, <1>12, <1>13, <1>18, <1>20 DEF ReadInto
<1>22. ReadInto(x, n, halves) =
         [files |-> files, status |-> x.status, dma |-> dma, card |-> x.card]
  BY <1>2, <1>15, <1>16, <1>21
<1>23. ReadInto(x, n, halves) \in States
  BY <1>2, <1>17, <1>19, <1>22, StateWith
<1>24. PICK y : y = ReadInto(x, n, halves)
  OBVIOUS
<1>25. y.status = x.status /\ y.card = x.card /\ y.files["kernel"][fd] = g /\ y.dma = dma
  BY <1>17, <1>22, <1>24
<1>26. \A b \in {0, 1} \ DOMAIN halves : y.dma[b] = x.dma[b]
  BY <1>18, <1>20, <1>25
<1>27. ASSUME Readable(f.inode), f.pos \in 0 .. Wavs[f.inode].length
       PROVE  WellRead(x, n, halves, f, got)
  <2>1. bad >= len /\ a \in 0 .. len
    BY <1>5, <1>6, <1>7, <1>27 DEF Readable
  <2>2. /\ got = wanted /\ got \in Nat /\ got # -1 /\ a + got \in 0 .. len
        /\ got = IF n > len - a THEN len - a ELSE n
    BY <1>8, <1>10, <2>1
  <2>3. PosAfter(f, got) = f.pos + got /\ copied = got
    BY <1>7, <1>13, <2>2 DEF PosAfter
  <2>4. \A b \in {0, 1} : y.dma[b] =
          IF b \in DOMAIN halves /\ halves[b] * CHUNK_SIZE < got
          THEN <<f.inode, f.pos + halves[b] * CHUNK_SIZE>> ELSE x.dma[b]
    BY <1>18, <1>20, <1>25, <2>3
  <2> QED BY <1>5, <1>7, <1>24, <2>2, <2>3, <2>4 DEF WellRead
<1>28. ReadDone(x, n, halves, f, got)
  BY <1>1, <1>11, <1>12, <1>14, <1>23, <1>24, <1>25, <1>26, <1>27, Zenon DEF ReadDone
<1> QED BY <1>28

\* The parts that leave the files alone.
LEMMA DmaStartFacts ==
  ASSUME NEW x \in States
  PROVE  /\ DmaStart(x) \in States
         /\ DmaStart(x).files = x.files /\ DmaStart(x).status = x.status /\ DmaStart(x).dma = x.dma
         /\ DmaStart(x).card = [x.card EXCEPT !.half = 0]
<1>1. DmaStart(x) = [files |-> x.files, status |-> x.status, dma |-> x.dma,
                     card |-> [x.card EXCEPT !.half = 0]]
  BY StateOf DEF DmaStart
<1>2. [x.card EXCEPT !.half = 0] \in CardTypes
  BY StateOf DEF CardTypes
<1> QED BY <1>1, <1>2, StateOf, StateWith

LEMMA StartPlaybackFacts ==
  ASSUME NEW x \in States, NEW n \in Int
  PROVE  /\ StartPlayback(x, n) \in States
         /\ StartPlayback(x, n).files = x.files /\ StartPlayback(x, n).status = x.status
         /\ StartPlayback(x, n).dma = x.dma
         /\ StartPlayback(x, n).card.half = x.card.half /\ StartPlayback(x, n).card.irq = x.card.irq
         /\ x.status.mode8 /\ ~(n < 0) => ~StartPlayback(x, n).card.wide
<1>1. PICK w \in BOOLEAN : w = (~x.status.mode8 \/ n < 0)
  OBVIOUS
<1>2. PICK c : c = [x.card EXCEPT !.on = TRUE, !.auto = TRUE, !.paused = FALSE, !.wide = w]
  OBVIOUS
<1>3. StartPlayback(x, n) = [files |-> x.files, status |-> x.status, dma |-> x.dma, card |-> c]
  <2>1. StartPlayback(x, n) = [x EXCEPT !.card = c]
    BY <1>1, <1>2 DEF StartPlayback
  <2> QED BY <2>1, StateOf
<1>4. c \in CardTypes /\ c.half = x.card.half /\ c.irq = x.card.irq /\ c.wide = w
  BY <1>2, StateOf DEF CardTypes
<1>5. StartPlayback(x, n) \in States
  BY <1>3, <1>4, StateOf, StateWith
<1>6. PICK y : y = StartPlayback(x, n)
  OBVIOUS
<1>7. y.files = x.files /\ y.status = x.status /\ y.dma = x.dma /\ y.card = c
  BY <1>3, <1>6
<1> QED BY <1>1, <1>4, <1>5, <1>6, <1>7

LEMMA StopPlaybackAfterFacts ==
  ASSUME NEW x \in States
  PROVE  /\ StopPlaybackAfter(x) \in States
         /\ StopPlaybackAfter(x).files = x.files /\ StopPlaybackAfter(x).status = x.status
         /\ StopPlaybackAfter(x).dma = x.dma
         /\ StopPlaybackAfter(x).card.half = x.card.half
         /\ StopPlaybackAfter(x).card.irq = x.card.irq
         /\ StopPlaybackAfter(x).card.wide = x.card.wide
<1>1. PICK c : c = [x.card EXCEPT !.auto = FALSE]
  OBVIOUS
<1>2. StopPlaybackAfter(x) = [files |-> x.files, status |-> x.status, dma |-> x.dma, card |-> c]
  <2>1. StopPlaybackAfter(x) = [x EXCEPT !.card = c]
    BY <1>1 DEF StopPlaybackAfter
  <2> QED BY <2>1, StateOf
<1>3. c \in CardTypes /\ c.half = x.card.half /\ c.irq = x.card.irq /\ c.wide = x.card.wide
  BY <1>1, StateOf DEF CardTypes
<1>4. StopPlaybackAfter(x) \in States
  BY <1>2, <1>3, StateOf, StateWith
<1>5. PICK y : y = StopPlaybackAfter(x)
  OBVIOUS
<1>6. y.files = x.files /\ y.status = x.status /\ y.dma = x.dma /\ y.card = c
  BY <1>2, <1>5
<1> QED BY <1>3, <1>4, <1>5, <1>6

LEMMA OtherBlockFacts ==
  ASSUME NEW x \in States
  PROVE  /\ OtherBlock(x) \in States
         /\ OtherBlock(x).files = x.files /\ OtherBlock(x).card = x.card /\ OtherBlock(x).dma = x.dma
         /\ OtherBlock(x).status = [x.status EXCEPT !.current_block = 1 - x.status.current_block]
<1>1. PICK t : t = [x.status EXCEPT !.current_block = 1 - x.status.current_block]
  OBVIOUS
<1>2. OtherBlock(x) = [files |-> x.files, status |-> t, dma |-> x.dma, card |-> x.card]
  BY <1>1, StateOf DEF OtherBlock
<1>3. t \in StatusTypes
  BY <1>1, StateOf DEF StatusTypes
<1>4. OtherBlock(x) \in States
  BY <1>2, <1>3, StateOf, StateWith
<1> QED BY <1>1, <1>2, <1>4

\* A set of numbers has a least one.
LEMMA LeastNat ==
  ASSUME NEW S \in SUBSET Nat, S # {}
  PROVE  \E n \in S : \A m \in S : n <= m
<1>1. PICK n \in S : \A m \in S : ~(<<m, n>> \in OpToRel(<, Nat))
  BY NatLessThanWellFounded, WFMin
<1>2. \A m \in S : ~(m < n)
  BY <1>1 DEF OpToRel
<1> QED BY <1>2

\* A table in which a descriptor is closed, or a file opened, is a table.
LEMMA TableFacts ==
  ASSUME NEW t \in [Fds -> Entries]
  PROVE  /\ NoFile \in Entries
         /\ \A fd : Closed(t, fd) \in [Fds -> Entries]
         /\ \A f \in Entries : Opened(t, f) \in [Fds -> Entries]
         /\ FindNewFd(t) \in Int
         /\ \A f \in Entries : ~(FindNewFd(t) < 0) => FindNewFd(t) \in Fds /\ Opened(t, f)[FindNewFd(t)] = f
<1>1. NoFile \in Entries
  BY DEF NoFile, Entries, Kinds
<1>2. \A fd : Closed(t, fd) \in [Fds -> Entries]
  BY <1>1 DEF Closed, ValidFd
<1>3. FindNewFd(t) \in Fds \/ FindNewFd(t) = -1
  <2>1. CASE \E fd \in Fds : t[fd] = NoFile
    <3> DEFINE S == {fd \in Fds : t[fd] = NoFile}
    <3>1. S \subseteq Nat /\ S # {}
      BY <2>1, FileTableConstants DEF Fds
    <3>4. PICK y \in S : \A z \in S : y <= z
      <4> HIDE DEF S
      <4> QED BY <3>1, LeastNat
    <3>5. \E fd \in Fds : t[fd] = NoFile /\ \A g \in Fds : t[g] = NoFile => fd <= g
      BY <3>4
    <3> QED BY <2>1, <3>5 DEF FindNewFd
  <2>2. CASE ~\E fd \in Fds : t[fd] = NoFile
    BY <2>2 DEF FindNewFd
  <2> QED BY <2>1, <2>2
<1>4. FindNewFd(t) \in Int /\ (~(FindNewFd(t) < 0) => FindNewFd(t) \in Fds)
  BY <1>3, FileTableConstants DEF Fds
<1>5. \A f \in Entries : Opened(t, f) \in [Fds -> Entries]
  BY <1>4 DEF Opened
<1>6. \A f \in Entries : ~(FindNewFd(t) < 0) => Opened(t, f)[FindNewFd(t)] = f
  BY <1>4 DEF Opened
<1> QED BY <1>1, <1>2, <1>4, <1>5, <1>6

\* reset_playback, in whichever process it closes the descriptor.
LEMMA ResetPlaybackFacts ==
  ASSUME NEW x \in States, current_process \in Procs
  PROVE  /\ ResetPlayback(x) \in States /\ ~ResetPlayback(x).status.playing
         /\ ResetPlayback(x).card = x.card
<1>1. PICK t : t = [x.status EXCEPT !.playing = FALSE, !.current_block = 0]
  OBVIOUS
<1>2. PICK d : d = [b \in {0, 1} |-> Silence]
  OBVIOUS
<1>3. PICK files : files = [x.files EXCEPT ![current_process] =
                              Closed(x.files[current_process], x.status.fd)]
  OBVIOUS
<1>4. ResetPlayback(x) = [files |-> files, status |-> t, dma |-> d, card |-> x.card]
  <2>1. ResetPlayback(x) = [x EXCEPT !.status = t, !.dma = d, !.files = files]
    BY <1>1, <1>2, <1>3, StateOf DEF ResetPlayback
  <2> QED BY <2>1, StateOf
<1>5. t \in StatusTypes /\ t.playing = FALSE
  BY <1>1, StateOf DEF StatusTypes
<1>6. d \in DmaTypes
  BY <1>2 DEF DmaTypes, Silence
<1>7. files \in TableTypes
  <2>1. x.files \in TableTypes
    BY StateOf
  <2>2. x.files[current_process] \in [Fds -> Entries]
    BY <2>1 DEF TableTypes
  <2>3. Closed(x.files[current_process], x.status.fd) \in [Fds -> Entries]
    BY <2>2, TableFacts
  <2> QED BY <1>3, <2>1, <2>3 DEF TableTypes
<1>8. ResetPlayback(x) \in States
  BY <1>4, <1>5, <1>6, <1>7, StateOf, StateWith
<1>9. PICK y : y = ResetPlayback(x)
  OBVIOUS
<1>10. y.status = t /\ y.card = x.card
  BY <1>4, <1>9
<1> QED BY <1>5, <1>8, <1>9, <1>10

LEMMA StopPlaybackFacts ==
  ASSUME NEW x \in States, current_process \in Procs
  PROVE  /\ StopPlayback(x) \in States /\ ~StopPlayback(x).status.playing
         /\ StopPlayback(x).card.irq = x.card.irq
<1>1. PICK c : c = [x.card EXCEPT !.on = FALSE, !.paused = FALSE]
  OBVIOUS
<1>2. PICK y : y = [x EXCEPT !.card.on = FALSE, !.card.paused = FALSE]
  OBVIOUS
<1>3. y = [files |-> x.files, status |-> x.status, dma |-> x.dma, card |-> c]
  <2>1. y = [x EXCEPT !.card = c]
    BY <1>1, <1>2, StateOf
  <2> QED BY <2>1, StateOf
<1>4. c \in CardTypes /\ c.irq = x.card.irq
  BY <1>1, StateOf DEF CardTypes
<1>5. y \in States /\ y.card = c
  BY <1>3, <1>4, StateOf, StateWith
<1>6. StopPlayback(x) = ResetPlayback(y)
  BY <1>2 DEF StopPlayback
<1> QED BY <1>4, <1>5, <1>6, ResetPlaybackFacts

\* play_file of a descriptor just opened: chunks 0 and 1 are in place before the card begins.
LEMMA PlayFileFacts ==
  ASSUME NEW x \in States, NEW w \in DOMAIN Wavs, NEW fd \in Fds, ~x.status.playing, ~x.card.irq,
         x.files["kernel"][fd] = NewFile("file", w)
  PROVE  /\ PlayFile(x, fd, w) \in States
         /\ Playing(PlayFile(x, fd, w),
                    [wav |-> w, block |-> PlayFile(x, fd, w).status.current_block], 0)
<1>1. CASE Wavs[w].bits \notin {8, 16}
  BY <1>1 DEF PlayFile, Playing
<1>2. CASE Wavs[w].bits \in {8, 16}
  <2> DEFINE H == [b \in {0, 1} |-> b]
  <2>1. PICK m \in BOOLEAN : m = (x.status.mode8 \/ Wavs[w].bits = 8)
    OBVIOUS
  <2>2. PICK s \in BOOLEAN : s = (x.status.signed \/ Wavs[w].bits = 16)
    OBVIOUS
  <2>3. PICK c \in {1, 5} : c = IF Wavs[w].bits = 8 THEN 1 ELSE 5
    OBVIOUS
  <2>4. PICK t : t = [x.status EXCEPT !.mode8 = m, !.signed = s, !.channel = c, !.fd = fd,
                                      !.playing = TRUE]
    OBVIOUS
  <2>5. t \in StatusTypes /\ t.fd = fd /\ t.mode8 = m
    <3>1. x.status \in StatusTypes /\ fd \in Int
      BY StateOf, FileTableConstants DEF Fds
    <3> QED BY <3>1, <2>4 DEF StatusTypes
  <2>6. PICK y : y = [x EXCEPT !.status.mode8 = @ \/ Wavs[w].bits = 8,
                       !.status.signed = @ \/ Wavs[w].bits = 16,
                       !.status.channel = IF Wavs[w].bits = 8 THEN 1 ELSE 5,
                       !.status.fd = fd, !.status.playing = TRUE]
    OBVIOUS
  <2>7. y = [files |-> x.files, status |-> t, dma |-> x.dma, card |-> x.card]
    <3>1. y = [x EXCEPT !.status.mode8 = m, !.status.signed = s, !.status.channel = c,
                        !.status.fd = fd, !.status.playing = TRUE]
      BY <2>1, <2>2, <2>3, <2>6, StateOf DEF StatusTypes
    <3>2. y = [x EXCEPT !.status = t]
      BY <3>1, <2>4, StateOf
    <3> QED BY <3>2, StateOf
  <2>8. y \in States /\ y.files = x.files /\ y.status = t /\ y.card = x.card
    BY <2>5, <2>7, StateOf, StateWith
  <2>9. PICK f : f = y.files["kernel"][y.status.fd]
    OBVIOUS
  <2>10. f.ops = "file" /\ f.inode = w /\ f.pos = 0
    BY <2>5, <2>8, <2>9 DEF NewFile
  <2>11. PICK len \in Nat : len = Wavs[w].length
    BY SoundConstants
  <2>12. PICK C \in Nat \ {0} : C = CHUNK_SIZE
    BY SoundConstants
  <2>13. H \in [{0, 1} -> Nat] /\ 2 * C \in Nat
    BY <2>12
  <2>14. PICK got \in Int : ReadDone(y, 2 * C, H, f, got)
    <3>1. f.inode \in DOMAIN Wavs /\ y.status.fd \in Fds
      BY <2>5, <2>8, <2>10
    <3>2. PICK n \in Nat : n = 2 * C
      BY <2>13
    <3>3. PICK D \in SUBSET {0, 1} : D = {0, 1}
      OBVIOUS
    <3>4. H \in [D -> Nat]
      BY <2>13, <3>3
    <3> HIDE DEF H
    <3>5. \E got \in Int : ReadDone(y, n, H, f, got)
      BY <2>8, <2>9, <3>1, <3>4, ReadIntoFacts
    <3> QED BY <3>2, <3>5
  <2>15. PICK r : r = ReadInto(y, 2 * C, H)
    OBVIOUS
  <2>16. /\ r \in States /\ r.status = t /\ r.card = x.card
         /\ r.files["kernel"][fd] = [ops |-> "file", inode |-> w, pos |-> PosAfter(f, got)]
    BY <2>5, <2>8, <2>10, <2>14, <2>15 DEF ReadDone
  <2>17. ASSUME Readable(w)
         PROVE  /\ PosAfter(f, got) = got /\ got \in 0 .. len
                /\ got = IF 2 * C > len THEN len ELSE 2 * C
                /\ 0 < len => r.dma[0] = <<w, 0>>
                /\ C < len => r.dma[1] = <<w, C>>
    <3>1. WellRead(y, 2 * C, H, f, got)
      <4>1. Readable(f.inode) /\ f.pos \in 0 .. Wavs[f.inode].length
        BY <2>10, <2>11, <2>17
      <4> HIDE DEF H
      <4> QED BY <2>14, <4>1 DEF ReadDone
    <3>2. 0 \in DOMAIN H /\ H[0] = 0 /\ 1 \in DOMAIN H /\ H[1] = 1
      OBVIOUS
    <3> HIDE DEF H
    <3>3. \A b \in {0, 1} : r.dma[b] =
            IF b \in DOMAIN H /\ H[b] * CHUNK_SIZE < got
            THEN <<f.inode, f.pos + H[b] * CHUNK_SIZE>> ELSE y.dma[b]
      BY <2>15, <3>1, Zenon DEF WellRead
    <3>4. /\ got \in Nat /\ got = IF 2 * C > len THEN len ELSE 2 * C
          /\ PosAfter(f, got) = got /\ got \in 0 .. len
      <4>1. /\ got \in Nat
            /\ got = IF 2 * C > len - 0 THEN len - 0 ELSE 2 * C
            /\ 0 + got \in 0 .. len /\ PosAfter(f, got) = 0 + got
        BY <2>10, <2>11, <3>1 DEF WellRead
      <4> QED BY <2>13, <4>1
    <3>5. (0 < len => 0 * C < got) /\ (C < len => 1 * C < got) /\ 0 + 0 * C = 0 /\ 0 + 1 * C = C
      BY <3>4
    <3>6. 0 < len => r.dma[0] = <<w, 0>>
      <4>1. 0 < len => r.dma[0] = <<f.inode, f.pos + H[0] * CHUNK_SIZE>>
        BY <2>12, <3>2, <3>3, <3>5
      <4> QED BY <2>10, <2>12, <3>2, <3>5, <4>1
    <3>7. C < len => r.dma[1] = <<w, C>>
      <4>1. C < len => r.dma[1] = <<f.inode, f.pos + H[1] * CHUNK_SIZE>>
        BY <2>12, <3>2, <3>3, <3>5
      <4> QED BY <2>10, <2>12, <3>2, <3>5, <4>1
    <3> QED BY <3>4, <3>6, <3>7
  <2>18. PICK d : d = DmaStart(r)
    OBVIOUS
  <2>19. d \in States /\ d.files = r.files /\ d.status = t /\ d.dma = r.dma /\ d.card.half = 0
         /\ d.card.irq = x.card.irq
    <3>1. [r.card EXCEPT !.half = 0].half = 0 /\ [r.card EXCEPT !.half = 0].irq = r.card.irq
      BY <2>16, StateOf DEF CardTypes
    <3> QED BY <2>16, <2>18, <3>1, DmaStartFacts
  <2>20. PICK z : z = StartPlayback(d, C)
    OBVIOUS
  <2>21. /\ z \in States /\ z.files = r.files /\ z.status = t /\ z.dma = r.dma /\ z.card.half = 0
         /\ z.card.irq = x.card.irq /\ (m => ~z.card.wide)
    BY <2>5, <2>12, <2>19, <2>20, StartPlaybackFacts
  <2>22. PICK e : e = PlayFile(x, fd, w)
    OBVIOUS
  <2>23. e = z \/ e = StopPlaybackAfter(z)
    BY <1>2, <2>6, <2>12, <2>15, <2>18, <2>20, <2>22 DEF PlayFile
  <2>24. /\ e \in States /\ e.files = r.files /\ e.status = t /\ e.dma = r.dma /\ e.card.half = 0
         /\ e.card.irq = x.card.irq /\ (m => ~e.card.wide)
    BY <2>21, <2>23, StopPlaybackAfterFacts
  <2>25. /\ e.status.fd = fd
         /\ e.files["kernel"][fd] = [ops |-> "file", inode |-> w, pos |-> PosAfter(f, got)]
    BY <2>5, <2>16, <2>24
  <2>26. ASSUME Readable(w), Wavs[w].bits = 8, e.status.current_block = 0 PROVE InStep(e, w, 0)
    <3>1. e.status.mode8 /\ ~e.card.wide
      BY <2>1, <2>5, <2>24, <2>26
    <3>2. 0 * CHUNK_SIZE = 0 /\ (0 + 1) * CHUNK_SIZE = C /\ (0 + 2) * CHUNK_SIZE = 2 * C
      BY <2>12
    <3>3. Behind(0 + 2, Wavs[w].length) = got
      BY <2>11, <2>12, <2>17, <2>26, <3>2 DEF Behind
    <3>4. e.files["kernel"][e.status.fd].pos = got
      BY <2>17, <2>25, <2>26
    <3>5. 0 < len => e.dma[0] = <<w, 0>>
      BY <2>17, <2>24, <2>26
    <3>6. C < len => e.dma[1 - 0] = <<w, C>>
      BY <2>17, <2>24, <2>26
    <3> QED BY <2>11, <2>24, <2>26, <3>1, <3>2, <3>3, <3>4, <3>5, <3>6 DEF InStep
  <2>27. PICK a : a = [wav |-> w, block |-> e.status.current_block]
    OBVIOUS
  <2>28. a.wav = w /\ a.block = e.status.current_block
    BY <2>27
  <2>29. Readable(w) => PosAfter(f, got) \in 0 .. len
    BY <2>17
  <2>30. Playing(e, a, 0)
    BY <2>11, <2>25, <2>26, <2>28, <2>29 DEF Playing
  <2> QED BY <2>22, <2>24, <2>27, <2>30
<1> QED BY <1>1, <1>2

\* play_wav when nothing plays: the file plays from its beginning, or nothing does.
LEMMA PlayWavFacts ==
  ASSUME NEW x \in States, NEW w \in DOMAIN Wavs, ~x.status.playing, ~x.card.irq
  PROVE  /\ PlayWav(x, w) \in States
         /\ Playing(PlayWav(x, w),
                    [wav |-> w, block |-> PlayWav(x, w).status.current_block], 0)
<1>1. PICK k : k = x.files["kernel"]
  OBVIOUS
<1>2. /\ x.files \in TableTypes /\ x.status \in StatusTypes /\ x.dma \in DmaTypes
      /\ x.card \in CardTypes /\ "kernel" \in Procs
      /\ x = [files |-> x.files, status |-> x.status, dma |-> x.dma, card |-> x.card]
  BY StateOf DEF Procs
<1>3. k \in [Fds -> Entries]
  BY <1>1, <1>2 DEF TableTypes
<1>4. PICK f \in Entries : f = NewFile("file", w)
  <2>1. NewFile("file", w) \in Entries
    BY SoundConstants DEF NewFile, Entries, Kinds
  <2> QED BY <2>1
<1>5. PICK fd \in Int : fd = FindNewFd(k)
  BY <1>3, TableFacts
<1>6. PICK o : o = Opened(k, f)
  OBVIOUS
<1>7. o \in [Fds -> Entries] /\ (~(fd < 0) => fd \in Fds /\ o[fd] = f)
  BY <1>3, <1>5, <1>6, TableFacts
<1>8. PICK files : files = [x.files EXCEPT !["kernel"] = o]
  OBVIOUS
<1>9. files \in TableTypes /\ files["kernel"] = o
  BY <1>2, <1>7, <1>8 DEF TableTypes
<1>10. PICK t : t = [x.status EXCEPT !.fd = fd]
  OBVIOUS
<1>11. t \in StatusTypes /\ t.playing = x.status.playing
  BY <1>2, <1>10 DEF StatusTypes
<1>12. PICK y : y = [x EXCEPT !.files["kernel"] = Opened(@, NewFile("file", w)), !.status.fd = fd]
  OBVIOUS
<1>13. y = [x EXCEPT !.files = files, !.status = t]
  BY <1>1, <1>4, <1>6, <1>8, <1>10, <1>12
<1>14. y = [files |-> files, status |-> t, dma |-> x.dma, card |-> x.card]
  BY <1>2, <1>13
<1>15. y \in States /\ y.files = files /\ y.status = t /\ y.card = x.card
  BY <1>2, <1>9, <1>11, <1>14, StateWith
<1>16. ~y.status.playing /\ ~y.card.irq
  BY <1>11, <1>15
<1>17. PlayWav(x, w) = IF fd < 0 \/ ~Wavs[w].riff
                       THEN [y EXCEPT !.files["kernel"] = Closed(@, fd)] ELSE PlayFile(y, fd, w)
  <2>1. PICK playing \in BOOLEAN : playing = x.status.playing
    BY <1>2 DEF StatusTypes
  <2> QED BY <1>1, <1>5, <1>12, <2>1 DEF PlayWav
<1>18. CASE fd < 0 \/ ~Wavs[w].riff
  <2>1. PICK g : g = [files EXCEPT !["kernel"] = Closed(files["kernel"], fd)]
    OBVIOUS
  <2>2. Closed(o, fd) \in [Fds -> Entries]
    BY <1>7, TableFacts
  <2>3. g \in TableTypes
    BY <1>9, <2>1, <2>2 DEF TableTypes
  <2>4. PICK e : e = PlayWav(x, w)
    OBVIOUS
  <2>5. e = [y EXCEPT !.files = g]
    BY <1>15, <1>17, <1>18, <2>1, <2>4
  <2>6. e = [files |-> g, status |-> t, dma |-> x.dma, card |-> x.card]
    BY <1>14, <2>5
  <2>7. e \in States /\ ~e.status.playing
    BY <1>2, <1>11, <2>3, <2>6, StateWith
  <2>8. Playing(e, [wav |-> w, block |-> e.status.current_block], 0)
    BY <2>7 DEF Playing
  <2> QED BY <2>4, <2>7, <2>8
<1>19. CASE ~(fd < 0 \/ ~Wavs[w].riff)
  <2>1. y.files["kernel"][fd] = NewFile("file", w) /\ fd \in Fds
    BY <1>4, <1>7, <1>9, <1>15, <1>19
  <2>2. PlayWav(x, w) = PlayFile(y, fd, w)
    BY <1>17, <1>19
  <2> QED BY <2>1, <2>2, <1>15, <1>16, PlayFileFacts
<1> QED BY <1>18, <1>19

\* The handler while a file plays: the chunk after the one due is put in the half that the
\* card has left.
LEMMA NextChunkFacts ==
  ASSUME NEW x \in States, NEW a, NEW k \in Nat, NEW y \in States, current_process \in Procs,
         x.status.playing, x.card.irq, Playing(x, a, k),
         y.files = x.files, y.status = x.status, y.dma = x.dma, y.card.half = x.card.half,
         ~y.card.irq
  PROVE  NextChunk(y) \in States /\ Playing(NextChunk(y), a, k)
<1> DEFINE H == [b \in {y.status.current_block} |-> 0]
<1>1. PICK f : f = x.files["kernel"][x.status.fd]
  OBVIOUS
<1>2. /\ a.wav \in DOMAIN Wavs /\ x.status.fd \in Fds
      /\ f.ops = "file" /\ f.inode = a.wav
      /\ Readable(a.wav) => f.pos \in 0 .. Wavs[a.wav].length
      /\ Readable(a.wav) /\ Wavs[a.wav].bits = 8 /\ a.block = 0 => InStep(x, a.wav, k)
  BY <1>1 DEF Playing
<1>3. PICK next \in {0, 1} : next = x.status.current_block
  BY StateOf DEF StatusTypes
<1>4. PICK C \in Nat \ {0} : C = CHUNK_SIZE
  BY SoundConstants
<1>5. PICK len \in Nat : len = Wavs[a.wav].length
  BY <1>2, SoundConstants
<1>6. f.pos \in Int
  <2>1. x.files \in TableTypes /\ "kernel" \in Procs
    BY StateOf DEF Procs
  <2> QED BY <1>1, <1>2, <2>1 DEF TableTypes, Entries
<1>7. PICK got \in Int : ReadDone(y, C, H, f, got)
  <2>1. PICK D \in SUBSET {0, 1} : D = {next}
    OBVIOUS
  <2>2. H \in [D -> Nat]
    BY <1>3, <2>1
  <2>3. y.status.fd \in Fds /\ f = y.files["kernel"][y.status.fd] /\ f.inode \in DOMAIN Wavs
    BY <1>1, <1>2
  <2> HIDE DEF H
  <2> QED BY <1>4, <2>2, <2>3, ReadIntoFacts
<1>8. PICK r : r = ReadInto(y, C, H)
  OBVIOUS
<1>9. /\ got = BytesRead(y, CHUNK_SIZE)
      /\ r \in States /\ r.status = x.status /\ r.card = y.card
      /\ r.files["kernel"][x.status.fd] =
           [ops |-> "file", inode |-> a.wav, pos |-> PosAfter(f, got)]
  BY <1>2, <1>4, <1>7, <1>8 DEF ReadDone
<1>10. ASSUME Readable(a.wav)
       PROVE  /\ got \in Nat /\ f.pos \in 0 .. len
              /\ got = IF C > len - f.pos THEN len - f.pos ELSE C
              /\ f.pos + got \in 0 .. len /\ PosAfter(f, got) = f.pos + got
              /\ 0 < got => r.dma[next] = <<a.wav, f.pos>>
  <2>1. WellRead(y, C, H, f, got)
    <3>1. Readable(f.inode) /\ f.pos \in 0 .. Wavs[f.inode].length
      BY <1>2, <1>10
    <3> HIDE DEF H
    <3> QED BY <1>7, <3>1 DEF ReadDone
  <2>2. next \in DOMAIN H /\ H[next] = 0 /\ 0 * CHUNK_SIZE = 0
    BY <1>3, <1>4
  <2> HIDE DEF H
  <2>3. 0 < got => r.dma[next] = <<f.inode, f.pos + 0>>
    BY <1>4, <1>8, <2>1, <2>2 DEF WellRead
  <2>4. f.pos + 0 = f.pos
    BY <1>6
  <2> QED BY <1>2, <1>5, <1>10, <2>1, <2>3, <2>4 DEF WellRead
<1>11. r.dma[1 - next] = x.dma[1 - next]
  <2>1. 1 - next \in {0, 1} \ DOMAIN H
    BY <1>3
  <2> HIDE DEF H
  <2> QED BY <1>7, <1>8, <2>1 DEF ReadDone
<1>12. NextChunk(y) =
         IF got = 0 THEN StopPlayback(ResetPlayback(y))
         ELSE StartPlayback(OtherBlock(IF Short(got) THEN ResetPlayback(StopPlaybackAfter(r))
                                                     ELSE r), got)
  BY <1>4, <1>8, <1>9, Zenon DEF NextChunk
<1>13. CASE got = 0
  <2>1. NextChunk(y) = StopPlayback(ResetPlayback(y))
    BY <1>12, <1>13
  <2>2. NextChunk(y) \in States /\ ~NextChunk(y).status.playing
    BY <2>1, ResetPlaybackFacts, StopPlaybackFacts
  <2> QED BY <2>2 DEF Playing
<1>14. CASE got # 0 /\ Short(got)
  <2>1. PICK s : s = ResetPlayback(StopPlaybackAfter(r))
    OBVIOUS
  <2>2. s \in States /\ ~s.status.playing
    BY <1>9, <2>1, StopPlaybackAfterFacts, ResetPlaybackFacts
  <2>3. PICK o : o = OtherBlock(s)
    OBVIOUS
  <2>4. o \in States /\ ~o.status.playing
    <3>1. [s.status EXCEPT !.current_block = 1 - s.status.current_block].playing = s.status.playing
      BY <2>2, StateOf DEF StatusTypes
    <3> QED BY <2>2, <2>3, <3>1, OtherBlockFacts
  <2>5. NextChunk(y) = StartPlayback(o, got)
    BY <1>12, <1>14, <2>1, <2>3
  <2>6. NextChunk(y) \in States /\ ~NextChunk(y).status.playing
    BY <2>4, <2>5, StartPlaybackFacts
  <2> QED BY <2>6 DEF Playing
<1>15. CASE got # 0 /\ ~Short(got)
  <2>1. PICK o : o = OtherBlock(r)
    OBVIOUS
  <2>2. /\ o \in States /\ o.files = r.files /\ o.card = y.card /\ o.dma = r.dma
        /\ o.status.fd = x.status.fd /\ o.status.mode8 = x.status.mode8
        /\ o.status.current_block = 1 - next
    <3>1. PICK t : t = [r.status EXCEPT !.current_block = 1 - r.status.current_block]
      OBVIOUS
    <3>2. t.fd = x.status.fd /\ t.mode8 = x.status.mode8 /\ t.current_block = 1 - next
      BY <1>3, <1>9, <3>1, StateOf DEF StatusTypes
    <3> QED BY <1>9, <2>1, <3>1, <3>2, OtherBlockFacts
  <2>3. PICK e : e = NextChunk(y)
    OBVIOUS
  <2>4. e = StartPlayback(o, got)
    BY <1>12, <1>15, <2>1, <2>3
  <2>5. /\ e \in States /\ e.files = r.files /\ e.status = o.status /\ e.dma = r.dma
        /\ e.card.half = x.card.half /\ ~e.card.irq /\ (o.status.mode8 /\ ~(got < 0) => ~e.card.wide)
    <3> HIDE DEF H
    <3>1. /\ e \in States /\ e.files = o.files /\ e.status = o.status /\ e.dma = o.dma
          /\ e.card.half = o.card.half /\ e.card.irq = o.card.irq
          /\ o.status.mode8 /\ ~(got < 0) => ~e.card.wide
      BY <2>2, <2>4, StartPlaybackFacts, Zenon
    <3> QED BY <2>2, <3>1
  <2>6. Readable(a.wav) => got = C /\ f.pos \in Nat /\ f.pos + C <= len
    BY <1>4, <1>5, <1>10, <1>15 DEF Short
  <2>7. /\ e.status.fd = x.status.fd
        /\ e.files["kernel"][x.status.fd] = [ops |-> "file", inode |-> a.wav, pos |-> PosAfter(f, got)]
    BY <1>9, <2>2, <2>5
  <2>8. ASSUME Readable(a.wav), Wavs[a.wav].bits = 8, a.block = 0 PROVE InStep(e, a.wav, k)
    <3>1. /\ x.status.mode8 /\ f.pos = Behind(k + 1, len) /\ x.card.half = 1 - next
          /\ k * C < len => x.dma[1 - next] = <<a.wav, k * C>>
      BY <1>1, <1>2, <1>3, <1>4, <1>5, <2>8 DEF InStep
    <3>2. PICK p \in Nat : p = (k + 1) * C
      BY <1>4
    <3>3. f.pos = p
      BY <1>4, <1>5, <2>6, <2>8, <3>1, <3>2 DEF Behind
    <3>4. (k + 2) * C = p + C
      BY <1>4, <3>2
    <3>5. f.pos + C = Behind(k + 2, len)
      BY <1>4, <1>5, <2>6, <2>8, <3>2, <3>3, <3>4 DEF Behind
    <3>6. got > 0 /\ PosAfter(f, got) = f.pos + C
      BY <1>4, <1>10, <2>6, <2>8
    <3>7. e.dma[next] = <<a.wav, (k + 1) * C>>
      BY <1>10, <2>5, <2>8, <3>2, <3>3, <3>6
    <3>8. 1 - (1 - next) = next
      BY <1>3
    <3>9. k * C < len => e.dma[1 - next] = <<a.wav, k * C>>
      BY <1>11, <2>5, <3>1
    <3>10. e.status.mode8 /\ ~e.card.wide /\ ~e.card.irq
      <4>1. ~(got < 0)
        BY <3>6
      <4> QED BY <2>2, <2>5, <3>1, <4>1, Zenon
    <3>11. e.card.half = 1 - next /\ e.status.current_block = 1 - next
      BY <2>2, <2>5, <3>1, Zenon
    <3>12. e.files["kernel"][e.status.fd].pos = f.pos + C
      BY <2>7, <3>6
    <3> QED BY <1>4, <1>5, <3>5, <3>7, <3>8, <3>9, <3>10, <3>11, <3>12 DEF InStep
  <2>9. Playing(e, a, k)
    <3>1. Readable(a.wav) => PosAfter(f, got) \in 0 .. Wavs[a.wav].length
      BY <1>5, <1>10
    <3> QED BY <1>2, <2>7, <2>8, <3>1 DEF Playing
  <2> QED BY <2>3, <2>5, <2>9
<1> QED BY <1>13, <1>14, <1>15

-----------------------------------------------------------------------------
(* Sound: every action keeps SoundInv.                                     *)

LEMMA HereIs ==
  Here.files = open_files /\ Here.status = status /\ Here.dma = dma_buffer /\ Here.card = card
BY DEF Here

LEMMA InvAfter ==
  ASSUME NEW x \in States, Become(x), current_process' \in Procs, heard' \in Nat,
         Playing(x, asked', heard')
  PROVE  SoundInv'
<1>1. Here' = x
  BY BecomeFacts
<1> QED BY <1>1 DEF SoundInv

\* A state that differs from another in what the programs see only, and still plays.
LEMMA PlayingSame ==
  ASSUME NEW x, NEW y, NEW a, NEW k, Playing(x, a, k), y.status = x.status, y.dma = x.dma,
         y.files["kernel"] = x.files["kernel"], y.card.half = x.card.half,
         y.card.irq = x.card.irq, y.card.wide = x.card.wide
  PROVE  Playing(y, a, k)
<1>1. SUFFICES ASSUME y.status.playing PROVE Playing(y, a, k)
  BY DEF Playing
<1>2. PICK f : f = x.files["kernel"][x.status.fd]
  OBVIOUS
<1>3. /\ a.wav \in DOMAIN Wavs /\ x.status.fd \in Fds
      /\ f.ops = "file" /\ f.inode = a.wav
      /\ Readable(a.wav) => f.pos \in 0 .. Wavs[a.wav].length
      /\ Readable(a.wav) /\ Wavs[a.wav].bits = 8 /\ a.block = 0 => InStep(x, a.wav, k)
  BY <1>1, <1>2 DEF Playing
<1>4. InStep(x, a.wav, k) => InStep(y, a.wav, k)
  BY Zenon DEF InStep
<1>5. f = y.files["kernel"][y.status.fd] /\ y.status.fd \in Fds
  BY <1>2, <1>3
<1> QED BY <1>3, <1>4, <1>5 DEF Playing

LEMMA CtrlPlayInv ==
  ASSUME SoundInv, NEW w \in DOMAIN Wavs, CtrlPlay(w)
  PROVE  SoundInv'
<1>1. PICK x : x = PlayWav(Here, w)
  OBVIOUS
<1>2. Here \in States /\ ~Here.status.playing /\ ~Here.card.irq
  BY HereIs DEF SoundInv, CtrlPlay, Program
<1>3. x \in States /\ Playing(x, [wav |-> w, block |-> x.status.current_block], 0)
  BY <1>1, <1>2, PlayWavFacts
<1>4. Playing(x, asked', 0)
  BY <1>1, <1>3 DEF CtrlPlay, Asked, Playing
<1>5. Become(x) /\ heard' = 0 /\ current_process' \in Procs
  BY <1>1 DEF CtrlPlay, SoundInv
<1> QED BY <1>3, <1>4, <1>5, InvAfter

LEMMA SyscallShutdownInv ==
  ASSUME SoundInv, NEW w \in DOMAIN Wavs, SyscallShutdown(w)
  PROVE  SoundInv'
<1>1. PICK s : s = StopPlayback(Here)
  OBVIOUS
<1>2. PICK x : x = PlayWav(s, w)
  OBVIOUS
<1>3. Here \in States /\ ~Here.card.irq /\ current_process \in Procs
  BY HereIs DEF SoundInv, SyscallShutdown, Program
<1>4. s \in States /\ ~s.status.playing /\ ~s.card.irq
  BY <1>1, <1>3, StopPlaybackFacts
<1>5. x \in States /\ Playing(x, [wav |-> w, block |-> x.status.current_block], 0)
  BY <1>2, <1>4, PlayWavFacts
<1>6. Playing(x, asked', 0)
  BY <1>1, <1>2, <1>5 DEF SyscallShutdown, Asked, Playing
<1>7. Become(x) /\ heard' = 0 /\ current_process' \in Procs
  BY <1>1, <1>2, <1>3 DEF SyscallShutdown
<1> QED BY <1>5, <1>6, <1>7, InvAfter

LEMMA CtrlPauseResumeInv ==
  ASSUME SoundInv, NEW p \in BOOLEAN, Become([Here EXCEPT !.card.paused = p]),
         UNCHANGED <<current_process, asked, heard>>
  PROVE  SoundInv'
<1>1. PICK c : c = [card EXCEPT !.paused = p]
  OBVIOUS
<1>2. PICK x : x = [Here EXCEPT !.card.paused = p]
  OBVIOUS
<1>3. Here \in States
  BY DEF SoundInv
<1>4. x = [Here EXCEPT !.card = c]
  BY <1>1, <1>2, HereIs
<1>5. x = [files |-> open_files, status |-> status, dma |-> dma_buffer, card |-> c]
  BY <1>4 DEF Here
<1>6. card \in CardTypes
  BY <1>3, HereIs, StateOf
<1>7. c \in CardTypes /\ c.half = card.half /\ c.irq = card.irq /\ c.wide = card.wide
  BY <1>1, <1>6 DEF CardTypes
<1>8. x \in States
  BY <1>3, <1>5, <1>7, HereIs, StateOf, StateWith
<1>9. x.files = Here.files /\ x.status = Here.status /\ x.dma = Here.dma /\ x.card = c
  BY <1>5, HereIs
<1>10. Playing(Here, asked, heard)
  BY DEF SoundInv
<1>11. Playing(x, asked, heard)
  BY <1>7, <1>9, <1>10, HereIs, PlayingSame
<1> QED BY <1>2, <1>8, <1>11, InvAfter DEF SoundInv

LEMMA CtrlStopInv ==
  ASSUME SoundInv, CtrlStop
  PROVE  SoundInv'
<1>1. PICK x : x = StopPlayback(Here)
  OBVIOUS
<1>2. x \in States /\ ~x.status.playing
  BY <1>1, StopPlaybackFacts DEF SoundInv
<1>3. Playing(x, asked', heard')
  BY <1>2 DEF Playing
<1>4. Become(x) /\ heard' \in Nat /\ current_process' \in Procs
  BY <1>1 DEF CtrlStop, SoundInv
<1> QED BY <1>2, <1>3, <1>4, InvAfter

\* A program's own files are not the kernel's.
LEMMA UserTableInv ==
  ASSUME SoundInv, Program, NEW t \in [Fds -> Entries],
         open_files' = [open_files EXCEPT ![current_process] = t],
         UNCHANGED <<current_process, status, dma_buffer, card, asked, heard>>
  PROVE  SoundInv'
<1>1. PICK x : x = [files |-> open_files', status |-> status, dma |-> dma_buffer, card |-> card]
  OBVIOUS
<1>2. Here \in States /\ current_process \in Users /\ current_process \in Procs
  BY DEF SoundInv, Program
<1>3. /\ open_files \in TableTypes /\ status \in StatusTypes /\ dma_buffer \in DmaTypes
      /\ card \in CardTypes
  BY <1>2, HereIs, StateOf
<1>4. open_files' \in TableTypes
  BY <1>2, <1>3 DEF TableTypes
<1>5. open_files'["kernel"] = open_files["kernel"]
  BY <1>2, <1>3, SoundConstants DEF TableTypes, Procs
<1>6. x \in States
  BY <1>1, <1>3, <1>4, StateWith
<1>7. x.files = open_files' /\ x.status = status /\ x.dma = dma_buffer /\ x.card = card
  BY <1>1
<1>8. Become(x)
  BY <1>7 DEF Become
<1>9. Playing(Here, asked, heard)
  BY DEF SoundInv
<1>10. Playing(x, asked, heard)
  BY <1>5, <1>7, <1>9, HereIs, PlayingSame
<1> QED BY <1>6, <1>8, <1>10, InvAfter DEF SoundInv

LEMMA UserOpenInv ==
  ASSUME SoundInv, UserOpen
  PROVE  SoundInv'
<1>1. open_files[current_process] \in [Fds -> Entries]
  BY HereIs, StateOf DEF SoundInv, TableTypes
<1>2. NewFile("rtc", 0) \in Entries
  BY DEF NewFile, Entries, Kinds
<1>3. Opened(open_files[current_process], NewFile("rtc", 0)) \in [Fds -> Entries]
  BY <1>1, <1>2, TableFacts
<1> QED BY <1>3, UserTableInv DEF UserOpen

LEMMA UserCloseInv ==
  ASSUME SoundInv, NEW fd \in Fds, UserClose(fd)
  PROVE  SoundInv'
<1>1. open_files[current_process] \in [Fds -> Entries]
  BY HereIs, StateOf DEF SoundInv, TableTypes
<1>2. Closed(open_files[current_process], fd) \in [Fds -> Entries]
  BY <1>1, TableFacts
<1> QED BY <1>2, UserTableInv DEF UserClose

\* The card goes on to the other half, and the chunk after the one that was due is due.
LEMMA HalfPlayedInv ==
  ASSUME SoundInv, HalfPlayed
  PROVE  SoundInv'
<1>1. PICK c : c = card'
  OBVIOUS
<1>2. PICK x : x = [files |-> open_files, status |-> status, dma |-> dma_buffer, card |-> c]
  OBVIOUS
<1>3. Here \in States /\ heard \in Nat /\ Playing(Here, asked, heard)
  BY DEF SoundInv
<1>4. /\ open_files \in TableTypes /\ status \in StatusTypes /\ dma_buffer \in DmaTypes
      /\ card \in CardTypes
  BY <1>3, HereIs, StateOf
<1>5. PICK h \in {0, 1} : h = IF card.wide THEN card.half ELSE 1 - card.half
  BY <1>4 DEF CardTypes
<1>6. c = [card EXCEPT !.irq = TRUE, !.on = card.auto, !.half = h]
  BY <1>1, <1>4, <1>5 DEF HalfPlayed, CardTypes
<1>7. c \in CardTypes /\ c.irq /\ c.half = h /\ c.wide = card.wide
  BY <1>4, <1>6 DEF CardTypes
<1>8. x \in States
  BY <1>2, <1>4, <1>7, StateWith
<1>9. x.files = open_files /\ x.status = status /\ x.dma = dma_buffer /\ x.card = c
  BY <1>2
<1>10. Become(x)
  BY <1>1, <1>9 DEF Become, HalfPlayed
<1>11. heard' \in Nat
  BY <1>3 DEF HalfPlayed
<1>12. Playing(x, asked, heard')
  <2>1. SUFFICES ASSUME status.playing PROVE Playing(x, asked, heard')
    BY <1>9 DEF Playing
  <2>2. PICK f : f = open_files["kernel"][status.fd]
    OBVIOUS
  <2>3. /\ asked.wav \in DOMAIN Wavs /\ status.fd \in Fds
        /\ f.ops = "file" /\ f.inode = asked.wav
        /\ Readable(asked.wav) => f.pos \in 0 .. Wavs[asked.wav].length
        /\ Readable(asked.wav) /\ Wavs[asked.wav].bits = 8 /\ asked.block = 0
             => InStep(Here, asked.wav, heard)
    BY <1>3, <2>1, <2>2, HereIs DEF Playing
  <2>4. ASSUME Readable(asked.wav), Wavs[asked.wav].bits = 8, asked.block = 0
        PROVE  InStep(x, asked.wav, heard')
    <3>1. PICK C \in Nat \ {0} : C = CHUNK_SIZE
      BY SoundConstants
    <3>2. PICK len \in Nat : len = Wavs[asked.wav].length
      BY <2>3, SoundConstants
    <3>3. PICK k \in Nat : k = heard
      BY <1>3
    <3>4. PICK p \in Nat : p = k * C
      BY <3>1
    <3>5. (k + 1) * C = p + C /\ (k + 2) * C = p + C + C
      BY <3>1, <3>4
    <3>6. PICK next \in {0, 1} : next = status.current_block
      BY <1>4 DEF StatusTypes
    <3>7. ~card.irq
      BY DEF HalfPlayed
    <3>8. InStep(Here, asked.wav, k)
      BY <2>3, <2>4, <3>3
    <3>9. /\ status.mode8 /\ ~card.wide /\ f.pos = Behind(k + 2, len) /\ card.half = next
          /\ p + C < len => dma_buffer[1 - next] = <<asked.wav, (k + 1) * CHUNK_SIZE>>
      BY <2>2, <3>1, <3>2, <3>5, <3>6, <3>7, <3>8, HereIs DEF InStep
    <3>10. c.half = 1 - next /\ ~c.wide
      BY <1>5, <1>7, <3>9
    <3>11. CASE p < len
      <4>1. heard' = k + 1
        BY <2>1, <3>1, <3>2, <3>3, <3>4, <3>11 DEF HalfPlayed
      <4>2. Behind((k + 1) + 1, len) = f.pos
        BY <3>9
      <4>3. (k + 1) * CHUNK_SIZE < len => dma_buffer[1 - next] = <<asked.wav, (k + 1) * CHUNK_SIZE>>
        BY <3>1, <3>5, <3>9
      <4>4. InStep(x, asked.wav, k + 1)
        BY <1>7, <1>9, <2>2, <3>2, <3>6, <3>9, <3>10, <4>2, <4>3 DEF InStep
      <4> QED BY <4>1, <4>4
    <3>12. CASE ~(p < len)
      <4>1. heard' = k
        BY <2>1, <3>1, <3>2, <3>3, <3>4, <3>12 DEF HalfPlayed
      <4>2. Behind(k + 1, len) = f.pos
        BY <3>1, <3>2, <3>4, <3>5, <3>9, <3>12 DEF Behind
      <4>3. ~(k * CHUNK_SIZE < len)
        BY <3>1, <3>4, <3>12
      <4>4. InStep(x, asked.wav, k)
        BY <1>7, <1>9, <2>2, <3>2, <3>6, <3>9, <3>10, <4>2, <4>3 DEF InStep
      <4> QED BY <4>1, <4>4
    <3> QED BY <3>11, <3>12
  <2> QED BY <1>9, <2>2, <2>3, <2>4 DEF Playing
<1>13. asked' = asked /\ current_process' \in Procs
  BY DEF HalfPlayed, SoundInv
<1> QED BY <1>8, <1>10, <1>11, <1>12, <1>13, InvAfter

LEMMA Sb16HandlerInv ==
  ASSUME SoundInv, Sb16Handler
  PROVE  SoundInv'
<1>1. PICK c : c = [card EXCEPT !.irq = FALSE]
  OBVIOUS
<1>2. PICK y : y = [Here EXCEPT !.card.irq = FALSE]
  OBVIOUS
<1>3. /\ Here \in States /\ heard \in Nat /\ Playing(Here, asked, heard)
      /\ current_process \in Procs
  BY DEF SoundInv
<1>4. y = [Here EXCEPT !.card = c]
  BY <1>1, <1>2, HereIs
<1>5. y = [files |-> open_files, status |-> status, dma |-> dma_buffer, card |-> c]
  BY <1>4 DEF Here
<1>6. card \in CardTypes
  BY <1>3, HereIs, StateOf
<1>7. c \in CardTypes /\ c.half = card.half /\ ~c.irq
  BY <1>1, <1>6 DEF CardTypes
<1>8. y \in States
  BY <1>3, <1>5, <1>7, HereIs, StateOf, StateWith
<1>9. y.files = Here.files /\ y.status = Here.status /\ y.dma = Here.dma /\ y.card = c
  BY <1>5, HereIs
<1>10. heard' \in Nat /\ heard' = heard /\ asked' = asked /\ current_process' \in Procs
  BY <1>3 DEF Sb16Handler
<1>11. CASE status.playing
  <2>1. Become(NextChunk(y))
    BY <1>2, <1>11 DEF Sb16Handler
  <2>2. Here.status.playing /\ Here.card.irq /\ y.card.half = Here.card.half /\ ~y.card.irq
    BY <1>7, <1>9, <1>11, HereIs DEF Sb16Handler
  <2>3. NextChunk(y) \in States /\ Playing(NextChunk(y), asked, heard)
    BY <1>3, <1>8, <1>9, <2>2, NextChunkFacts
  <2> QED BY <1>10, <2>1, <2>3, InvAfter
<1>12. CASE ~status.playing
  <2>1. Become(y)
    BY <1>2, <1>12 DEF Sb16Handler
  <2>2. Playing(y, asked, heard)
    BY <1>9, <1>12, HereIs DEF Playing
  <2> QED BY <1>8, <1>10, <2>1, <2>2, InvAfter
<1> QED BY <1>11, <1>12

LEMMA SoundInit ==
  ASSUME Init
  PROVE  SoundInv
<1>1. NewTable \in [Fds -> Entries]
  <2>1. NewFile("stdin", 0) \in Entries /\ NewFile("stdout", 0) \in Entries /\ NoFile \in Entries
    BY DEF NewFile, NoFile, Entries, Kinds
  <2> QED BY <2>1 DEF NewTable, STDIN_FD, STDOUT_FD
<1>2. open_files \in TableTypes
  BY <1>1 DEF Init, TableTypes
<1>3. status \in StatusTypes /\ ~status.playing
  BY DEF Init, StatusTypes
<1>4. dma_buffer \in DmaTypes
  BY DEF Init, DmaTypes, Silence
<1>5. card \in CardTypes
  BY DEF Init, CardTypes
<1>6. Here \in States
  BY <1>2, <1>3, <1>4, <1>5, StateWith DEF Here
<1>7. Playing(Here, asked, heard)
  BY <1>3, HereIs DEF Playing
<1> QED BY <1>6, <1>7 DEF Init, SoundInv

LEMMA SoundStutter ==
  ASSUME SoundInv, UNCHANGED <<open_files, status, dma_buffer, card, asked, heard>>,
         current_process' \in Procs
  PROVE  SoundInv'
<1>1. Here' = Here
  BY DEF Here
<1> QED BY <1>1 DEF SoundInv

\* SoundInv is inductive: every call of the driver, every tick and every interrupt of the
\* card leaves the reading of the file, the buffer and the card in step.
THEOREM SoundInvariance == Spec => []SoundInv
<1>1. Init => SoundInv
  BY SoundInit
<1>2. SoundInv /\ [Next]_vars => SoundInv'
  <2>1. SUFFICES ASSUME SoundInv, [Next]_vars PROVE SoundInv'
    OBVIOUS
  <2>2. CASE \E w \in DOMAIN Wavs : CtrlPlay(w)
    BY <2>1, <2>2, CtrlPlayInv
  <2>3. CASE \E w \in DOMAIN Wavs : SyscallShutdown(w)
    BY <2>1, <2>3, SyscallShutdownInv
  <2>4. CASE CtrlPause
    BY <2>1, <2>4, CtrlPauseResumeInv DEF CtrlPause
  <2>5. CASE CtrlResume
    BY <2>1, <2>5, CtrlPauseResumeInv DEF CtrlResume
  <2>6. CASE CtrlStop
    BY <2>1, <2>6, CtrlStopInv
  <2>7. CASE UserOpen
    BY <2>1, <2>7, UserOpenInv
  <2>8. CASE \E fd \in Fds : UserClose(fd)
    BY <2>1, <2>8, UserCloseInv
  <2>9. CASE \E p \in Procs : Switch(p)
    BY <2>1, <2>9, SoundStutter DEF Switch
  <2>10. CASE HalfPlayed
    BY <2>1, <2>10, HalfPlayedInv
  <2>11. CASE Sb16Handler
    BY <2>1, <2>11, Sb16HandlerInv
  <2>12. CASE UNCHANGED vars
    BY <2>1, <2>12, SoundStutter DEF vars, SoundInv
  <2> QED BY <2>1, <2>2, <2>3, <2>4, <2>5, <2>6, <2>7, <2>8, <2>9, <2>10, <2>11, <2>12 DEF Next
<1> QED BY <1>1, <1>2, PTL DEF Spec

\* PlayingFileOpen, for any files, programs and size of the buffer: while a file plays, the
\* kernel's descriptor that the handler reads (sb16.c) stays that file's.
THEOREM PlayedFileStaysOpen == Spec => []PlayingFileOpen
<1>1. SoundInv => PlayingFileOpen
  BY HereIs DEF SoundInv, Playing, PlayingFileOpen
<1> QED BY <1>1, SoundInvariance, PTL

\* HeardInOrder, for any files, programs and size of the buffer: the half of dma_buffer the
\* card has come to holds the chunk of a readable 8-bit file that is due.
THEOREM SoundIsHeardInOrder == Spec => []HeardInOrder
<1>1. SoundInv => HeardInOrder
  BY HereIs DEF SoundInv, Playing, InStep, HeardInOrder
<1> QED BY <1>1, SoundInvariance, PTL

-----------------------------------------------------------------------------
(* The clock.                                                              *)

\* The powers of two up to 1 << n.
PowersUpTo(n, g) ==
  g \in [0 .. n -> Nat] /\ g[0] = 1 /\ \A i \in 1 .. n : g[i] = 2 * g[i - 1]

LEMMA PowersUpToExist == \A n \in Nat : \E g : PowersUpTo(n, g)
<1> DEFINE Bad == {n \in Nat : ~\E g : PowersUpTo(n, g)}
<1>1. SUFFICES ASSUME Bad # {} PROVE FALSE
  OBVIOUS
<1>2. PICK n \in Bad : \A m \in Bad : n <= m
  <2>1. Bad \subseteq Nat
    OBVIOUS
  <2> HIDE DEF Bad
  <2> QED BY <1>1, <2>1, LeastNat
<1>3. CASE n = 0
  <2>1. PowersUpTo(0, [i \in 0 .. 0 |-> 1])
    BY DEF PowersUpTo
  <2> QED BY <1>2, <1>3, <2>1
<1>4. CASE n # 0
  <2>1. n - 1 \in Nat /\ n \in Nat
    BY <1>2, <1>4
  <2>2. n - 1 \notin Bad
    BY <1>2, <2>1
  <2>3. PICK g : PowersUpTo(n - 1, g)
    BY <2>1, <2>2
  <2>4. PICK h : h = [i \in 0 .. n |-> IF i = n THEN 2 * g[n - 1] ELSE g[i]]
    OBVIOUS
  <2>5. g[n - 1] \in Nat /\ \A i \in 0 .. n - 1 : g[i] \in Nat
    BY <2>1, <2>3 DEF PowersUpTo
  <2>6. h \in [0 .. n -> Nat] /\ h[0] = 1
    BY <1>4, <2>1, <2>3, <2>4, <2>5 DEF PowersUpTo
  <2>7. ASSUME NEW i \in 1 .. n PROVE h[i] = 2 * h[i - 1]
    BY <2>1, <2>3, <2>4 DEF PowersUpTo
  <2>8. PowersUpTo(n, h)
    BY <2>6, <2>7 DEF PowersUpTo
  <2> QED BY <1>2, <2>8
<1> QED BY <1>3, <1>4

LEMMA PowersAgree ==
  ASSUME NEW n \in Nat, NEW m \in Nat, m <= n, NEW g, PowersUpTo(m, g), NEW h, PowersUpTo(n, h)
  PROVE  \A i \in 0 .. m : g[i] = h[i]
<1> DEFINE Bad == {i \in 0 .. m : g[i] # h[i]}
<1>1. SUFFICES ASSUME Bad # {} PROVE FALSE
  OBVIOUS
<1>2. PICK i \in Bad : \A j \in Bad : i <= j
  <2>1. Bad \subseteq Nat
    OBVIOUS
  <2> HIDE DEF Bad
  <2> QED BY <1>1, <2>1, LeastNat
<1>3. i # 0
  BY <1>2 DEF PowersUpTo
<1>4. i - 1 \in 0 .. m /\ i - 1 \in Nat /\ i \in Nat /\ i - 1 < i /\ i \in 1 .. m /\ i \in 1 .. n
  BY <1>2, <1>3
<1>5. i - 1 \notin Bad
  BY <1>2, <1>4
<1>6. g[i - 1] = h[i - 1]
  BY <1>4, <1>5
<1>7. g[i] = h[i]
  BY <1>4, <1>6 DEF PowersUpTo
<1> QED BY <1>2, <1>7

\* 1 << i as the recursion computes it.
LEMMA Pow2Facts ==
  /\ Pow2 \in [Nat -> Nat]
  /\ Pow2[0] = 1
  /\ \A i \in Nat : Pow2[i + 1] = 2 * Pow2[i]
<1> DEFINE G(n) == CHOOSE g : PowersUpTo(n, g)
<1>1. \A n \in Nat : PowersUpTo(n, G(n))
  BY PowersUpToExist
<1>2. PICK p : p = [n \in Nat |-> G(n)[n]]
  OBVIOUS
<1>3. ASSUME NEW n \in Nat PROVE p[n] = IF n = 0 THEN 1 ELSE 2 * p[n - 1]
  <2>1. p[n] = G(n)[n] /\ PowersUpTo(n, G(n))
    BY <1>1, <1>2
  <2>2. CASE n = 0
    BY <2>1, <2>2 DEF PowersUpTo
  <2>3. CASE n # 0
    <3>1. n - 1 \in Nat /\ n - 1 <= n /\ n \in 1 .. n /\ n - 1 \in 0 .. n - 1
      BY <2>3
    <3>2. p[n - 1] = G(n - 1)[n - 1] /\ PowersUpTo(n - 1, G(n - 1))
      BY <1>1, <1>2, <3>1
    <3> HIDE DEF G
    <3>3. G(n - 1)[n - 1] = G(n)[n - 1]
      BY <2>1, <3>1, <3>2, PowersAgree
    <3>4. G(n)[n] = 2 * G(n)[n - 1]
      BY <2>1, <3>1 DEF PowersUpTo
    <3> QED BY <2>1, <2>3, <3>2, <3>3, <3>4
  <2> QED BY <2>2, <2>3
<1>4. p = [i \in Nat |-> IF i = 0 THEN 1 ELSE 2 * p[i - 1]]
  <2>1. p = [i \in Nat |-> p[i]]
    BY <1>2
  <2> QED BY <1>3, <2>1
<1>5. Pow2 = [i \in Nat |-> IF i = 0 THEN 1 ELSE 2 * Pow2[i - 1]]
  BY <1>4, Zenon DEF Pow2
<1>6. PICK q : q = Pow2
  OBVIOUS
<1>7. q[0] = 1 /\ \A i \in Nat : q[i + 1] = 2 * q[i]
  BY <1>5, <1>6
<1>8. \A i \in Nat : q[i] \in Nat
  <2> DEFINE Bad == {i \in Nat : q[i] \notin Nat}
  <2>1. SUFFICES ASSUME Bad # {} PROVE FALSE
    OBVIOUS
  <2>2. PICK i \in Bad : \A j \in Bad : i <= j
    <3>1. Bad \subseteq Nat
      OBVIOUS
    <3> HIDE DEF Bad
    <3> QED BY <2>1, <3>1, LeastNat
  <2>3. i # 0
    BY <1>7, <2>2
  <2>4. PICK k \in Nat : i = k + 1
    <3>1. i - 1 \in Nat /\ i = (i - 1) + 1
      BY <2>2, <2>3
    <3> QED BY <3>1
  <2>5. k \notin Bad
    BY <2>2, <2>4
  <2>6. q[i] \in Nat
    BY <1>7, <2>4, <2>5
  <2> QED BY <2>2, <2>6
<1>9. q \in [Nat -> Nat]
  <2>1. DOMAIN q = Nat /\ q = [i \in Nat |-> q[i]]
    BY <1>5, <1>6
  <2> QED BY <1>8, <2>1
<1> QED BY <1>6, <1>7, <1>9

\* A larger exponent gives a larger power, and a power is larger than its exponent.
LEMMA Pow2Grows ==
  ASSUME NEW m \in Nat, NEW n \in Nat, m <= n
  PROVE  /\ Pow2[m] \in Nat /\ Pow2[n] \in Nat /\ Pow2[m] <= Pow2[n]
         /\ n < Pow2[n]
<1>1. PICK q : q = Pow2
  OBVIOUS
<1>2. q[0] = 1 /\ (\A i \in Nat : q[i] \in Nat) /\ \A i \in Nat : q[i + 1] = 2 * q[i]
  BY <1>1, Pow2Facts
<1>3. ASSUME NEW N \in Nat PROVE N < q[N] /\ (m <= N => q[m] <= q[N])
  <2> DEFINE Bad == {i \in Nat : ~(i < q[i] /\ (m <= i => q[m] <= q[i]))}
  <2>1. SUFFICES ASSUME Bad # {} PROVE FALSE
    OBVIOUS
  <2>2. PICK i \in Bad : \A j \in Bad : i <= j
    <3>1. Bad \subseteq Nat
      OBVIOUS
    <3> HIDE DEF Bad
    <3> QED BY <2>1, <3>1, LeastNat
  <2>3. CASE i = 0
    <3>1. i < q[i] /\ (m <= i => q[m] <= q[i])
      BY <1>2, <2>3
    <3> QED BY <2>2, <3>1
  <2>4. CASE i # 0
    <3>1. PICK k \in Nat : i = k + 1
      <4>1. i - 1 \in Nat /\ i = (i - 1) + 1
        BY <2>2, <2>4
      <4> QED BY <4>1
    <3>2. k \notin Bad
      BY <2>2, <3>1
    <3>3. k < q[k] /\ (m <= k => q[m] <= q[k])
      BY <3>2
    <3>4. q[i] = 2 * q[k] /\ q[k] \in Nat /\ q[i] \in Nat /\ q[m] \in Nat
      BY <1>2, <3>1
    <3>5. i < q[i]
      BY <3>1, <3>3, <3>4
    <3>6. m <= i => q[m] <= q[i]
      BY <3>1, <3>3, <3>4
    <3> QED BY <2>2, <3>5, <3>6
  <2> QED BY <2>3, <2>4
<1> QED BY <1>1, <1>2, <1>3

\* The word that counts the users of a file's frequency, and how many open files it is for.
Idx(p)         == Log2(Freq(p))
Count(o, p, w) == Cardinality({f \in o : Idx(p[f]) = w})

LEMMA GreatestOf ==
  ASSUME NEW N \in Nat, NEW S \in SUBSET (1 .. N), S # {}
  PROVE  \E i \in S : \A j \in S : j <= i
<1> DEFINE T == {k \in Nat : N - k \in S}
<1>1. T \in SUBSET Nat
  OBVIOUS
<1>2. T # {}
  <2>1. PICK i \in S : TRUE
    OBVIOUS
  <2>2. N - i \in Nat /\ N - (N - i) = i
    OBVIOUS
  <2> QED BY <2>2
<1>3. PICK k \in T : \A m \in T : k <= m
  <2> HIDE DEF T
  <2> QED BY <1>1, <1>2, LeastNat
<1>4. ASSUME NEW j \in S PROVE j <= N - k
  <2>1. N - j \in Nat /\ N - (N - j) = j /\ j \in Nat
    OBVIOUS
  <2>2. k <= N - j
    BY <1>3, <2>1
  <2> QED BY <1>3, <2>1, <2>2
<1> QED BY <1>3, <1>4

\* Rates and the words that count their users.
LEMMA RateFacts ==
         /\ MaxFreqLog2 \in Nat /\ MaxFreqLog2 > 1
         /\ Rates \subseteq Nat \ {0} /\ 2 \in Rates
         /\ \A i \in 1 .. MaxFreqLog2 : i \in Words
         /\ \A p \in Rates \cup {0} :
               Freq(p) \in Rates /\ Idx(p) \in Words
         /\ \A r \in Rates : r # TopRate =>
               Log2(r) \in 1 .. MaxFreqLog2 /\ Pow2[Log2(r)] = r
<1>1. MaxFreqLog2 \in Nat /\ MaxFreqLog2 > 1
  BY RtcConstants
<1>2. Rates \subseteq Nat \ {0}
  <2>1. \A i \in 1 .. MaxFreqLog2 : Pow2[i] \in Nat \ {0}
    BY <1>1, Pow2Grows
  <2> QED BY <2>1 DEF Rates
<1>3. 2 \in Rates
  <2>1. 0 \in Nat /\ 0 + 1 = 1 /\ 2 * 1 = 2 /\ 1 \in 1 .. MaxFreqLog2
    BY <1>1
  <2>2. Pow2[0 + 1] = 2 * Pow2[0] /\ Pow2[0] = 1
    BY Pow2Facts
  <2>3. Pow2[1] = 2
    BY <2>1, <2>2
  <2> QED BY <2>1, <2>3 DEF Rates
<1>4. TopRate \in Nat /\ MaxFreqLog2 < TopRate
  BY <1>1, Pow2Grows DEF TopRate
<1>5. \A i \in 1 .. MaxFreqLog2 : i \in Words
  BY <1>1, <1>4 DEF Words
<1>6. \A r : Log2(r) \in Words
  <2>1. TopRate \in Words
    BY <1>4 DEF Words
  <2>2. \A i \in 1 .. MaxFreqLog2 - 1 : i \in Words
    BY <1>1, <1>5
  <2>3. ASSUME NEW r PROVE Log2(r) \in 1 .. MaxFreqLog2 - 1 \/ Log2(r) = TopRate
    BY DEF Log2
  <2> QED BY <2>1, <2>2, <2>3
<1>7. \A p \in Rates \cup {0} : Freq(p) \in Rates /\ Idx(p) \in Words
  BY <1>3, <1>6 DEF Freq, Idx
<1>8. ASSUME NEW r \in Rates, r # TopRate
      PROVE  Log2(r) \in 1 .. MaxFreqLog2 /\ Pow2[Log2(r)] = r
  <2>1. PICK i \in 1 .. MaxFreqLog2 : r = Pow2[i]
    BY DEF Rates
  <2>2. i \in 1 .. MaxFreqLog2 - 1
    BY <1>1, <1>8, <2>1 DEF TopRate
  <2>3. Log2(r) \in 1 .. MaxFreqLog2 - 1 /\ r = Pow2[Log2(r)]
    BY <2>1, <2>2 DEF Log2
  <2> QED BY <1>1, <2>3
<1> QED BY <1>1, <1>2, <1>3, <1>5, <1>7, <1>8

\* max_freq is a rate that the hardware accepts, no lower than any with users.
LEMMA MaxFreqFacts ==
  ASSUME NEW users \in [Words -> Nat]
  PROVE  /\ MaxFreq(users) \in Rates
         /\ \A i \in 1 .. MaxFreqLog2 : users[i] > 0 => Pow2[i] <= MaxFreq(users)
<1> DEFINE used == {i \in 1 .. MaxFreqLog2 : users[i] > 0}
<1>1. CASE used = {}
  BY <1>1, RateFacts DEF MaxFreq
<1>2. CASE used # {}
  <2>1. used \in SUBSET (1 .. MaxFreqLog2) /\ MaxFreqLog2 \in Nat
    BY RateFacts
  <2>2. PICK m : m = CHOOSE i \in used : \A j \in used : j <= i
    OBVIOUS
  <2>3. m \in used /\ \A j \in used : j <= m
    <3>1. \E i \in used : \A j \in used : j <= i
      <4> HIDE DEF used
      <4> QED BY <1>2, <2>1, GreatestOf
    <3> HIDE DEF used
    <3> QED BY <2>2, <3>1
  <2>4. MaxFreq(users) = Pow2[m]
    BY <1>2, <2>2 DEF MaxFreq
  <2>5. MaxFreq(users) \in Rates
    BY <2>3, <2>4 DEF Rates
  <2>6. ASSUME NEW i \in 1 .. MaxFreqLog2, users[i] > 0
        PROVE  Pow2[i] <= MaxFreq(users)
    <3>1. i <= m /\ i \in Nat /\ m \in Nat
      BY <2>1, <2>3, <2>6
    <3> QED BY <2>4, <3>1, Pow2Grows
  <2> QED BY <2>5, <2>6
<1> QED BY <1>1, <1>2

LEMMA CountAdd ==
  ASSUME NEW o \in SUBSET Files, NEW f \in Files \ o,
         NEW p, NEW q, \A g \in o : q[g] = p[g], NEW w
  PROVE  /\ Count(o, p, w) \in Nat
         /\ Count(o \cup {f}, q, w) =
              IF Idx(q[f]) = w THEN Count(o, p, w) + 1 ELSE Count(o, p, w)
<1> DEFINE S == {g \in o : Idx(p[g]) = w}
           T == {g \in o \cup {f} : Idx(q[g]) = w}
<1>1. T = IF Idx(q[f]) = w THEN S \cup {f} ELSE S
  OBVIOUS
<1>2. IsFiniteSet(S) /\ f \notin S
  <2>1. S \in SUBSET Files
    OBVIOUS
  <2> HIDE DEF S
  <2>2. IsFiniteSet(S)
    BY <2>1, RtcConstants, FS_Subset
  <2> QED BY <2>2 DEF S
<1>3. Count(o, p, w) = Cardinality(S) /\ Count(o \cup {f}, q, w) = Cardinality(T)
  BY DEF Count
<1> HIDE DEF S, T
<1>4. Cardinality(S) \in Nat /\ Cardinality(S \cup {f}) = Cardinality(S) + 1
  BY <1>2, FS_CardinalityType, FS_AddElement
<1> QED BY <1>1, <1>3, <1>4

LEMMA CountRemove ==
  ASSUME NEW o \in SUBSET Files, NEW f \in o, NEW p, NEW w
  PROVE  /\ Count(o, p, w) \in Nat /\ Count(o \ {f}, p, w) \in Nat
         /\ Count(o \ {f}, p, w) =
              IF Idx(p[f]) = w THEN Count(o, p, w) - 1 ELSE Count(o, p, w)
<1> DEFINE S == {g \in o : Idx(p[g]) = w}
           T == {g \in o \ {f} : Idx(p[g]) = w}
<1>1. T = IF Idx(p[f]) = w THEN S \ {f} ELSE S
  OBVIOUS
<1>2. Idx(p[f]) = w => f \in S
  OBVIOUS
<1>3. S \in SUBSET Files /\ T \in SUBSET Files
  OBVIOUS
<1>4. Count(o, p, w) = Cardinality(S) /\ Count(o \ {f}, p, w) = Cardinality(T)
  BY DEF Count
<1> HIDE DEF S, T
<1>5. IsFiniteSet(S) /\ IsFiniteSet(T)
  BY <1>3, RtcConstants, FS_Subset
<1>6. Cardinality(S) \in Nat /\ Cardinality(T) \in Nat
  BY <1>5, FS_CardinalityType
<1>7. f \in S => Cardinality(S \ {f}) = Cardinality(S) - 1
  BY <1>5, FS_RemoveElement
<1> QED BY <1>1, <1>2, <1>4, <1>6, <1>7

\* The counters and the users, as one statement.
Counted == \A w \in Words : freq_users[w] = Count(open, pos, w) + abandoned[w]

LEMMA CountedIs == UsersCounted <=> Counted
BY DEF UsersCounted, Counted, Count, Idx

ClockInv == TypeOK /\ Counted

\* Files, counters and frequencies of one open or close, write or exit.
LEMMA OpenUsers ==
  ASSUME ClockInv, NEW f \in Files, Open(f)
  PROVE  freq_users' \in [Words -> Nat] /\ Counted'
<1>1. 0 \in Rates \cup {0} /\ Idx(2) = Idx(0) /\ Idx(0) \in Words
  BY RateFacts DEF Idx, Freq
<1>2. /\ freq_users \in [Words -> Nat] /\ abandoned \in [Words -> Nat]
      /\ open \in SUBSET Files /\ pos \in [Files -> Rates \cup {0}]
  BY DEF ClockInv, TypeOK
<1>3. /\ f \in Files \ open /\ open' = open \cup {f} /\ pos' = [pos EXCEPT ![f] = 0]
      /\ freq_users' = [freq_users EXCEPT ![Idx(0)] = freq_users[Idx(0)] + 1]
      /\ abandoned' = abandoned
  BY <1>1 DEF Open, IncUsers, Idx
<1>4. freq_users' \in [Words -> Nat]
  BY <1>1, <1>2, <1>3
<1>5. ASSUME NEW w \in Words PROVE freq_users'[w] = Count(open', pos', w) + abandoned'[w]
  <2>1. /\ Count(open, pos, w) \in Nat
        /\ Count(open', pos', w) = IF Idx(0) = w THEN Count(open, pos, w) + 1 ELSE Count(open, pos, w)
    <3>1. PICK q : q = pos'
      OBVIOUS
    <3>2. q[f] = 0 /\ \A g \in open : q[g] = pos[g]
      BY <1>2, <1>3, <3>1
    <3>3. /\ Count(open, pos, w) \in Nat
          /\ Count(open \cup {f}, q, w) =
               IF Idx(q[f]) = w THEN Count(open, pos, w) + 1 ELSE Count(open, pos, w)
      BY <1>2, <1>3, <3>2, CountAdd
    <3> QED BY <1>3, <3>1, <3>2, <3>3
  <2>2. freq_users[w] = Count(open, pos, w) + abandoned[w] /\ abandoned[w] \in Nat
    BY <1>2 DEF ClockInv, Counted
  <2>3. freq_users'[w] = IF Idx(0) = w THEN freq_users[w] + 1 ELSE freq_users[w]
    BY <1>1, <1>2, <1>3
  <2> QED BY <1>3, <2>1, <2>2, <2>3
<1> QED BY <1>4, <1>5 DEF Counted

\* A file that has been counted can be counted down.
LEMMA DecFacts ==
  ASSUME ClockInv, NEW f \in open
  PROVE  /\ DecUsers(freq_users, pos[f]) \in [Words -> Nat]
         /\ \A w \in Words :
               DecUsers(freq_users, pos[f])[w] = Count(open \ {f}, pos, w) + abandoned[w]
<1>1. /\ freq_users \in [Words -> Nat] /\ abandoned \in [Words -> Nat]
      /\ open \in SUBSET Files /\ pos \in [Files -> Rates \cup {0}]
  BY DEF ClockInv, TypeOK
<1>2. Idx(pos[f]) \in Words
  BY <1>1, RateFacts
<1>3. PICK u : u = DecUsers(freq_users, pos[f])
  OBVIOUS
<1>4. u = [freq_users EXCEPT ![Idx(pos[f])] = freq_users[Idx(pos[f])] - 1]
  BY <1>3 DEF DecUsers, Idx
<1>5. ASSUME NEW w \in Words
      PROVE  u[w] = Count(open \ {f}, pos, w) + abandoned[w] /\ u[w] \in Nat
  <2>1. /\ Count(open, pos, w) \in Nat /\ Count(open \ {f}, pos, w) \in Nat
        /\ Count(open \ {f}, pos, w) =
             IF Idx(pos[f]) = w THEN Count(open, pos, w) - 1 ELSE Count(open, pos, w)
    BY <1>1, CountRemove
  <2>2. freq_users[w] = Count(open, pos, w) + abandoned[w] /\ abandoned[w] \in Nat
    BY <1>1 DEF ClockInv, Counted
  <2>3. u[w] = IF Idx(pos[f]) = w THEN freq_users[w] - 1 ELSE freq_users[w]
    BY <1>1, <1>2, <1>4
  <2> QED BY <2>1, <2>2, <2>3
<1>6. u \in [Words -> Nat]
  <2>1. u = [w \in Words |-> u[w]]
    BY <1>1, <1>4
  <2> QED BY <1>5, <2>1
<1> QED BY <1>3, <1>5, <1>6

LEMMA CloseUsers ==
  ASSUME ClockInv, NEW f \in Files, Close(f)
  PROVE  freq_users' \in [Words -> Nat] /\ Counted'
<1>1. /\ f \in open /\ open' = open \ {f} /\ pos' = pos /\ abandoned' = abandoned
      /\ freq_users' = DecUsers(freq_users, pos[f])
  BY DEF Close
<1> QED BY <1>1, DecFacts DEF Counted

LEMMA ExitUsers ==
  ASSUME ClockInv, NEW f \in Files, Exit(f)
  PROVE  abandoned' \in [Words -> Nat] /\ Counted'
<1>1. /\ freq_users \in [Words -> Nat] /\ abandoned \in [Words -> Nat]
      /\ open \in SUBSET Files /\ pos \in [Files -> Rates \cup {0}]
  BY DEF ClockInv, TypeOK
<1>2. /\ f \in open /\ open' = open \ {f} /\ pos' = pos /\ freq_users' = freq_users
      /\ abandoned' = [abandoned EXCEPT ![Idx(pos[f])] = abandoned[Idx(pos[f])] + 1]
  BY DEF Exit, IncUsers, Idx
<1>3. Idx(pos[f]) \in Words
  BY <1>1, RateFacts
<1>4. abandoned' \in [Words -> Nat]
  BY <1>1, <1>2, <1>3
<1>5. ASSUME NEW w \in Words PROVE freq_users'[w] = Count(open', pos', w) + abandoned'[w]
  <2>1. /\ Count(open, pos, w) \in Nat
        /\ Count(open', pos', w) =
             IF Idx(pos[f]) = w THEN Count(open, pos, w) - 1 ELSE Count(open, pos, w)
    BY <1>1, <1>2, CountRemove
  <2>2. freq_users[w] = Count(open, pos, w) + abandoned[w] /\ abandoned[w] \in Nat
    BY <1>1 DEF ClockInv, Counted
  <2>3. abandoned'[w] = IF Idx(pos[f]) = w THEN abandoned[w] + 1 ELSE abandoned[w]
    BY <1>1, <1>2, <1>3
  <2> QED BY <1>2, <2>1, <2>2, <2>3
<1> QED BY <1>4, <1>5 DEF Counted

LEMMA WriteUsers ==
  ASSUME ClockInv, NEW f \in Files, NEW freq, Write(f, freq)
  PROVE  /\ freq_users' \in [Words -> Nat] /\ Counted'
         /\ pos' \in [Files -> Rates \cup {0}]
<1>1. /\ freq_users \in [Words -> Nat] /\ abandoned \in [Words -> Nat]
      /\ open \in SUBSET Files /\ pos \in [Files -> Rates \cup {0}]
  BY DEF ClockInv, TypeOK
<1>2. PICK new \in Rates \cup {0} : new = IF freq \in Rates THEN freq ELSE 0
  OBVIOUS
<1>3. PICK u : u = DecUsers(freq_users, pos[f])
  OBVIOUS
<1>4. /\ f \in open /\ open' = open /\ pos' = [pos EXCEPT ![f] = new] /\ abandoned' = abandoned
      /\ freq_users' = [u EXCEPT ![Idx(new)] = u[Idx(new)] + 1]
  BY <1>2, <1>3 DEF Write, IncUsers, Idx
<1>5. Idx(new) \in Words
  BY <1>2, RateFacts
<1>6. /\ u \in [Words -> Nat]
      /\ \A w \in Words : u[w] = Count(open \ {f}, pos, w) + abandoned[w]
  BY <1>3, <1>4, DecFacts
<1>7. freq_users' \in [Words -> Nat]
  BY <1>4, <1>5, <1>6
<1>8. ASSUME NEW w \in Words PROVE freq_users'[w] = Count(open', pos', w) + abandoned'[w]
  <2>1. PICK o \in SUBSET Files : o = open \ {f}
    BY <1>1
  <2>2. f \in Files \ o /\ open' = o \cup {f}
    BY <1>4, <2>1
  <2>3. /\ Count(o, pos, w) \in Nat
        /\ Count(open', pos', w) =
             IF Idx(new) = w THEN Count(o, pos, w) + 1 ELSE Count(o, pos, w)
    <3>1. PICK q : q = pos'
      OBVIOUS
    <3>2. q[f] = new /\ \A g \in o : q[g] = pos[g]
      BY <1>1, <1>4, <2>1, <3>1
    <3>3. /\ Count(o, pos, w) \in Nat
          /\ Count(o \cup {f}, q, w) =
               IF Idx(q[f]) = w THEN Count(o, pos, w) + 1 ELSE Count(o, pos, w)
      BY <2>2, <3>2, CountAdd
    <3> QED BY <2>2, <3>1, <3>2, <3>3
  <2>4. u[w] = Count(o, pos, w) + abandoned[w] /\ abandoned[w] \in Nat
    BY <1>1, <1>6, <2>1
  <2>5. freq_users'[w] = IF Idx(new) = w THEN u[w] + 1 ELSE u[w]
    BY <1>4, <1>5, <1>6
  <2> QED BY <1>4, <2>2, <2>3, <2>4, <2>5
<1>9. pos' \in [Files -> Rates \cup {0}]
  BY <1>1, <1>2, <1>4
<1> QED BY <1>7, <1>8, <1>9 DEF Counted

LEMMA ClockStep ==
  ASSUME ClockInv, [RtcNext]_rtcVars
  PROVE  ClockInv'
<1>1. /\ current_freq \in Rates /\ num_tics \in Nat /\ freq_users \in [Words -> Nat]
      /\ open \subseteq Files /\ pos \in [Files -> Rates \cup {0}] /\ reading \subseteq open
      /\ desired_tics \in [Files -> Nat] /\ began \in [Files -> Nat]
      /\ abandoned \in [Words -> Nat] /\ Counted
  BY DEF ClockInv, TypeOK
<1>2. UNCHANGED <<freq_users, open, pos, abandoned>> => Counted'
  BY <1>1 DEF Counted
<1>3. CASE Tick
  <2>1. ClockInv' <=> TypeOK' /\ Counted'
    BY DEF ClockInv
  <2>2. Counted'
    BY <1>2, <1>3 DEF Tick, userVars
  <2>3. TypeOK'
    BY <1>1, <1>3 DEF Tick, userVars, readVars, TypeOK
  <2> QED BY <2>1, <2>2, <2>3
<1>4. ASSUME NEW f \in Files, Open(f) PROVE ClockInv'
  <2>1. freq_users' \in [Words -> Nat] /\ Counted'
    BY <1>4, OpenUsers
  <2>2. current_freq' \in Rates
    BY <1>4, <2>1, MaxFreqFacts DEF Open
  <2>3. TypeOK'
    BY <1>1, <1>4, <2>1, <2>2 DEF Open, readVars, TypeOK
  <2> QED BY <2>1, <2>3 DEF ClockInv
<1>5. ASSUME NEW f \in Files, Close(f) PROVE ClockInv'
  <2>1. freq_users' \in [Words -> Nat] /\ Counted'
    BY <1>5, CloseUsers
  <2>2. current_freq' \in Rates
    BY <1>5, <2>1, MaxFreqFacts DEF Close
  <2>3. TypeOK'
    BY <1>1, <1>5, <2>1, <2>2 DEF Close, readVars, TypeOK
  <2> QED BY <2>1, <2>3 DEF ClockInv
<1>6. ASSUME NEW f \in Files, Exit(f) PROVE ClockInv'
  <2>1. abandoned' \in [Words -> Nat] /\ Counted'
    BY <1>6, ExitUsers
  <2>2. TypeOK'
    BY <1>1, <1>6, <2>1 DEF Exit, readVars, TypeOK
  <2> QED BY <2>1, <2>2 DEF ClockInv
<1>7. ASSUME NEW f \in Files, NEW freq \in Inputs, Write(f, freq) PROVE ClockInv'
  <2>1. /\ freq_users' \in [Words -> Nat] /\ Counted'
        /\ pos' \in [Files -> Rates \cup {0}]
    BY <1>7, WriteUsers
  <2>2. current_freq' \in Rates
    BY <1>1, <1>7 DEF Write
  <2>3. TypeOK'
    BY <1>1, <1>7, <2>1, <2>2 DEF Write, readVars, TypeOK
  <2> QED BY <2>1, <2>3 DEF ClockInv
<1>8. ASSUME NEW f \in Files, ReadBegin(f) PROVE ClockInv'
  <2>1. PICK r \in Nat \ {0} : r = Freq(pos[f])
    BY <1>1, RateFacts
  <2>2. PICK c \in Nat : c = current_freq
    BY <1>1, RateFacts
  <2>3. PICK d \in Nat : d = num_tics + (c \div r)
    <3>1. PICK e \in Nat : e = c \div r
      OBVIOUS
    <3>2. PICK t \in Nat : t = num_tics
      BY <1>1
    <3>3. t + e \in Nat
      OBVIOUS
    <3> QED BY <3>1, <3>2, <3>3
  <2>4. desired_tics' = [desired_tics EXCEPT ![f] = d] /\ desired_tics' \in [Files -> Nat]
    BY <1>1, <1>8, <2>1, <2>2, <2>3 DEF ReadBegin
  <2>5. began' \in [Files -> Nat]
    BY <1>1, <1>8 DEF ReadBegin
  <2>6. Counted'
    BY <1>2, <1>8 DEF ReadBegin, userVars
  <2>7. TypeOK'
    BY <1>1, <1>8, <2>4, <2>5 DEF ReadBegin, userVars, TypeOK
  <2> QED BY <2>6, <2>7 DEF ClockInv
<1>9. ASSUME NEW f \in Files, ReadReturn(f) PROVE ClockInv'
  <2>1. Counted'
    BY <1>2, <1>9 DEF ReadReturn, userVars
  <2>2. TypeOK'
    BY <1>1, <1>9 DEF ReadReturn, userVars, TypeOK
  <2> QED BY <2>1, <2>2 DEF ClockInv
<1>10. CASE UNCHANGED rtcVars
  <2>1. Counted'
    BY <1>2, <1>10 DEF rtcVars, userVars
  <2>2. TypeOK'
    BY <1>1, <1>10 DEF rtcVars, userVars, readVars, TypeOK
  <2> QED BY <2>1, <2>2 DEF ClockInv
<1> QED BY <1>3, <1>4, <1>5, <1>6, <1>7, <1>8, <1>9, <1>10 DEF RtcNext

LEMMA ClockInit ==
  ASSUME RtcInit
  PROVE  ClockInv
<1>1. \A w : Count(open, pos, w) = 0
  BY FS_EmptySet DEF RtcInit, Count
<1>2. Counted
  BY <1>1 DEF RtcInit, Counted
<1>3. TypeOK
  BY RateFacts DEF RtcInit, TypeOK
<1> QED BY <1>2, <1>3 DEF ClockInv

\* The counters never leave the naturals, and every rate is one that rtc_set_freq accepts,
\* for any highest rate, any descriptors and any numbers written: TypeOK of Rtc.
THEOREM RtcTypeCorrect ==
  RtcSpec => []TypeOK
<1>1. RtcInit => ClockInv
  BY ClockInit
<1>2. ClockInv /\ [RtcNext]_rtcVars => ClockInv'
  BY ClockStep
<1>3. ClockInv => TypeOK
  BY DEF ClockInv
<1> QED BY <1>1, <1>2, <1>3, PTL DEF RtcSpec

\* UsersCounted of Rtc: inc_users and dec_users of rtc.c count exactly the open files and
\* those that an exit left behind, however they are opened, written, closed and abandoned.
THEOREM RtcUsersAreCounted ==
  RtcSpec => []UsersCounted
<1>1. RtcInit => ClockInv
  BY ClockInit
<1>2. ClockInv /\ [RtcNext]_rtcVars => ClockInv'
  BY ClockStep
<1>3. ClockInv => UsersCounted
  BY CountedIs DEF ClockInv
<1> QED BY <1>1, <1>2, <1>3, PTL DEF RtcSpec

\* RateServesOpen of Rtc: rtc_open and rtc_close leave the hardware at a rate that serves
\* every file open then, those that asked for the highest rate excepted.
THEOREM RtcServesItsUsers ==
  RtcSpec => RateServesOpen
<1> DEFINE Serves == \A g \in open' : Freq(pos'[g]) # TopRate
                                        => current_freq' >= Freq(pos'[g])
<1>1. RtcInit => ClockInv
  BY ClockInit
<1>2. ClockInv /\ [RtcNext]_rtcVars => ClockInv'
  BY ClockStep
<1>3. ASSUME ClockInv, ClockInv', current_freq' = MaxFreq(freq_users') PROVE Serves
  <2>1. /\ freq_users' \in [Words -> Nat] /\ abandoned' \in [Words -> Nat]
        /\ open' \in SUBSET Files /\ pos' \in [Files -> Rates \cup {0}] /\ Counted'
    BY <1>3 DEF ClockInv, TypeOK
  <2>2. SUFFICES ASSUME NEW g \in open', Freq(pos'[g]) # TopRate
                 PROVE  current_freq' >= Freq(pos'[g])
    OBVIOUS
  <2>3. PICK r \in Rates : r = Freq(pos'[g])
    BY <2>1, RateFacts
  <2>4. PICK i \in 1 .. MaxFreqLog2 : i = Log2(r) /\ Pow2[i] = r
    BY <2>2, <2>3, RateFacts
  <2>5. i \in Words /\ i = Idx(pos'[g])
    BY <2>3, <2>4, RateFacts DEF Idx
  <2>6. Count(open', pos', i) \in Nat /\ Count(open' \ {g}, pos', i) \in Nat
        /\ Count(open' \ {g}, pos', i) = Count(open', pos', i) - 1
    BY <2>1, <2>5, CountRemove
  <2>7. freq_users'[i] = Count(open', pos', i) + abandoned'[i] /\ abandoned'[i] \in Nat
    BY <2>1, <2>5 DEF Counted
  <2>8. freq_users'[i] > 0
    BY <2>6, <2>7
  <2>9. r <= MaxFreq(freq_users') /\ MaxFreq(freq_users') \in Nat /\ r \in Nat
    <3>1. PICK users \in [Words -> Nat] : users = freq_users'
      BY <2>1
    <3>2. MaxFreq(users) \in Rates /\ (users[i] > 0 => Pow2[i] <= MaxFreq(users))
      BY MaxFreqFacts
    <3> QED BY <2>4, <2>8, <3>1, <3>2, RateFacts
  <2> QED BY <1>3, <2>3, <2>9
<1>4. ClockInv /\ ClockInv' => ((\E f \in Files : Open(f) \/ Close(f)) => Serves)
  <2>1. (\E f \in Files : Open(f) \/ Close(f))
          => current_freq' = MaxFreq(freq_users')
    BY DEF Open, Close
  <2> QED BY <1>3, <2>1
<1> QED BY <1>1, <1>2, <1>4, PTL DEF RtcSpec, RateServesOpen
=============================================================================
