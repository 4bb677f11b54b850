---------------------------- MODULE FilesProofs ----------------------------
(***************************************************************************)
(* The read-only file system, for any image, any number of processes and   *)
(* descriptors and any lengths: reads return the file in order, a          *)
(* directory is listed once, an undamaged program is loaded whole, a       *)
(* descriptor in use stays the same file, and the two standard ones stay   *)
(* standard input and output.                                              *)
(*                                                                         *)
(* The argument has two parts: what read_data returns (CopyBlocksFacts,    *)
(* ReadDataFacts), and an invariant of the tables that relates the         *)
(* position of every descriptor to the bytes read through it (EntryOK).    *)
(***************************************************************************)
EXTENDS Files, SequenceTheorems, WellFoundedInduction, TLAPS

\* Every process has a table, and while it runs the two descriptors are as a new process
\* has them: nothing moves their position.
TablesOK ==
    /\ DOMAIN open_files = Procs /\ DOMAIN program = Procs
    /\ \A p \in Procs : DOMAIN open_files[p] = Fds
    /\ \A p \in Procs : Runs(p) => /\ open_files[p][STDIN_FD] = NewFile("stdin", 0)
                                  /\ open_files[p][STDOUT_FD] = NewFile("stdout", 0)

\* The standard descriptors are descriptors, and no free ones.
LEMMA StandardFds ==
  /\ STDIN_FD \in Fds /\ STDOUT_FD \in Fds /\ STDIN_FD # STDOUT_FD
  /\ NewTable[STDIN_FD] = NewFile("stdin", 0) /\ NewTable[STDOUT_FD] = NewFile("stdout", 0)
  /\ NewFile("stdin", 0) # NoFile /\ NewFile("stdout", 0) # NoFile
  /\ DOMAIN NewTable = Fds
  /\ NewFile("stdin", 0).ops = "stdin" /\ NewFile("stdout", 0).ops = "stdout"
BY FileTableConstants DEF STDIN_FD, STDOUT_FD, Fds, NewTable, NewFile, NoFile

\* A table whose entry at most one other than the standard descriptors changed.
LEMMA OneEntryStep ==
  ASSUME TablesOK, NEW p \in Procs, NEW fd, NEW f, fd \notin {STDIN_FD, STDOUT_FD},
         open_files' = [open_files EXCEPT ![p] = [open_files[p] EXCEPT ![fd] = f]],
         UNCHANGED program
  PROVE  TablesOK'
BY StandardFds DEF TablesOK, Runs

\* find_new_fd never answers with a standard descriptor of a running program.
LEMMA NewFdFree ==
  ASSUME NEW table, FindNewFd(table) >= 0
  PROVE  FindNewFd(table) \in Fds /\ table[FindNewFd(table)] = NoFile
<1>1. \E fd \in Fds : table[fd] = NoFile
  BY DEF FindNewFd
<1> DEFINE S == {fd \in Fds : table[fd] = NoFile}
<1>2. \E fd \in S : \A g \in S : fd <= g
  <2>1. S \subseteq Nat /\ S # {}
    BY <1>1, FileTableConstants DEF Fds
  <2>2. PICK x \in S : \A y \in S : ~(<<y, x>> \in OpToRel(<, Nat))
    BY <2>1, NatLessThanWellFounded, WFMin
  <2>3. \A y \in S : ~(y < x)
    BY <2>1, <2>2 DEF OpToRel
  <2> QED BY <2>1, <2>3
<1> QED BY <1>1, <1>2 DEF FindNewFd

-----------------------------------------------------------------------------
(* Steps.                                                                  *)

LEMMA SyscallOpenStep ==
  ASSUME TablesOK, NEW p \in Procs, NEW name, SyscallOpen(p, name) PROVE TablesOK'
<1> DEFINE fd == FindNewFd(open_files[p])
           f == FileOf(name)
<1>1. fd \in Fds /\ open_files[p][fd] = NoFile
  BY NewFdFree DEF SyscallOpen
<1>2. fd \notin {STDIN_FD, STDOUT_FD}
  BY <1>1, StandardFds DEF TablesOK, SyscallOpen
<1>3. open_files' = [open_files EXCEPT ![p] = [open_files[p] EXCEPT ![fd] = f]]
  <2>1. ~(fd < 0)
    BY <1>1, FileTableConstants DEF Fds
  <2> QED BY <2>1 DEF SyscallOpen, Opened
<1>4. UNCHANGED program
  BY DEF SyscallOpen
<1> HIDE DEF fd, f
<1> QED BY <1>2, <1>3, <1>4, OneEntryStep

LEMMA SyscallOpenStdStep ==
  ASSUME TablesOK, NEW p \in Procs, NEW fd \in Fds, SyscallOpenStd(p, fd) PROVE TablesOK'
BY StandardFds DEF SyscallOpenStd, TablesOK, Runs

LEMMA SyscallReadStep ==
  ASSUME TablesOK, NEW p \in Procs, NEW fd \in Fds, NEW length, SyscallRead(p, fd, length)
  PROVE  TablesOK'
<1> DEFINE f == open_files[p][fd]
           r == IF f.ops = "file" THEN FileRead(f, length) ELSE DirectoryRead(f, length)
<1>1. open_files' = [open_files EXCEPT ![p] = [open_files[p] EXCEPT ![fd] = r.file]]
  BY DEF SyscallRead
<1>2. f.ops \in {"file", "dir"} /\ Runs(p) /\ UNCHANGED program
  BY DEF SyscallRead
<1>3. fd \notin {STDIN_FD, STDOUT_FD}
  BY <1>2, StandardFds DEF TablesOK
<1> HIDE DEF r
<1> QED BY <1>1, <1>2, <1>3, OneEntryStep

\* Writing to the screen leaves its descriptor as it was.
LEMMA SyscallWriteStep ==
  ASSUME TablesOK, NEW p \in Procs, NEW fd \in Fds, NEW rate, SyscallWrite(p, fd, rate)
  PROVE  TablesOK'
<1> DEFINE f == open_files[p][fd]
           g == [f EXCEPT !.pos = IF f.ops = "rtc" THEN rate ELSE f.pos]
<1>1. open_files' = [open_files EXCEPT ![p] = [open_files[p] EXCEPT ![fd] = g]]
  BY DEF SyscallWrite
<1>2. Runs(p) /\ UNCHANGED program
  BY DEF SyscallWrite
<1>3. CASE fd \notin {STDIN_FD, STDOUT_FD}
  <2> HIDE DEF g
  <2> QED BY <1>1, <1>2, <1>3, OneEntryStep
<1>4. CASE fd \in {STDIN_FD, STDOUT_FD}
  <2>1. f = NewFile("stdin", 0) \/ f = NewFile("stdout", 0)
    BY <1>2, <1>4 DEF TablesOK
  <2>2. g = f
    BY <2>1 DEF NewFile
  <2> HIDE DEF g
  <2> QED BY <1>1, <1>2, <2>2, StandardFds DEF TablesOK, Runs
<1> QED BY <1>3, <1>4

\* close refuses the standard descriptors.
LEMMA SyscallCloseStep ==
  ASSUME TablesOK, NEW p \in Procs, NEW fd \in Fds, SyscallClose(p, fd) PROVE TablesOK'
<1>1. open_files' = [open_files EXCEPT ![p] = Closed(open_files[p], fd)] /\ UNCHANGED program
  BY DEF SyscallClose
<1>2. CASE ValidFd(open_files[p], fd) /\ fd \notin {STDIN_FD, STDOUT_FD}
  BY <1>1, <1>2, OneEntryStep DEF Closed
<1>3. CASE ~(ValidFd(open_files[p], fd) /\ fd \notin {STDIN_FD, STDOUT_FD})
  <2>1. Closed(open_files[p], fd) = open_files[p]
    BY <1>3 DEF Closed
  <2> QED BY <1>1, <2>1 DEF TablesOK, Runs
<1> QED BY <1>2, <1>3

\* A new program has new descriptors; one that halts has none that count.
LEMMA ExecuteStep ==
  ASSUME TablesOK, NEW p \in Procs, NEW name, Execute(p, name) PROVE TablesOK'
BY StandardFds DEF Execute, TablesOK, Runs

LEMMA HaltStep == ASSUME TablesOK, NEW p \in Procs, Halt(p) PROVE TablesOK'
BY DEF Halt, TablesOK, Runs

LEMMA FilesNext == ASSUME TablesOK, [Next]_vars PROVE TablesOK'
<1>1. CASE UNCHANGED vars
  BY <1>1 DEF vars, TablesOK, Runs
<1>2. CASE Next
  BY <1>2, SyscallOpenStep, SyscallOpenStdStep, SyscallReadStep, SyscallWriteStep,
     SyscallCloseStep, ExecuteStep, HaltStep DEF Next
<1> QED BY <1>1, <1>2

-----------------------------------------------------------------------------
(* read_data on a file whose blocks all exist.                             *)

\* Dividing a position by the block size.
LEMMA BlockOf ==
  ASSUME NEW o \in Nat, NEW j \in Nat, (o % BLOCK_SIZE) + j < BLOCK_SIZE
  PROVE  (o + j) \div BLOCK_SIZE = o \div BLOCK_SIZE /\ (o + j) % BLOCK_SIZE = (o % BLOCK_SIZE) + j
<1>1. PICK B \in Nat \ {0} : B = BLOCK_SIZE
  BY FilesConstants
<1>2. PICK q \in Nat : q = o \div B
  BY <1>1
<1>3. PICK r \in 0 .. B - 1 : r = o % B
  BY <1>1
<1>4. o = B * q + r
  BY <1>1, <1>2, <1>3
<1>5. r + j \in 0 .. B - 1
  BY <1>1, <1>3
<1>6. PICK q2 \in Nat : q2 = (o + j) \div B
  BY <1>1
<1>7. PICK r2 \in 0 .. B - 1 : r2 = (o + j) % B
  BY <1>1
<1>8. o + j = B * q2 + r2
  BY <1>1, <1>6, <1>7
<1>9. B * q2 + r2 = B * q + (r + j)
  BY <1>4, <1>8, <1>1
<1>10. q2 = q
  <2>1. CASE q2 > q
    <3>1. B * q2 >= B * q + B
      <4>1. PICK d \in Nat : q2 = q + 1 + d
        <5>1. q2 - q - 1 \in Nat /\ q2 = q + 1 + (q2 - q - 1)
          BY <2>1, <1>2, <1>6
        <5> QED BY <5>1
      <4>2. B * q2 = B * q + B + B * d /\ B * d \in Nat
        BY <4>1, <1>1, <1>2
      <4> QED BY <4>2, <1>1, <1>2, <1>6
    <3> QED BY <3>1, <1>9, <1>5, <1>7, <1>1, <1>2, <1>6
  <2>2. CASE q2 < q
    <3>1. B * q >= B * q2 + B
      <4>1. PICK d \in Nat : q = q2 + 1 + d
        <5>1. q - q2 - 1 \in Nat /\ q = q2 + 1 + (q - q2 - 1)
          BY <2>2, <1>2, <1>6
        <5> QED BY <5>1
      <4>2. B * q = B * q2 + B + B * d /\ B * d \in Nat
        BY <4>1, <1>1, <1>6
      <4> QED BY <4>2, <1>1, <1>2, <1>6
    <3> QED BY <3>1, <1>9, <1>5, <1>7, <1>1, <1>2, <1>6
  <2> QED BY <2>1, <2>2, <1>2, <1>6
<1>11. r2 = r + j
  BY <1>9, <1>10, <1>5, <1>7, <1>1, <1>2
<1> QED BY <1>1, <1>2, <1>3, <1>6, <1>7, <1>10, <1>11

\* The i-th byte of a file, and the n bytes that end at a position.
Byte(inode, i) == DataBlocks[inode.data_blocks[(i - 1) \div BLOCK_SIZE]][((i - 1) % BLOCK_SIZE) + 1]
Piece(inode, end, n) == [i \in 1 .. n |-> Byte(inode, end - n + i)]

\* One turn of the loop, given what the rest of it does.
CopyTurn(inode, end, copy, length) ==
    IF length = 0 THEN [ret |-> 0, data |-> <<>>]
    ELSE LET offset == end - length
             block  == inode.data_blocks[offset \div BLOCK_SIZE]
             n      == BytesHere(offset, length)
         IN  IF block \notin DOMAIN DataBlocks
             THEN [ret |-> -1, data |-> <<>>]
             ELSE LET rest == copy[length - n]
                      from == offset % BLOCK_SIZE
                  IN  [ret  |-> IF rest.ret < 0 THEN -1 ELSE n + rest.ret,
                       data |-> SubSeq(DataBlocks[block], from + 1, from + n) \o rest.data]

LEMMA CopyTurnFacts ==
  ASSUME NEW inode, Intact(inode), inode.length \in Nat, NEW end \in 0 .. inode.length,
         NEW length \in 1 .. end, NEW copy,
         \A l \in 0 .. length - 1 : copy[l] = [ret |-> l, data |-> Piece(inode, end, l)]
  PROVE  CopyTurn(inode, end, copy, length) = [ret |-> length, data |-> Piece(inode, end, length)]
<1>1. PICK offset \in Nat : offset = end - length
  OBVIOUS
<1>2. PICK from \in 0 .. BLOCK_SIZE - 1 : from = offset % BLOCK_SIZE
  BY FilesConstants
<1>3. PICK n : n = BytesHere(offset, length)
  OBVIOUS
<1>4. n \in Nat /\ n \in 1 .. length /\ from + n <= BLOCK_SIZE
  BY <1>2, <1>3, FilesConstants DEF BytesHere
<1>5. PICK b \in DOMAIN DataBlocks : b = inode.data_blocks[offset \div BLOCK_SIZE]
  BY <1>1 DEF Intact
<1>6. PICK rest : rest = Piece(inode, end, length - n)
  OBVIOUS
<1>7. PICK part : part = SubSeq(DataBlocks[b], from + 1, from + n)
  OBVIOUS
<1>8. copy[length - n] = [ret |-> length - n, data |-> rest]
  BY <1>4, <1>6
<1>9. CopyTurn(inode, end, copy, length) = [ret |-> length, data |-> part \o rest]
  <2>1. PICK c : c = copy[length - n]
    OBVIOUS
  <2>2. c.ret = length - n /\ c.data = rest /\ ~(c.ret < 0) /\ n + c.ret = length
    BY <1>8, <1>4, <2>1
  <2>3. length # 0
    OBVIOUS
  <2>4. CopyTurn(inode, end, copy, length) =
          [ret  |-> IF c.ret < 0 THEN -1 ELSE n + c.ret,
           data |-> SubSeq(DataBlocks[b], from + 1, from + n) \o c.data]
    BY <1>1, <1>2, <1>3, <1>5, <2>1, <2>3, Zenon DEF CopyTurn
  <2> QED BY <2>2, <2>4, <1>7, Zenon
<1>10. PICK S : S = {DataBlocks[b][i] : i \in 1 .. BLOCK_SIZE} \cup {Byte(inode, i) : i \in 1 .. end}
  OBVIOUS
<1>11. /\ part \in Seq(S) /\ Len(part) = n
       /\ \A i \in 1 .. n : part[i] = DataBlocks[b][from + i]
  <2>1. \A i \in from + 1 .. from + n : DataBlocks[b][i] \in S
    BY <1>2, <1>4, <1>10, FilesConstants
  <2>2. PICK m \in Int : m = from + 1
    BY <1>2
  <2>3. PICK k \in Int : k = from + n
    BY <1>2, <1>4
  <2>4. /\ part \in Seq(S) /\ Len(part) = IF m <= k THEN k - m + 1 ELSE 0
        /\ \A i \in 1 .. k - m + 1 : part[i] = DataBlocks[b][m + i - 1]
    BY <2>1, <2>2, <2>3, <1>7, SubSeqProperties
  <2>5. k - m + 1 = n /\ m <= k /\ \A i \in 1 .. n : m + i - 1 = from + i
    BY <2>2, <2>3, <1>2, <1>4, FilesConstants
  <2> QED BY <2>4, <2>5
<1>12. rest \in Seq(S) /\ Len(rest) = length - n
  <2>1. \A i \in 1 .. length - n : Byte(inode, end - (length - n) + i) \in S
    BY <1>4, <1>10
  <2>2. rest \in [1 .. length - n -> S]
    BY <2>1, <1>6 DEF Piece
  <2>3. length - n \in Nat
    BY <1>4
  <2> QED BY <2>2, <2>3
<1>13. /\ part \o rest \in Seq(S) /\ Len(part \o rest) = length
       /\ \A i \in 1 .. length : (part \o rest)[i] = IF i <= n THEN part[i] ELSE rest[i - n]
  <2>1. /\ part \o rest \in Seq(S) /\ Len(part \o rest) = Len(part) + Len(rest)
        /\ \A i \in 1 .. Len(part) + Len(rest) :
              (part \o rest)[i] = IF i <= Len(part) THEN part[i] ELSE rest[i - Len(part)]
    BY <1>11, <1>12, ConcatProperties
  <2>2. Len(part) = n /\ Len(rest) = length - n /\ n + (length - n) = length
    BY <1>11, <1>12, <1>4
  <2> QED BY <2>1, <2>2
<1>14. ASSUME NEW i \in 1 .. length PROVE (part \o rest)[i] = Byte(inode, end - length + i)
  <2>1. CASE i <= n
    <3>1. PICK j \in Nat : j = i - 1
      OBVIOUS
    <3>2. (offset + j) \div BLOCK_SIZE = offset \div BLOCK_SIZE /\ (offset + j) % BLOCK_SIZE = from + j
      <4>1. (offset % BLOCK_SIZE) + j < BLOCK_SIZE
        BY <1>2, <1>4, <2>1, <3>1, FilesConstants
      <4> QED BY <4>1, <1>2, BlockOf
    <3>3. end - length + i - 1 = offset + j /\ from + j + 1 = from + i
      BY <1>1, <1>2, <3>1
    <3>4. part[i] = DataBlocks[b][from + i]
      BY <2>1, <1>11
    <3>5. PICK x : x = end - length + i
      OBVIOUS
    <3>6. x - 1 = offset + j
      BY <3>3, <3>5
    <3>7. (x - 1) \div BLOCK_SIZE = offset \div BLOCK_SIZE /\ ((x - 1) % BLOCK_SIZE) + 1 = from + i
      BY <3>2, <3>3, <3>6
    <3>8. Byte(inode, x) = DataBlocks[b][from + i]
      BY <1>5, <3>7, Zenon DEF Byte
    <3>9. Byte(inode, end - length + i) = DataBlocks[b][from + i]
      BY <3>5, <3>8
    <3> QED BY <1>13, <2>1, <3>4, <3>9
  <2>2. CASE i > n
    <3>1. (part \o rest)[i] = rest[i - n] /\ i - n \in 1 .. length - n
      BY <1>13, <1>4, <2>2
    <3>2. end - (length - n) + (i - n) = end - length + i
      BY <1>4
    <3> QED BY <3>1, <3>2, <1>6 DEF Piece
  <2>3. i <= n \/ i > n
    BY <1>4
  <2> QED BY <2>1, <2>2, <2>3
<1>15. part \o rest = Piece(inode, end, length)
  <2>1. PICK u : u = part \o rest
    OBVIOUS
  <2>2. u = [i \in 1 .. length |-> u[i]]
    <3>1. u \in Seq(S) /\ Len(u) = length
      BY <2>1, <1>13
    <3>2. u \in [1 .. length -> S]
      BY <3>1
    <3> QED BY <3>2
  <2>3. \A i \in 1 .. length : u[i] = Byte(inode, end - length + i)
    BY <2>1, <1>14
  <2> QED BY <2>1, <2>2, <2>3 DEF Piece
<1> QED BY <1>9, <1>15

\* The whole loop copies the bytes it is asked for: the table of what it should return
\* solves the loop's equation, and the equation has no other solution, as the smallest
\* length at which two would differ shows.
LEMMA CopyBlocksFacts ==
  ASSUME NEW inode, Intact(inode), inode.length \in Nat, NEW end \in 0 .. inode.length,
         NEW n \in 0 .. end
  PROVE  CopyBlocks(inode, end)[n] = [ret |-> n, data |-> Piece(inode, end, n)]
<1> DEFINE Right(l) == [ret |-> l, data |-> Piece(inode, end, l)]
           Solves(c) == c = [l \in 0 .. end |-> CopyTurn(inode, end, c, l)]
<1>1. \A c : CopyTurn(inode, end, c, 0) = Right(0)
  <2>1. Piece(inode, end, 0) = <<>>
    BY DEF Piece
  <2> QED BY <2>1 DEF CopyTurn
<1>2. ASSUME NEW c, NEW l \in 0 .. end, \A k \in 0 .. l - 1 : c[k] = Right(k)
      PROVE  CopyTurn(inode, end, c, l) = Right(l)
  <2>1. CASE l = 0
    BY <2>1, <1>1
  <2>2. CASE l \in 1 .. end
    BY <1>2, <2>2, CopyTurnFacts
  <2> QED BY <2>1, <2>2
<1>3. \E c : Solves(c)
  <2>1. PICK h : h = [l \in 0 .. end |-> Right(l)]
    OBVIOUS
  <2>2. \A l \in 0 .. end : CopyTurn(inode, end, h, l) = Right(l)
    <3> TAKE l \in 0 .. end
    <3>1. \A k \in 0 .. l - 1 : h[k] = Right(k)
      BY <2>1
    <3> QED BY <3>1, <1>2
  <2>3. Solves(h)
    BY <2>1, <2>2
  <2> QED BY <2>3
<1>4. CopyBlocks(inode, end) = CHOOSE c : Solves(c)
  BY DEF CopyBlocks, CopyTurn
<1>5. PICK g : g = CopyBlocks(inode, end)
  OBVIOUS
<1>6. Solves(g)
  <2> HIDE DEF Solves
  <2> QED BY <1>3, <1>4, <1>5
<1>7. \A l \in 0 .. end : g[l] = CopyTurn(inode, end, g, l)
  <2>1. PICK t : t = [l \in 0 .. end |-> CopyTurn(inode, end, g, l)]
    OBVIOUS
  <2>2. g = t
    BY <2>1, <1>6
  <2>3. \A l \in 0 .. end : t[l] = CopyTurn(inode, end, g, l)
    BY <2>1
  <2> QED BY <2>2, <2>3
<1> DEFINE W == {l \in 0 .. end : g[l] # Right(l)}
<1>8. ASSUME W # {} PROVE FALSE
  <2>1. W \subseteq Nat
    OBVIOUS
  <2>2. PICK x \in W : \A y \in W : ~(<<y, x>> \in OpToRel(<, Nat))
    <3> HIDE DEF W
    <3> QED BY <1>8, <2>1, NatLessThanWellFounded, WFMin
  <2>3. \A y \in W : ~(y < x)
    <3> HIDE DEF W
    <3> QED BY <2>1, <2>2 DEF OpToRel
  <2>4. x \in 0 .. end /\ g[x] # Right(x)
    BY <2>2
  <2>5. \A k \in 0 .. x - 1 : g[k] = Right(k)
    <3> TAKE k \in 0 .. x - 1
    <3>1. k \in 0 .. end /\ k < x
      BY <2>4
    <3>2. k \notin W
      <4> HIDE DEF W
      <4> QED BY <3>1, <2>3
    <3> QED BY <3>1, <3>2
  <2>6. CopyTurn(inode, end, g, x) = Right(x)
    BY <2>4, <2>5, <1>2
  <2> HIDE DEF Right
  <2> QED BY <2>4, <2>6, <1>7
<1> QED BY <1>5, <1>8

\* An undamaged file is not too long for its inode.
LEMMA IntactNotTooLong ==
  ASSUME NEW inode, Intact(inode), inode.length \in Nat
  PROVE  ~(inode.length \div BLOCK_SIZE > INODE_BLOCKS)
<1>1. PICK B \in Nat \ {0} : B = BLOCK_SIZE
  BY FilesConstants
<1>2. PICK N \in Nat : N = INODE_BLOCKS
  BY FilesConstants
<1>3. PICK len \in Nat : len = inode.length
  OBVIOUS
<1>4. len <= N * B
  BY <1>1, <1>2, <1>3 DEF Intact
<1>5. PICK q \in Nat : q = len \div B
  BY <1>1, <1>3
<1>6. PICK r \in 0 .. B - 1 : r = len % B
  BY <1>1, <1>3
<1>7. len = B * q + r
  <2>1. ASSUME NEW x \in Nat, NEW y \in Nat \ {0} PROVE x = y * (x \div y) + (x % y)
    OBVIOUS
  <2> QED BY <2>1, <1>1, <1>3, <1>5, <1>6
<1>8. ASSUME q > N PROVE FALSE
  <2>1. PICK d \in Nat : q = N + 1 + d
    <3>1. q - N - 1 \in Nat /\ q = N + 1 + (q - N - 1)
      BY <1>8, <1>2, <1>5
    <3> QED BY <3>1
  <2>2. B * q = N * B + B + B * d /\ B * d \in Nat /\ N * B \in Nat
    BY <2>1, <1>1, <1>2
  <2> QED BY <2>2, <1>4, <1>7, <1>1, <1>3, <1>6
<1> QED BY <1>1, <1>2, <1>3, <1>5, <1>8

\* read_data on an undamaged file: the bytes asked for, or as many as are left; a negative
\* length is a large one.
LEMMA ReadDataFacts ==
  ASSUME NEW inode, Intact(inode), inode.length \in 0 .. WordSize \div 2 - 1,
         NEW offset \in 0 .. inode.length,
         NEW length \in -(WordSize \div 2) .. WordSize \div 2 - 1
  PROVE  \E n \in 0 .. inode.length - offset :
            /\ ReadData(inode, offset, length) = [ret |-> n, data |-> Piece(inode, offset + n, n)]
            /\ length \in 0 .. inode.length - offset => n = length
            /\ length > inode.length - offset => n = inode.length - offset
<1>1. PICK W \in Nat : W = WordSize
  BY FilesConstants
<1>2. PICK H \in Nat : W = 2 * H /\ H = W \div 2
  BY <1>1, FilesConstants
<1>3. PICK len \in 0 .. H - 1 : len = inode.length
  BY <1>1, <1>2
<1>4. PICK left \in 0 .. len : left = inode.length - offset
  BY <1>3
<1>5. length \in -H .. H - 1
  BY <1>1, <1>2
<1>6. length % W = IF length < 0 THEN length + W ELSE length
  BY <1>1, <1>2, <1>3, <1>5
<1>7. PICK n : n = IF length % WordSize > left THEN left ELSE length
  OBVIOUS
<1>8. n \in 0 .. left /\ (length \in 0 .. left => n = length) /\ (length > left => n = left)
  <2>1. CASE length < 0
    <3>1. length % WordSize > left
      BY <2>1, <1>1, <1>2, <1>3, <1>4, <1>5, <1>6
    <3> QED BY <3>1, <2>1, <1>4, <1>5, <1>7
  <2>2. CASE length \in 0 .. left
    <3>1. ~(length % WordSize > left)
      BY <2>2, <1>1, <1>4, <1>6
    <3> QED BY <3>1, <2>2, <1>4, <1>7
  <2>3. CASE length > left
    <3>1. length % WordSize > left
      BY <2>3, <1>1, <1>4, <1>5, <1>6
    <3> QED BY <3>1, <2>3, <1>4, <1>5, <1>7
  <2> QED BY <2>1, <2>2, <2>3, <1>4, <1>5
<1>9. ~(inode.length \div BLOCK_SIZE > INODE_BLOCKS)
  BY <1>2, <1>3, IntactNotTooLong
<1>10. ~(offset > inode.length)
  BY <1>3
<1>11. ReadData(inode, offset, length) = CopyBlocks(inode, offset + n)[n]
  BY <1>4, <1>7, <1>9, <1>10, Zenon DEF ReadData
<1>12. offset + n \in 0 .. inode.length /\ n \in 0 .. offset + n
  BY <1>3, <1>4, <1>8
<1>13. CopyBlocks(inode, offset + n)[n] = [ret |-> n, data |-> Piece(inode, offset + n, n)]
  BY <1>3, <1>12, CopyBlocksFacts
<1> QED BY <1>4, <1>8, <1>11, <1>13

-----------------------------------------------------------------------------
(* The descriptors and what has been read through them.                    *)

\* What a directory has listed up to a position.
Listed(pos) == [i \in 1 .. (IF pos < Len(Dentries) THEN pos ELSE Len(Dentries)) |-> Entry(Dentries[i])]

\* An entry of a table and the bytes read through it: the position in a file whose blocks
\* do not all exist may be anything, as a read that fails moves it back.
EntryOK(f, bytes) ==
    /\ f = [ops |-> f.ops, inode |-> f.inode, pos |-> f.pos]
    /\ f.ops = "file" =>
         /\ f.inode \in DOMAIN Inodes
         /\ Intact(Inodes[f.inode]) => /\ f.pos \in 0 .. Inodes[f.inode].length
                                       /\ bytes = Piece(Inodes[f.inode], f.pos, f.pos)
    /\ f.ops = "dir" => f.pos \in Nat /\ bytes = Listed(f.pos)

EntriesOK ==
    /\ DOMAIN got = Procs
    /\ \A p \in Procs : DOMAIN got[p] = Fds
    /\ \A p \in Procs, fd \in Fds : Runs(p) => EntryOK(open_files[p][fd], got[p][fd])

\* An entry g that follows the entry f of a program that goes on running.
Follows(f, g) ==
    f # NoFile /\ g # NoFile =>
       /\ f.ops = g.ops /\ f.inode = g.inode
       /\ f.ops = "file" /\ Intact(Inodes[f.inode]) => g.pos >= f.pos
Kept == \A p \in Procs, fd \in Fds :
    Runs(p) /\ Runs(p)' => Follows(open_files[p][fd], open_files'[p][fd])

\* An entry that stays is kept.
LEMMA FollowsItself == ASSUME NEW f, NEW bytes, EntryOK(f, bytes) PROVE Follows(f, f)
<1>1. ASSUME f.ops = "file", Intact(Inodes[f.inode]) PROVE f.pos >= f.pos
  <2>1. f.inode \in DOMAIN Inodes /\ f.pos \in 0 .. Inodes[f.inode].length
    BY <1>1 DEF EntryOK
  <2> QED BY <2>1
<1> QED BY <1>1, Zenon DEF Follows

\* A system call that changes one entry and what was read through it.
LEMMA EntryStep ==
  ASSUME TablesOK, EntriesOK, NEW p \in Procs, NEW fd \in Fds, NEW bytes, UNCHANGED program,
         \A q \in Procs, e \in Fds : q # p \/ e # fd => open_files'[q][e] = open_files[q][e],
         got' = [got EXCEPT ![p] = [got[p] EXCEPT ![fd] = bytes]],
         Runs(p) => /\ EntryOK(open_files'[p][fd], bytes)
                    /\ Follows(open_files[p][fd], open_files'[p][fd])
  PROVE  EntriesOK' /\ Kept
<1>1. DOMAIN got' = Procs /\ \A q \in Procs : DOMAIN got'[q] = Fds
  BY DEF EntriesOK
<1>2. got'[p][fd] = bytes /\ \A q \in Procs, e \in Fds : q # p \/ e # fd => got'[q][e] = got[q][e]
  BY DEF EntriesOK
<1>3. \A q \in Procs : Runs(q)' = Runs(q)
  BY DEF Runs
<1>4. ASSUME NEW q \in Procs, NEW e \in Fds, Runs(q)
      PROVE  /\ EntryOK(open_files'[q][e], got'[q][e])
             /\ Follows(open_files[q][e], open_files'[q][e])
  <2>1. CASE q = p /\ e = fd
    BY <1>2, <1>4, <2>1
  <2>2. CASE q # p \/ e # fd
    <3>1. EntryOK(open_files[q][e], got[q][e])
      BY <1>4 DEF EntriesOK
    <3>2. Follows(open_files[q][e], open_files[q][e])
      BY <3>1, FollowsItself
    <3> QED BY <1>2, <2>2, <3>1, <3>2
  <2> QED BY <2>1, <2>2
<1>5. EntriesOK'
  BY <1>1, <1>3, <1>4, Zenon DEF EntriesOK
<1>6. Kept
  BY <1>3, <1>4, Zenon DEF Kept
<1> QED BY <1>5, <1>6

\* read_dentry_by_name finds an entry of the directory.
LEMMA LookupFacts ==
  ASSUME NEW name \in Names
  PROVE  \E i \in DOMAIN Dentries : Lookup(name) = Dentries[i] /\ Dentries[i].name = name
<1>1. DOMAIN Dentries = 1 .. Len(Dentries) /\ Len(Dentries) \in Nat
  <2>1. PICK S : S = {Dentries[i] : i \in DOMAIN Dentries}
    OBVIOUS
  <2>2. Dentries \in Seq(S)
    BY <2>1, ImageConstants
  <2> QED BY <2>2
<1> DEFINE I == {i \in 1 .. Len(Dentries) : Dentries[i].name = name}
<1>2. I # {} /\ I \subseteq Nat
  BY <1>1 DEF Names
<1>3. \E x \in I : \A y \in I : x <= y
  <2> HIDE DEF I
  <2>1. PICK x \in I : \A y \in I : ~(<<y, x>> \in OpToRel(<, Nat))
    BY <1>2, NatLessThanWellFounded, WFMin
  <2>2. \A y \in I : ~(y < x)
    BY <1>2, <2>1 DEF OpToRel
  <2> QED BY <1>2, <2>2
<1>4. Min(I) \in I
  <2> HIDE DEF I
  <2> QED BY <1>3 DEF Min
<1>5. Lookup(name) = Dentries[Min(I)]
  <2>1. SelectInSeq(Dentries, LAMBDA d : d.name = name) = IF I # {} THEN Min(I) ELSE 0
    BY DEF SelectInSeq
  <2> HIDE DEF I
  <2> QED BY <1>2, <2>1 DEF Lookup
<1> QED BY <1>1, <1>4, <1>5

\* A file that was just opened has been read up to its beginning.
LEMMA NewEntryOK ==
  ASSUME NEW ops, NEW inode, ops = "file" => inode \in DOMAIN Inodes
  PROVE  EntryOK(NewFile(ops, inode), <<>>)
<1>1. PICK f : f = NewFile(ops, inode)
  OBVIOUS
<1>2. f = [ops |-> f.ops, inode |-> f.inode, pos |-> f.pos] /\ f.ops = ops /\ f.inode = inode /\ f.pos = 0
  BY <1>1 DEF NewFile
<1>3. \A x : Piece(x, 0, 0) = <<>>
  BY DEF Piece
<1>4. Listed(0) = <<>>
  <2>1. Dentries \in Seq({Dentries[i] : i \in DOMAIN Dentries})
    BY ImageConstants
  <2>2. Len(Dentries) \in Nat
    BY <2>1
  <2>3. (IF 0 < Len(Dentries) THEN 0 ELSE Len(Dentries)) = 0
    BY <2>2
  <2> QED BY <2>3 DEF Listed
<1>5. ASSUME ops = "file" PROVE f.pos \in 0 .. Inodes[inode].length
  BY <1>2, <1>5, ImageConstants
<1> QED BY <1>1, <1>2, <1>3, <1>4, <1>5 DEF EntryOK

-----------------------------------------------------------------------------
(* The system calls.                                                       *)

LEMMA OpenEntries ==
  ASSUME TablesOK, EntriesOK, NEW p \in Procs, NEW name \in Names \cup {"/dev/rtc"},
         SyscallOpen(p, name)
  PROVE  EntriesOK' /\ Kept
<1>1. PICK fd : fd = FindNewFd(open_files[p])
  OBVIOUS
<1>2. PICK f : f = FileOf(name)
  OBVIOUS
<1>3. fd \in Fds /\ open_files[p][fd] = NoFile
  BY <1>1, NewFdFree DEF SyscallOpen
<1>4. open_files' = [open_files EXCEPT ![p] = [open_files[p] EXCEPT ![fd] = f]]
  <2>1. ~(fd < 0)
    BY <1>3, FileTableConstants DEF Fds
  <2> QED BY <1>1, <1>2, <2>1 DEF SyscallOpen, Opened
<1>5. /\ got' = [got EXCEPT ![p] = [got[p] EXCEPT ![fd] = <<>>]]
      /\ UNCHANGED program /\ f # NoFile
  BY <1>1, <1>2 DEF SyscallOpen
<1>6. EntryOK(f, <<>>)
  <2>1. CASE f = NewFile("rtc", 0)
    BY <2>1, NewEntryOK
  <2>2. CASE name \in Names /\ f = NewFile(Lookup(name).type, Lookup(name).inode)
    <3>1. Lookup(name).inode \in DOMAIN Inodes
      BY <2>2, LookupFacts, ImageConstants
    <3> QED BY <2>2, <3>1, NewEntryOK
  <2> QED BY <1>2, <1>5, <2>1, <2>2 DEF FileOf
<1>7. open_files'[p][fd] = f
  BY <1>3, <1>4 DEF TablesOK
<1>8. Follows(open_files[p][fd], f)
  BY <1>3, Zenon DEF Follows
<1>9. \A q \in Procs, e \in Fds : q # p \/ e # fd => open_files'[q][e] = open_files[q][e]
  BY <1>3, <1>4 DEF TablesOK
<1> QED BY <1>3, <1>5, <1>6, <1>7, <1>8, <1>9, EntryStep

\* A call that changes only entries that are neither files nor directories.
LEMMA OtherEntries ==
  ASSUME TablesOK, EntriesOK, NEW p \in Procs, NEW fd \in Fds, UNCHANGED <<program, got>>,
         \A q \in Procs, e \in Fds : q # p \/ e # fd => open_files'[q][e] = open_files[q][e],
         Runs(p) => /\ \A bytes : EntryOK(open_files'[p][fd], bytes)
                    /\ Follows(open_files[p][fd], open_files'[p][fd])
  PROVE  EntriesOK' /\ Kept
<1>1. \A q \in Procs : Runs(q)' = Runs(q)
  BY DEF Runs
<1>2. ASSUME NEW q \in Procs, NEW e \in Fds, Runs(q)
      PROVE  /\ EntryOK(open_files'[q][e], got[q][e])
             /\ Follows(open_files[q][e], open_files'[q][e])
  <2>1. CASE q = p /\ e = fd
    BY <1>2, <2>1
  <2>2. CASE q # p \/ e # fd
    <3>1. EntryOK(open_files[q][e], got[q][e])
      BY <1>2 DEF EntriesOK
    <3>2. Follows(open_files[q][e], open_files[q][e])
      BY <3>1, FollowsItself
    <3> QED BY <2>2, <3>1, <3>2
  <2> QED BY <2>1, <2>2
<1>3. EntriesOK'
  BY <1>1, <1>2, Zenon DEF EntriesOK
<1>4. Kept
  BY <1>1, <1>2, Zenon DEF Kept
<1> QED BY <1>3, <1>4

LEMMA StandardEntries ==
  ASSUME NEW bytes
  PROVE  /\ EntryOK(NewFile("stdin", 0), bytes) /\ EntryOK(NewFile("stdout", 0), bytes)
         /\ EntryOK(NoFile, bytes)
BY DEF EntryOK, NewFile, NoFile

LEMMA OpenStdEntries ==
  ASSUME TablesOK, EntriesOK, NEW p \in Procs, NEW fd \in Fds, SyscallOpenStd(p, fd)
  PROVE  EntriesOK' /\ Kept
<1>1. PICK f : f = NewTable[fd]
  OBVIOUS
<1>2. /\ open_files' = [open_files EXCEPT ![p] = [open_files[p] EXCEPT ![fd] = f]]
      /\ UNCHANGED <<program, got>> /\ Runs(p) /\ fd \in {STDIN_FD, STDOUT_FD}
  BY <1>1 DEF SyscallOpenStd
<1>3. open_files[p][fd] = f /\ \A bytes : EntryOK(f, bytes)
  BY <1>1, <1>2, StandardFds, StandardEntries DEF TablesOK
<1>4. open_files'[p][fd] = f /\ Follows(f, f)
  BY <1>2, <1>3, FollowsItself DEF TablesOK
<1>5. \A q \in Procs, e \in Fds : q # p \/ e # fd => open_files'[q][e] = open_files[q][e]
  BY <1>2 DEF TablesOK
<1> QED BY <1>2, <1>3, <1>4, <1>5, OtherEntries

LEMMA WriteEntries ==
  ASSUME TablesOK, EntriesOK, NEW p \in Procs, NEW fd \in Fds, NEW rate, SyscallWrite(p, fd, rate)
  PROVE  EntriesOK' /\ Kept
<1>1. PICK f : f = open_files[p][fd]
  OBVIOUS
<1>2. PICK x : x = IF f.ops = "rtc" THEN rate ELSE f.pos
  OBVIOUS
<1>3. PICK g : g = [f EXCEPT !.pos = x]
  OBVIOUS
<1>4. /\ open_files' = [open_files EXCEPT ![p] = [open_files[p] EXCEPT ![fd] = g]]
      /\ UNCHANGED <<program, got>> /\ Runs(p) /\ f.ops \in {"stdout", "rtc"}
  BY <1>1, <1>2, <1>3 DEF SyscallWrite, CanWrite
<1>5. f = [ops |-> f.ops, inode |-> f.inode, pos |-> f.pos]
  BY <1>1, <1>4 DEF EntriesOK, EntryOK
<1>6. g = [ops |-> f.ops, inode |-> f.inode, pos |-> x]
  BY <1>3, <1>5
<1>7. g.ops = f.ops /\ g.inode = f.inode /\ g = [ops |-> g.ops, inode |-> g.inode, pos |-> g.pos]
  BY <1>6
<1>8. (\A bytes : EntryOK(g, bytes)) /\ Follows(f, g)
  BY <1>4, <1>7 DEF EntryOK, Follows
<1>9. open_files'[p][fd] = g
  BY <1>4 DEF TablesOK
<1>10. \A q \in Procs, e \in Fds : q # p \/ e # fd => open_files'[q][e] = open_files[q][e]
  BY <1>4 DEF TablesOK
<1> QED BY <1>1, <1>4, <1>8, <1>9, <1>10, OtherEntries

LEMMA CloseEntries ==
  ASSUME TablesOK, EntriesOK, NEW p \in Procs, NEW fd \in Fds, SyscallClose(p, fd)
  PROVE  EntriesOK' /\ Kept
<1>1. /\ open_files' = [open_files EXCEPT ![p] = Closed(open_files[p], fd)]
      /\ got' = [got EXCEPT ![p] = [got[p] EXCEPT ![fd] = <<>>]] /\ UNCHANGED program /\ Runs(p)
  BY DEF SyscallClose
<1>2. PICK f : f = open_files'[p][fd]
  OBVIOUS
<1>3. \A q \in Procs, e \in Fds : q # p \/ e # fd => open_files'[q][e] = open_files[q][e]
  BY <1>1 DEF TablesOK, Closed
<1>4. \/ f = NoFile
      \/ f = open_files[p][fd] /\ fd \in {STDIN_FD, STDOUT_FD}
  BY <1>1, <1>2 DEF TablesOK, Closed, ValidFd
<1>5. EntryOK(f, <<>>)
  BY <1>1, <1>4, StandardEntries DEF TablesOK
<1>6. Follows(open_files[p][fd], f)
  <2>1. CASE f = NoFile
    BY <2>1, Zenon DEF Follows
  <2>2. CASE f = open_files[p][fd]
    BY <1>5, <2>2, FollowsItself
  <2> QED BY <1>4, <2>1, <2>2
<1> QED BY <1>1, <1>2, <1>3, <1>5, <1>6, EntryStep

\* Bytes that follow each other in a file.
LEMMA PieceConcat ==
  ASSUME NEW inode, NEW a \in Nat, NEW n \in Nat
  PROVE  Piece(inode, a, a) \o Piece(inode, a + n, n) = Piece(inode, a + n, a + n)
<1>1. PICK S : S = {Byte(inode, i) : i \in 1 .. a + n}
  OBVIOUS
<1>2. PICK s : s = Piece(inode, a, a)
  OBVIOUS
<1>3. PICK t : t = Piece(inode, a + n, n)
  OBVIOUS
<1>4. s \in Seq(S) /\ Len(s) = a /\ \A i \in 1 .. a : s[i] = Byte(inode, i)
  <2>1. \A i \in 1 .. a : a - a + i = i /\ Byte(inode, i) \in S
    BY <1>1
  <2>2. s = [i \in 1 .. a |-> Byte(inode, a - a + i)]
    BY <1>2 DEF Piece
  <2>3. s \in [1 .. a -> S] /\ \A i \in 1 .. a : s[i] = Byte(inode, i)
    BY <2>1, <2>2
  <2> QED BY <2>3
<1>5. t \in Seq(S) /\ Len(t) = n /\ \A i \in 1 .. n : t[i] = Byte(inode, a + i)
  <2>1. \A i \in 1 .. n : (a + n) - n + i = a + i /\ Byte(inode, a + i) \in S
    BY <1>1
  <2>2. t = [i \in 1 .. n |-> Byte(inode, (a + n) - n + i)]
    BY <1>3 DEF Piece
  <2>3. t \in [1 .. n -> S] /\ \A i \in 1 .. n : t[i] = Byte(inode, a + i)
    BY <2>1, <2>2
  <2> QED BY <2>3
<1>6. PICK u : u = s \o t
  OBVIOUS
<1>7. /\ u \in Seq(S) /\ Len(u) = Len(s) + Len(t)
      /\ \A i \in 1 .. Len(s) + Len(t) : u[i] = IF i <= Len(s) THEN s[i] ELSE t[i - Len(s)]
  BY <1>4, <1>5, <1>6, ConcatProperties
<1>8. /\ Len(u) = a + n
      /\ \A i \in 1 .. a + n : u[i] = IF i <= a THEN s[i] ELSE t[i - a]
  BY <1>4, <1>5, <1>7
<1>9. \A i \in 1 .. a + n : u[i] = Byte(inode, i)
  <2> TAKE i \in 1 .. a + n
  <2>1. CASE i <= a
    BY <2>1, <1>4, <1>8
  <2>2. CASE i > a
    <3>1. i - a \in 1 .. n /\ a + (i - a) = i
      BY <2>2
    <3> QED BY <2>2, <3>1, <1>5, <1>8
  <2> QED BY <2>1, <2>2
<1>10. u = [i \in 1 .. a + n |-> u[i]]
  <2>1. u \in [1 .. a + n -> S]
    BY <1>7, <1>8
  <2> QED BY <2>1
<1>11. \A i \in 1 .. a + n : (a + n) - (a + n) + i = i
  OBVIOUS
<1> QED BY <1>2, <1>3, <1>6, <1>9, <1>10, <1>11 DEF Piece

\* The next name of a directory.
LEMMA ListedNext ==
  ASSUME NEW pos \in Nat
  PROVE  Listed(pos + 1) = IF pos < Len(Dentries) THEN Listed(pos) \o <<Entry(Dentries[pos + 1])>>
                           ELSE Listed(pos)
<1>1. Len(Dentries) \in Nat
  <2>1. Dentries \in Seq({Dentries[i] : i \in DOMAIN Dentries})
    BY ImageConstants
  <2> QED BY <2>1
<1>2. CASE pos < Len(Dentries)
  <2>1. PICK S : S = {Entry(Dentries[i]) : i \in 1 .. pos + 1}
    OBVIOUS
  <2>2. PICK s : s = [i \in 1 .. pos |-> Entry(Dentries[i])]
    OBVIOUS
  <2>3. PICK t : t = [i \in 1 .. pos + 1 |-> Entry(Dentries[i])]
    OBVIOUS
  <2>4. Listed(pos) = s
    BY <1>2, <2>2 DEF Listed
  <2>5. (IF pos + 1 < Len(Dentries) THEN pos + 1 ELSE Len(Dentries)) = pos + 1
    BY <1>1, <1>2
  <2>6. Listed(pos + 1) = t
    BY <2>3, <2>5, Zenon DEF Listed
  <2>7. PICK e \in S : e = Entry(Dentries[pos + 1])
    BY <2>1
  <2>8. s \in Seq(S) /\ Len(s) = pos
    <3>1. s \in [1 .. pos -> S]
      BY <2>1, <2>2
    <3> QED BY <3>1
  <2>9. PICK u : u = s \o <<e>>
    OBVIOUS
  <2>10. /\ u \in Seq(S) /\ Len(u) = pos + 1
         /\ \A i \in 1 .. pos + 1 : u[i] = IF i <= pos THEN s[i] ELSE e
    <3>1. <<e>> \in Seq(S) /\ Len(<<e>>) = 1 /\ <<e>>[1] = e
      OBVIOUS
    <3>2. u = Append(s, e)
      BY <2>8, <2>9, <3>1
    <3> QED BY <2>8, <3>2, AppendProperties
  <2>11. u \in [1 .. pos + 1 -> S]
    BY <2>10
  <2>12. \A i \in 1 .. pos + 1 : u[i] = t[i]
    BY <2>2, <2>3, <2>7, <2>10
  <2>13. u = t
    BY <2>3, <2>11, <2>12
  <2> QED BY <1>2, <2>4, <2>6, <2>7, <2>9, <2>13
<1>3. CASE ~(pos < Len(Dentries))
  <2>1. (IF pos + 1 < Len(Dentries) THEN pos + 1 ELSE Len(Dentries)) = Len(Dentries)
    BY <1>1, <1>3
  <2> QED BY <1>3, <2>1 DEF Listed
<1> QED BY <1>2, <1>3

LEMMA ReadEntries ==
  ASSUME TablesOK, EntriesOK, NEW p \in Procs, NEW fd \in Fds, NEW length \in Lengths,
         SyscallRead(p, fd, length)
  PROVE  EntriesOK' /\ Kept
<1>1. PICK f : f = open_files[p][fd]
  OBVIOUS
<1>2. PICK r : r = IF f.ops = "file" THEN FileRead(f, length) ELSE DirectoryRead(f, length)
  OBVIOUS
<1>3. PICK bytes : bytes = IF r.ret < 0 THEN <<>> ELSE got[p][fd] \o r.data
  OBVIOUS
<1>4. /\ open_files' = [open_files EXCEPT ![p] = [open_files[p] EXCEPT ![fd] = r.file]]
      /\ got' = [got EXCEPT ![p] = [got[p] EXCEPT ![fd] = bytes]]
      /\ UNCHANGED program /\ Runs(p) /\ f.ops \in {"file", "dir"}
  BY <1>1, <1>2, <1>3, Zenon DEF SyscallRead
<1>5. EntryOK(f, got[p][fd])
  BY <1>1, <1>4 DEF EntriesOK
<1>6. f = [ops |-> f.ops, inode |-> f.inode, pos |-> f.pos]
  BY <1>5 DEF EntryOK
<1>7. EntryOK(r.file, bytes) /\ Follows(f, r.file)
  <2>1. CASE f.ops = "dir"
    <3>1. r = DirectoryRead(f, length) /\ f.pos \in Nat /\ got[p][fd] = Listed(f.pos)
      BY <1>2, <1>5, <2>1 DEF EntryOK
    <3>2. PICK x \in Nat : x = f.pos
      BY <3>1
    <3>3. r.file = [f EXCEPT !.pos = f.pos + 1]
      BY <3>1, Zenon DEF DirectoryRead
    <3>4. r.file = [ops |-> f.ops, inode |-> f.inode, pos |-> x + 1]
      BY <1>6, <3>2, <3>3
    <3>5. /\ ~(r.ret < 0)
          /\ r.data = IF x < Len(Dentries) THEN <<Entry(Dentries[x + 1])>> ELSE <<>>
      <4>1. /\ r.data = IF f.pos < Len(Dentries) THEN <<Entry(Dentries[f.pos + 1])>> ELSE <<>>
            /\ r.ret = IF f.pos < Len(Dentries) THEN Dentries[f.pos + 1].size ELSE 0
        BY <3>1, Zenon DEF DirectoryRead
      <4>2. Dentries \in Seq({Dentries[i] : i \in DOMAIN Dentries})
        BY ImageConstants
      <4>3. DOMAIN Dentries = 1 .. Len(Dentries) /\ Len(Dentries) \in Nat
        BY <4>2
      <4>4. x < Len(Dentries) => Dentries[x + 1].size \in Nat
        BY <4>3, ImageConstants
      <4> QED BY <3>2, <4>1, <4>4
    <3>6. bytes = Listed(x + 1)
      <4>1. bytes = Listed(x) \o r.data
        BY <1>3, <3>1, <3>2, <3>5
      <4>2. CASE x < Len(Dentries)
        BY <3>5, <4>1, <4>2, ListedNext
      <4>3. CASE ~(x < Len(Dentries))
        <5>1. Listed(x) \o <<>> = Listed(x)
          <6>1. Len(Dentries) \in Nat
            <7>1. Dentries \in Seq({Dentries[i] : i \in DOMAIN Dentries})
              BY ImageConstants
            <7> QED BY <7>1
          <6>2. PICK S : S = {Entry(Dentries[i]) : i \in 1 .. Len(Dentries)}
            OBVIOUS
          <6>3. PICK s : s = Listed(x)
            OBVIOUS
          <6>4. s = [i \in 1 .. Len(Dentries) |-> Entry(Dentries[i])]
            BY <4>3, <6>3 DEF Listed
          <6>5. s \in [1 .. Len(Dentries) -> S]
            BY <6>2, <6>4
          <6>6. s \in Seq(S)
            BY <6>1, <6>5
          <6> QED BY <6>3, <6>6, ConcatEmptySeq
        <5> QED BY <3>5, <4>1, <4>3, <5>1, ListedNext
      <4> QED BY <4>2, <4>3
    <3> QED BY <2>1, <3>2, <3>4, <3>6 DEF EntryOK, Follows
  <2>2. CASE f.ops = "file"
    <3>1. PICK inode : inode = Inodes[f.inode]
      OBVIOUS
    <3>2. PICK d : d = ReadData(inode, f.pos, length)
      OBVIOUS
    <3>3. f.inode \in DOMAIN Inodes /\ inode.length \in 0 .. WordSize \div 2 - 1
      BY <1>5, <2>2, <3>1, ImageConstants DEF EntryOK
    <3>4. r = [file |-> [f EXCEPT !.pos = (f.pos + d.ret) % WordSize], ret |-> d.ret, data |-> d.data,
              over |-> Len(d.data) > length % WordSize]
      BY <1>2, <2>2, <3>1, <3>2, Zenon DEF FileRead
    <3>5. PICK y : y = (f.pos + d.ret) % WordSize
      OBVIOUS
    <3>6. r.file = [ops |-> f.ops, inode |-> f.inode, pos |-> y] /\ r.ret = d.ret /\ r.data = d.data
      BY <1>6, <3>4, <3>5
    <3>7. CASE ~Intact(inode)
      BY <2>2, <3>1, <3>3, <3>6, <3>7 DEF EntryOK, Follows
    <3>8. CASE Intact(inode)
      <4>1. f.pos \in 0 .. inode.length /\ got[p][fd] = Piece(inode, f.pos, f.pos)
        BY <1>5, <2>2, <3>1, <3>8 DEF EntryOK
      <4>2. PICK a \in 0 .. inode.length : a = f.pos
        BY <4>1
      <4>3. length \in -(WordSize \div 2) .. WordSize \div 2 - 1
        BY FilesConstants
      <4>4. PICK n \in 0 .. inode.length - a : d = [ret |-> n, data |-> Piece(inode, a + n, n)]
        BY <3>2, <3>3, <3>8, <4>2, <4>3, ReadDataFacts
      <4>5. a \in Nat /\ n \in Nat /\ a + n \in 0 .. inode.length /\ a + n >= a
        BY <3>3, <4>2, <4>4
      <4>6. a + n \in 0 .. WordSize - 1
        BY <3>3, <4>5, FilesConstants
      <4>7. (a + n) % WordSize = a + n
        BY <4>6, FilesConstants
      <4>8. y = a + n
        BY <3>5, <4>2, <4>4, <4>7
      <4>9. bytes = Piece(inode, a, a) \o Piece(inode, a + n, n)
        BY <1>3, <3>6, <4>1, <4>2, <4>4, <4>5
      <4>10. bytes = Piece(inode, a + n, a + n)
        BY <4>5, <4>9, PieceConcat
      <4>11. EntryOK(r.file, bytes)
        BY <2>2, <3>1, <3>3, <3>6, <4>5, <4>8, <4>10 DEF EntryOK
      <4>12. Follows(f, r.file)
        BY <3>6, <4>2, <4>5, <4>8 DEF Follows
      <4> QED BY <4>11, <4>12
    <3> QED BY <3>7, <3>8
  <2> QED BY <1>4, <2>1, <2>2
<1>8. open_files'[p][fd] = r.file
  BY <1>4 DEF TablesOK
<1>9. \A q \in Procs, e \in Fds : q # p \/ e # fd => open_files'[q][e] = open_files[q][e]
  BY <1>4 DEF TablesOK
<1> QED BY <1>1, <1>4, <1>7, <1>8, <1>9, EntryStep

\* A program that starts has only its standard descriptors; one that halts has none that
\* count.
LEMMA ExecuteEntries ==
  ASSUME TablesOK, EntriesOK, NEW p \in Procs, NEW name, Execute(p, name)
  PROVE  EntriesOK' /\ Kept
<1>1. /\ open_files' = [open_files EXCEPT ![p] = NewTable]
      /\ got' = [got EXCEPT ![p] = [fd \in Fds |-> <<>>]]
      /\ program' = [program EXCEPT ![p] = name] /\ ~Runs(p)
  BY DEF Execute
<1>2. \A q \in Procs : q # p => Runs(q)' = Runs(q)
  BY <1>1 DEF Runs, TablesOK
<1>3. DOMAIN got' = Procs /\ \A q \in Procs : DOMAIN got'[q] = Fds
  BY <1>1 DEF EntriesOK
<1>4. ASSUME NEW q \in Procs, NEW fd \in Fds, q # p
      PROVE  open_files'[q][fd] = open_files[q][fd] /\ got'[q][fd] = got[q][fd]
  BY <1>1, <1>4 DEF TablesOK, EntriesOK
<1>5. ASSUME NEW fd \in Fds PROVE EntryOK(open_files'[p][fd], got'[p][fd])
  <2>1. open_files'[p][fd] = NewTable[fd]
    BY <1>1 DEF TablesOK
  <2>2. NewTable[fd] \in {NoFile, NewFile("stdin", 0), NewFile("stdout", 0)}
    BY DEF NewTable
  <2> QED BY <2>1, <2>2, StandardEntries
<1>6. EntriesOK'
  <2>1. ASSUME NEW q \in Procs, NEW fd \in Fds, Runs(q)'
        PROVE  EntryOK(open_files'[q][fd], got'[q][fd])
    <3>1. CASE q = p
      BY <3>1, <1>5
    <3>2. CASE q # p
      BY <2>1, <3>2, <1>2, <1>4 DEF EntriesOK
    <3> QED BY <3>1, <3>2
  <2> QED BY <2>1, <1>3, Zenon DEF EntriesOK
<1>7. ASSUME NEW q \in Procs, NEW fd \in Fds, Runs(q), Runs(q)'
      PROVE  Follows(open_files[q][fd], open_files'[q][fd])
  <2>1. q # p
    BY <1>1, <1>7
  <2>2. EntryOK(open_files[q][fd], got[q][fd])
    BY <1>7 DEF EntriesOK
  <2> QED BY <2>1, <2>2, <1>4, FollowsItself
<1> QED BY <1>6, <1>7, Zenon DEF Kept

LEMMA HaltEntries ==
  ASSUME TablesOK, EntriesOK, NEW p \in Procs, Halt(p)
  PROVE  EntriesOK' /\ Kept
<1>1. program' = [program EXCEPT ![p] = "none"] /\ UNCHANGED <<open_files, got>>
  BY DEF Halt
<1>2. \A q \in Procs : Runs(q)' => Runs(q)
  BY <1>1 DEF Runs, TablesOK
<1>3. EntriesOK'
  BY <1>1, <1>2 DEF EntriesOK
<1>4. ASSUME NEW q \in Procs, NEW fd \in Fds, Runs(q)
      PROVE  Follows(open_files[q][fd], open_files'[q][fd])
  <2>1. EntryOK(open_files[q][fd], got[q][fd])
    BY <1>4 DEF EntriesOK
  <2> QED BY <2>1, <1>1, FollowsItself
<1> QED BY <1>3, <1>4, Zenon DEF Kept

LEMMA EntriesNext == ASSUME TablesOK, EntriesOK, [Next]_vars PROVE EntriesOK' /\ (Kept \/ UNCHANGED vars)
<1>1. CASE UNCHANGED vars
  BY <1>1 DEF vars, EntriesOK, Runs
<1>2. CASE Next
  BY <1>2, OpenEntries, OpenStdEntries, ReadEntries, WriteEntries, CloseEntries,
     ExecuteEntries, HaltEntries DEF Next
<1> QED BY <1>1, <1>2

-----------------------------------------------------------------------------
(* The loader.                                                             *)

\* load_program reads the header and then the rest: together, all of an undamaged file.
LEMMA LoadedWhole ==
  ASSUME NEW name \in Names, LoadProgram(name).ok, Intact(Inodes[Lookup(name).inode])
  PROVE  LoadProgram(name).bytes = Contents(Inodes[Lookup(name).inode])
<1>1. PICK inode : inode = Inodes[Lookup(name).inode]
  OBVIOUS
<1>2. PICK header : header = ReadData(inode, 0, FILE_HEADER_SIZE)
  OBVIOUS
<1>3. PICK rest : rest = ReadData(inode, FILE_HEADER_SIZE, inode.length - FILE_HEADER_SIZE)
  OBVIOUS
<1>4. header.ret >= FILE_HEADER_SIZE /\ LoadProgram(name).bytes = header.data \o rest.data
  BY <1>1, <1>2, <1>3 DEF LoadProgram
<1>5. inode.length \in 0 .. WordSize \div 2 - 1
  BY <1>1, LookupFacts, ImageConstants
<1>6. PICK H \in 0 .. WordSize \div 2 - 1 : H = FILE_HEADER_SIZE
  BY FilesConstants
<1>7. PICK n \in 0 .. inode.length :
        /\ header = [ret |-> n, data |-> Piece(inode, n, n)]
        /\ H \in 0 .. inode.length => n = H
  <2>1. H \in -(WordSize \div 2) .. WordSize \div 2 - 1 /\ 0 \in 0 .. inode.length
    BY <1>5, <1>6, FilesConstants
  <2>2. PICK n \in 0 .. inode.length - 0 :
          /\ header = [ret |-> n, data |-> Piece(inode, 0 + n, n)]
          /\ H \in 0 .. inode.length - 0 => n = H
    <3>1. Intact(inode) /\ header = ReadData(inode, 0, H)
      BY <1>1, <1>2, <1>6
    <3> QED BY <1>5, <2>1, <3>1, ReadDataFacts
  <2>3. inode.length - 0 = inode.length /\ 0 + n = n
    BY <1>5, <2>2
  <2> QED BY <2>2, <2>3
<1>8. n = H /\ H \in 0 .. inode.length
  BY <1>4, <1>5, <1>6, <1>7
<1>9. PICK left \in 0 .. inode.length : left = inode.length - H
  BY <1>5, <1>8
<1>10. rest = [ret |-> left, data |-> Piece(inode, H + left, left)]
  <2>1. left \in -(WordSize \div 2) .. WordSize \div 2 - 1
    BY <1>5, <1>9, FilesConstants
  <2>2. PICK k \in 0 .. inode.length - H :
          /\ rest = [ret |-> k, data |-> Piece(inode, H + k, k)]
          /\ left \in 0 .. inode.length - H => k = left
    <3>1. Intact(inode) /\ rest = ReadData(inode, H, left) /\ H \in 0 .. inode.length
      BY <1>1, <1>3, <1>6, <1>8, <1>9
    <3> QED BY <1>5, <2>1, <3>1, ReadDataFacts
  <2>3. left \in 0 .. inode.length - H
    BY <1>5, <1>9
  <2> QED BY <2>2, <2>3
<1>11. header.data \o rest.data = Piece(inode, H + left, H + left)
  <2>1. header.data = Piece(inode, H, H) /\ rest.data = Piece(inode, H + left, left)
    BY <1>7, <1>8, <1>10
  <2>2. H \in Nat /\ left \in Nat
    BY <1>5, <1>6, <1>9, FilesConstants
  <2> QED BY <2>1, <2>2, PieceConcat
<1>12. H + left = inode.length
  BY <1>5, <1>8, <1>9
<1>13. \A i \in 1 .. inode.length : inode.length - inode.length + i = i
  BY <1>5
<1>14. Piece(inode, inode.length, inode.length) = Contents(inode)
  BY <1>13 DEF Piece, Byte, Contents
<1> QED BY <1>1, <1>4, <1>11, <1>12, <1>14

\* Every program that runs is one of the directory, loaded whole unless it is damaged.
ProgramsOK ==
    /\ DOMAIN program = Procs /\ DOMAIN image = Procs
    /\ IntactProgramWhole

LEMMA ProgramsNext == ASSUME ProgramsOK, [Next]_vars PROVE ProgramsOK'
<1>1. CASE UNCHANGED <<program, image>>
  BY <1>1 DEF ProgramsOK, IntactProgramWhole, Runs
<1>2. ASSUME NEW p \in Procs, NEW name \in Names, Execute(p, name) PROVE ProgramsOK'
  <2>1. PICK bytes : bytes = LoadProgram(name).bytes
    OBVIOUS
  <2>2. /\ program' = [program EXCEPT ![p] = name] /\ image' = [image EXCEPT ![p] = bytes]
        /\ LoadProgram(name).ok
    BY <1>2, <2>1 DEF Execute
  <2>3. Intact(Inodes[Lookup(name).inode]) => bytes = Contents(Inodes[Lookup(name).inode])
    BY <2>1, <2>2, LoadedWhole
  <2>4. /\ program'[p] = name /\ image'[p] = bytes
        /\ \A q \in Procs : q # p => program'[q] = program[q] /\ image'[q] = image[q]
    BY <2>2 DEF ProgramsOK
  <2>5. DOMAIN program' = Procs /\ DOMAIN image' = Procs
    BY <2>2 DEF ProgramsOK
  <2>6. ASSUME NEW q \in Procs, Runs(q)', Intact(Inodes[Lookup(program'[q]).inode])
        PROVE  image'[q] = Contents(Inodes[Lookup(program'[q]).inode])
    <3>1. CASE q = p
      BY <2>3, <2>4, <2>6, <3>1
    <3>2. CASE q # p
      BY <2>4, <2>6, <3>2 DEF ProgramsOK, IntactProgramWhole, Runs
    <3> QED BY <3>1, <3>2
  <2> QED BY <2>5, <2>6, Zenon DEF ProgramsOK, IntactProgramWhole
<1>3. ASSUME NEW p \in Procs, Halt(p) PROVE ProgramsOK'
  <2>1. program' = [program EXCEPT ![p] = "none"] /\ image' = [image EXCEPT ![p] = <<>>]
    BY <1>3 DEF Halt
  <2> QED BY <2>1 DEF ProgramsOK, IntactProgramWhole, Runs
<1>4. ASSUME NEW p \in Procs, NEW fd \in Fds,
             \/ SyscallOpenStd(p, fd) \/ \E length \in Lengths : SyscallRead(p, fd, length)
             \/ (\E rate \in Rates : SyscallWrite(p, fd, rate)) \/ SyscallClose(p, fd)
      PROVE  UNCHANGED <<program, image>>
  BY <1>4, Zenon DEF SyscallOpenStd, SyscallRead, SyscallWrite, SyscallClose
<1>5. ASSUME NEW p \in Procs, NEW name, SyscallOpen(p, name) PROVE UNCHANGED <<program, image>>
  BY <1>5, Zenon DEF SyscallOpen
<1> QED BY <1>1, <1>2, <1>3, <1>4, <1>5 DEF Next, vars

-----------------------------------------------------------------------------
(* The theorems.                                                           *)

LEMMA FilesInit == Init => TablesOK /\ EntriesOK /\ ProgramsOK
BY DEF Init, TablesOK, EntriesOK, ProgramsOK, IntactProgramWhole, Runs

\* No sequence of opens, reads, writes, closes, exits and executes takes standard input
\* or output away from a program (syscall_open, syscall_close, find_new_fd).
THEOREM StandardDescriptorsAreKept == Spec => []StandardKept
<1>1. Init => TablesOK
  BY DEF Init, TablesOK, Runs
<1>2. TablesOK => StandardKept
  BY StandardFds DEF TablesOK, StandardKept
<1> QED BY <1>1, <1>2, FilesNext, PTL DEF Spec

\* Whatever lengths a program asks for, wherever the blocks lie and however the descriptor
\* was used before, what successive reads of an undamaged file return is the beginning of
\* the file, up to the position of the descriptor (read_data, file_read, syscall_open).
THEOREM ReadsReturnTheFile == Spec => []ReadsInOrder
<1>1. ASSUME NEW inode, inode.length \in Nat, NEW n \in 0 .. inode.length
      PROVE  Piece(inode, n, n) = SubSeq(Contents(inode), 1, n)
  <2>1. PICK c : c = Contents(inode)
    OBVIOUS
  <2>2. \A i \in 1 .. n : c[i] = Byte(inode, i)
    BY <1>1, <2>1 DEF Contents, Byte
  <2>3. PICK S : S = {Byte(inode, i) : i \in 1 .. n}
    OBVIOUS
  <2>4. \A i \in 1 .. n : c[i] \in S
    BY <2>2, <2>3
  <2>5. PICK t : t = SubSeq(c, 1, n)
    OBVIOUS
  <2>6. n \in Int /\ n \in Nat
    BY <1>1
  <2>7. /\ t \in Seq(S) /\ Len(t) = IF 1 <= n THEN n - 1 + 1 ELSE 0
        /\ \A i \in 1 .. n - 1 + 1 : t[i] = c[1 + i - 1]
    BY <2>4, <2>5, <2>6, SubSeqProperties
  <2>8. Len(t) = n /\ \A i \in 1 .. n : t[i] = c[i]
    BY <2>6, <2>7
  <2>9. t \in [1 .. n -> S]
    BY <2>7, <2>8
  <2>10. \A i \in 1 .. n : n - n + i = i
    BY <2>6
  <2>11. t = [i \in 1 .. n |-> Byte(inode, n - n + i)]
    BY <2>2, <2>8, <2>9, <2>10
  <2> QED BY <2>1, <2>5, <2>11 DEF Piece
<1>2. EntriesOK => ReadsInOrder
  <2> SUFFICES ASSUME EntriesOK, NEW p \in Procs, NEW fd \in Fds, NEW f, f = open_files[p][fd],
                      Runs(p), f.ops = "file", Intact(Inodes[f.inode])
               PROVE  /\ f.pos <= Inodes[f.inode].length
                      /\ got[p][fd] = SubSeq(Contents(Inodes[f.inode]), 1, f.pos)
    BY Zenon DEF ReadsInOrder
  <2>1. /\ f.inode \in DOMAIN Inodes /\ f.pos \in 0 .. Inodes[f.inode].length
        /\ got[p][fd] = Piece(Inodes[f.inode], f.pos, f.pos)
    BY DEF EntriesOK, EntryOK
  <2>2. Inodes[f.inode].length \in Nat
    BY <2>1, ImageConstants
  <2> QED BY <2>1, <2>2, <1>1
<1> QED BY <1>2, FilesInit, FilesNext, EntriesNext, PTL DEF Spec

\* Reading a directory gives every entry once and in order, and then nothing, whatever else
\* is opened, read and closed meanwhile, and whole names to a program that leaves room for
\* them (directory_read).
THEOREM DirectoryIsListedInOrder == Spec => []DirectoryInOrder
<1>1. EntriesOK => DirectoryInOrder
  <2> SUFFICES ASSUME EntriesOK, NEW p \in Procs, NEW fd \in Fds, Runs(p),
                      open_files[p][fd].ops = "dir"
               PROVE  LET n == IF open_files[p][fd].pos < Len(Dentries)
                               THEN open_files[p][fd].pos ELSE Len(Dentries)
                      IN  /\ Len(got[p][fd]) = n
                          /\ \A i \in 1 .. n : got[p][fd][i].name = Dentries[i].name
                          /\ ~spilled[p] =>
                                \A i \in 1 .. n : got[p][fd][i].bytes = Dentries[i].size
    BY Zenon DEF DirectoryInOrder
  <2>1. PICK n : n = IF open_files[p][fd].pos < Len(Dentries)
                     THEN open_files[p][fd].pos ELSE Len(Dentries)
    OBVIOUS
  <2>2. open_files[p][fd].pos \in Nat /\ got[p][fd] = Listed(open_files[p][fd].pos)
    BY DEF EntriesOK, EntryOK
  <2>3. Dentries \in Seq({Dentries[i] : i \in DOMAIN Dentries})
    BY ImageConstants
  <2>4. n \in Nat
    <3>1. Len(Dentries) \in Nat
      BY <2>3
    <3> QED BY <2>1, <2>2, <3>1
  <2>5. got[p][fd] = [i \in 1 .. n |-> Entry(Dentries[i])]
    BY <2>1, <2>2 DEF Listed
  <2>6. Len(got[p][fd]) = n
    BY <2>4, <2>5
  <2>7. ASSUME NEW i \in 1 .. n
        PROVE  got[p][fd][i].name = Dentries[i].name /\ got[p][fd][i].bytes = Dentries[i].size
    <3>1. got[p][fd][i] = Entry(Dentries[i])
      BY <2>5
    <3>2. PICK d : d = Dentries[i]
      OBVIOUS
    <3>3. Entry(d).name = d.name /\ Entry(d).bytes = d.size
      BY DEF Entry
    <3> QED BY <3>1, <3>2, <3>3
  <2> QED BY <2>1, <2>6, <2>7
<1> QED BY <1>1, FilesInit, FilesNext, EntriesNext, PTL DEF Spec

\* A descriptor in use stays the same file until it is closed or its program ends, and its
\* position in an undamaged file never moves back, for any order of system calls.
THEOREM DescriptorsAreKept == Spec => DescriptorsKept
<1> DEFINE Keeps == \A p \in Procs, fd \in Fds :
         LET f == open_files[p][fd]  g == open_files'[p][fd] IN
         Runs(p) /\ Runs(p)' /\ f # NoFile /\ g # NoFile =>
            /\ f.ops = g.ops /\ f.inode = g.inode
            /\ f.ops = "file" /\ Intact(Inodes[f.inode]) => g.pos >= f.pos
<1>1. Kept => Keeps
  BY Zenon DEF Kept, Follows
<1>2. TablesOK /\ EntriesOK /\ [Next]_vars => [Keeps]_vars
  <2> HIDE DEF Keeps
  <2> QED BY <1>1, EntriesNext
<1>3. Spec => [][Keeps]_vars
  <2> HIDE DEF Keeps
  <2> QED BY <1>2, FilesInit, FilesNext, EntriesNext, PTL DEF Spec
<1> QED BY <1>3 DEF DescriptorsKept

\* A program whose file is undamaged runs only when all of the file has been loaded
\* (load_program).
THEOREM UndamagedProgramsAreLoadedWhole == Spec => []IntactProgramWhole
<1>1. ProgramsOK => IntactProgramWhole
  BY DEF ProgramsOK
<1> QED BY <1>1, FilesInit, ProgramsNext, PTL DEF Spec
=============================================================================
