------------------------------- MODULE Files -------------------------------
(***************************************************************************)
(* The read-only file system, fs.c, under the system calls open, read,     *)
(* write and close of syscall.c and the program loader of task.c: what the *)
(* bytes that a program gets from successive reads have to do with the     *)
(* file, over any mix of descriptors, lengths, closes and exits.           *)
(***************************************************************************)
EXTENDS FileTable, Sequences, SequencesExt

CONSTANTS
    Procs,              \* processes
    BLOCK_SIZE,         \* 4096 in fs.c
    INODE_BLOCKS,       \* 1023 in fs.c
    Dentries,           \* the directory: a sequence of [name, size, type, inode]; size is the
                        \* number of bytes before the first zero (the byte of the type counts
                        \* for a name that fills its 32 bytes)
    Inodes,             \* inode number -> [length, data_blocks]
    DataBlocks,         \* block number -> contents, BLOCK_SIZE bytes
    Lengths,            \* numbers of bytes that programs ask for
    Rates,              \* frequencies that rtc_write leaves in pos
    FILE_HEADER_SIZE,   \* bytes that load_program reads first
    WordSize,           \* 2^32: file positions and lengths wrap here
    MaxPos              \* bound on directory reads

ASSUME FilesConstants ==
    /\ BLOCK_SIZE \in Nat \ {0} /\ INODE_BLOCKS \in Nat
    /\ WordSize \in Nat /\ WordSize % 2 = 0
    /\ Lengths \subseteq -(WordSize \div 2) .. WordSize \div 2 - 1 /\ Rates \subseteq Nat
    /\ FILE_HEADER_SIZE \in 0 .. WordSize \div 2 - 1 /\ MaxPos \in Nat

\* The image: every directory entry names an inode that exists, no file is as long as half
\* of the word, and a block holds BLOCK_SIZE bytes.
ASSUME ImageConstants ==
    /\ Dentries \in Seq({Dentries[i] : i \in DOMAIN Dentries})
    /\ \A i \in DOMAIN Dentries : Dentries[i].inode \in DOMAIN Inodes /\ Dentries[i].size \in Nat
    /\ \A i \in DOMAIN Inodes : Inodes[i].length \in 0 .. WordSize \div 2 - 1
    /\ \A b \in DOMAIN DataBlocks : DOMAIN DataBlocks[b] = 1 .. BLOCK_SIZE

\* read_data admits a length that ends in the block behind the last one an inode can
\* name; images with such a file are left out.
ASSUME NoLengthBehindInode ==
    \A i \in DOMAIN Inodes :
       \/ Inodes[i].length <= INODE_BLOCKS * BLOCK_SIZE
       \/ Inodes[i].length >= (INODE_BLOCKS + 1) * BLOCK_SIZE

VARIABLES
    open_files,     \* per process: its table
    program,        \* per process: the file it was loaded from, "none" if it does not run
    image,          \* per process: the bytes of it that were loaded
    got,            \* history: per process and descriptor, what reads have returned since open
                    \* or since one of them failed
    spilled         \* history: per process, a read has written behind the end of its buffer

vars == <<open_files, program, image, got, spilled>>

Names  == {Dentries[i].name : i \in DOMAIN Dentries}

-----------------------------------------------------------------------------
(* fs.c                                                                    *)

\* read_dentry_by_name: the first entry of that name
Lookup(name) == Dentries[SelectInSeq(Dentries, LAMBDA d : d.name = name)]

\* How many bytes one turn of the loop copies: no more than are left in the block.
BytesHere(offset, length) ==
    LET bytes_left_in_block == BLOCK_SIZE - (offset % BLOCK_SIZE)
    IN  IF length > bytes_left_in_block THEN bytes_left_in_block ELSE length

\* The loop of read_data, up to the position `end': the bytes it copies and what it
\* returns, by the length that is left.
CopyBlocks(inode, end) ==
    LET copy[length \in 0 .. end] ==
          IF length = 0 THEN [ret |-> 0, data |-> <<>>]
          ELSE LET offset == end - length
                   block  == inode.data_blocks[offset \div BLOCK_SIZE]
                   n      == BytesHere(offset, length)
               IN  IF block \notin DOMAIN DataBlocks
                   THEN [ret |-> -1, data |-> <<>>]
                   ELSE LET rest == copy[length - n]
                            from == offset % BLOCK_SIZE
                        IN  [ret  |-> IF rest.ret < 0 THEN -1 ELSE n + rest.ret,
                             data |-> SubSeq(DataBlocks[block], from + 1, from + n) \o rest.data]
    IN  copy

\* read_data.  The length is compared as an unsigned number.
ReadData(inode, offset, length) ==
    LET left == inode.length - offset
        n    == IF length % WordSize > left THEN left ELSE length
    IN  IF inode.length \div BLOCK_SIZE > INODE_BLOCKS THEN [ret |-> -1, data |-> <<>>]
        ELSE IF offset > inode.length THEN [ret |-> 0, data |-> <<>>]
        ELSE CopyBlocks(inode, offset + n)[n]

\* MUTANT of FileRead: the position moves by the length asked for.
FileReadAsked(f, length) ==
    LET r == ReadData(Inodes[f.inode], f.pos, length)
    IN  [file |-> [f EXCEPT !.pos = (@ + length) % WordSize], ret |-> r.ret, data |-> r.data,
         over |-> Len(r.data) > length % WordSize]

\* file_read: the position moves by what read_data returned, -1 included.
FileRead(f, length) ==
    LET r == ReadData(Inodes[f.inode], f.pos, length)
    IN  [file |-> [f EXCEPT !.pos = (@ + r.ret) % WordSize], ret |-> r.ret, data |-> r.data,
         over |-> Len(r.data) > length % WordSize]

\* A directory entry as a program gets it: the name and how many bytes of it.
Entry(d) == [name |-> d.name, bytes |-> d.size]

\* MUTANT of DirectoryRead: at the end the listing starts over.
DirectoryReadAgain(f, length) ==
    LET more == f.pos < Len(Dentries)
        d    == Dentries[f.pos + 1]
    IN  [file |-> [f EXCEPT !.pos = IF more THEN @ + 1 ELSE 0],
         ret  |-> IF more THEN d.size ELSE 0,
         data |-> IF more THEN <<Entry(d)>> ELSE <<>>,
         over |-> more /\ d.size > length]

\* directory_read: all of the next name, whatever the length; 0 behind the last one.
DirectoryRead(f, length) ==
    LET more == f.pos < Len(Dentries)
        d    == Dentries[f.pos + 1]
    IN  [file |-> [f EXCEPT !.pos = @ + 1],
         ret  |-> IF more THEN d.size ELSE 0,
         data |-> IF more THEN <<Entry(d)>> ELSE <<>>,
         over |-> more /\ d.size > length]

-----------------------------------------------------------------------------
(* System calls of a process that runs                                     *)

Runs(p) == program[p] # "none"

\* What syscall_open makes of a name.
FileOf(name) ==
    CASE name = "/dev/rtc" -> NewFile("rtc", 0)
      [] name \in Names    -> NewFile(Lookup(name).type, Lookup(name).inode)
      [] OTHER             -> NoFile

\* syscall_open of anything but the two standard names
SyscallOpen(p, name) ==
    LET table == open_files[p]
        fd    == FindNewFd(table)
    IN  /\ Runs(p)
        /\ FileOf(name) # NoFile /\ fd >= 0
        /\ open_files' = [open_files EXCEPT ![p] = Opened(table, FileOf(name))]
        /\ got' = [got EXCEPT ![p][fd] = <<>>]
        /\ UNCHANGED <<program, image, spilled>>

\* syscall_open of "/dev/stdin" or "/dev/stdout": the descriptor is set up afresh.
SyscallOpenStd(p, fd) ==
    /\ Runs(p)
    /\ fd \in {STDIN_FD, STDOUT_FD}
    /\ open_files' = [open_files EXCEPT ![p][fd] = NewTable[fd]]
    /\ UNCHANGED <<program, image, got, spilled>>

\* syscall_read of a file or a directory; the clock and the terminal leave the table alone.
SyscallRead(p, fd, length) ==
    /\ Runs(p)
    /\ ValidFd(open_files[p], fd)
    /\ open_files[p][fd].ops \in {"file", "dir"}
    /\ open_files[p][fd].ops = "dir" => open_files[p][fd].pos < MaxPos
    /\ LET f == open_files[p][fd]
           r == IF f.ops = "file" THEN FileRead(f, length) ELSE DirectoryRead(f, length)
       IN  /\ open_files' = [open_files EXCEPT ![p][fd] = r.file]
           /\ got' = [got EXCEPT ![p][fd] = IF r.ret < 0 THEN <<>> ELSE @ \o r.data]
           /\ spilled' = [spilled EXCEPT ![p] = @ \/ r.over]
    /\ UNCHANGED <<program, image>>

\* syscall_write: only the clock's file changes, rtc_write keeps the frequency in pos.
SyscallWrite(p, fd, rate) ==
    /\ Runs(p)
    /\ ValidFd(open_files[p], fd) /\ CanWrite(open_files[p][fd])
    /\ open_files' = [open_files EXCEPT ![p][fd].pos = IF open_files[p][fd].ops = "rtc" THEN rate ELSE @]
    /\ UNCHANGED <<program, image, got, spilled>>

SyscallClose(p, fd) ==
    /\ Runs(p)
    /\ open_files' = [open_files EXCEPT ![p] = Closed(@, fd)]
    /\ got' = [got EXCEPT ![p][fd] = <<>>]
    /\ UNCHANGED <<program, image, spilled>>

\* MUTANT of LoadProgram: the rest is read from the beginning of the file.
LoadProgramAgain(name) ==
    LET inode  == Inodes[Lookup(name).inode]
        header == ReadData(inode, 0, FILE_HEADER_SIZE)
        rest   == ReadData(inode, 0, inode.length - FILE_HEADER_SIZE)
    IN  [ok |-> /\ name \in Names /\ Lookup(name).type = "file"
                /\ header.ret >= FILE_HEADER_SIZE
                /\ header.data[1] = "magic"
                /\ rest.ret % WordSize >= (inode.length - FILE_HEADER_SIZE) % WordSize,
         bytes |-> header.data \o rest.data]

\* load_program.  What the second read returned is compared as an unsigned number.
LoadProgram(name) ==
    LET inode  == Inodes[Lookup(name).inode]
        header == ReadData(inode, 0, FILE_HEADER_SIZE)
        rest   == ReadData(inode, FILE_HEADER_SIZE, inode.length - FILE_HEADER_SIZE)
    IN  [ok |-> /\ name \in Names /\ Lookup(name).type = "file"
                /\ header.ret >= FILE_HEADER_SIZE
                /\ header.data[1] = "magic"
                /\ rest.ret % WordSize >= (inode.length - FILE_HEADER_SIZE) % WordSize,
         bytes |-> header.data \o rest.data]

\* setup_process: the program is loaded and gets a table of its own.
Execute(p, name) ==
    /\ ~Runs(p)
    /\ LoadProgram(name).ok
    /\ program' = [program EXCEPT ![p] = name]
    /\ image' = [image EXCEPT ![p] = LoadProgram(name).bytes]
    /\ open_files' = [open_files EXCEPT ![p] = NewTable]
    /\ got' = [got EXCEPT ![p] = [fd \in Fds |-> <<>>]]
    /\ spilled' = [spilled EXCEPT ![p] = FALSE]

\* syscall_halt: the table is not looked at again before new_process clears it.
Halt(p) ==
    /\ Runs(p)
    /\ program' = [program EXCEPT ![p] = "none"]
    /\ image' = [image EXCEPT ![p] = <<>>]
    /\ UNCHANGED <<open_files, got, spilled>>

-----------------------------------------------------------------------------
Init ==
    /\ open_files = [p \in Procs |-> [fd \in Fds |-> NoFile]]
    /\ program = [p \in Procs |-> "none"]
    /\ image = [p \in Procs |-> <<>>]
    /\ got = [p \in Procs |-> [fd \in Fds |-> <<>>]]
    /\ spilled = [p \in Procs |-> FALSE]

Next == \E p \in Procs :
    \/ \E name \in Names \cup {"/dev/rtc"} : SyscallOpen(p, name)
    \/ \E name \in Names : Execute(p, name)
    \/ Halt(p)
    \/ \E fd \in Fds :
         \/ SyscallOpenStd(p, fd)
         \/ \E length \in Lengths : SyscallRead(p, fd, length)
         \/ \E rate \in Rates : SyscallWrite(p, fd, rate)
         \/ SyscallClose(p, fd)

Spec == Init /\ [][Next]_vars

-----------------------------------------------------------------------------
(* Properties.                                                             *)

\* A file whose blocks all exist, and what it contains.
Intact(inode) ==
    /\ inode.length <= INODE_BLOCKS * BLOCK_SIZE
    /\ \A i \in 0 .. inode.length - 1 :
          inode.data_blocks[i \div BLOCK_SIZE] \in DOMAIN DataBlocks
Contents(inode) ==
    [i \in 1 .. inode.length |->
       DataBlocks[inode.data_blocks[(i - 1) \div BLOCK_SIZE]][((i - 1) % BLOCK_SIZE) + 1]]

\* What successive reads of a descriptor have returned, put together, is the beginning
\* of the file up to its position, whatever lengths were asked for, wherever the blocks
\* lie and however the descriptor was used before it was opened.
ReadsInOrder ==
    \A p \in Procs, fd \in Fds :
       LET f == open_files[p][fd] IN
       Runs(p) /\ f.ops = "file" /\ Intact(Inodes[f.inode]) =>
          /\ f.pos <= Inodes[f.inode].length
          /\ got[p][fd] = SubSeq(Contents(Inodes[f.inode]), 1, f.pos)

\* Reading a directory gives every entry once, in order, and then nothing, whatever
\* lengths are asked for, and the whole name as long as the program leaves room for it.
DirectoryInOrder ==
    \A p \in Procs, fd \in Fds :
       LET f == open_files[p][fd]
           n == IF f.pos < Len(Dentries) THEN f.pos ELSE Len(Dentries)
       IN  Runs(p) /\ f.ops = "dir" =>
             /\ Len(got[p][fd]) = n
             /\ \A i \in 1 .. n : got[p][fd][i].name = Dentries[i].name
             /\ ~spilled[p] => \A i \in 1 .. n : got[p][fd][i].bytes = Dentries[i].size

\* read() stays in the buffer it is given (syscall.c:270 "no more than nbytes will be
\* written"; mp3.txt:768 "as much as fits").
NoMoreThanAsked == \A p \in Procs : Runs(p) => ~spilled[p]

\* However descriptors are opened and closed, the two standard ones stay what they are,
\* so that an open never hands them out for a file.
StandardKept ==
    \A p \in Procs :
       Runs(p) => /\ open_files[p][STDIN_FD].ops = "stdin"
                  /\ open_files[p][STDOUT_FD].ops = "stdout"

\* A descriptor in use stays the same file until it is closed or its process ends, and
\* its position in an undamaged file never moves back.
DescriptorsKept ==
    [][\A p \in Procs, fd \in Fds :
         LET f == open_files[p][fd]  g == open_files'[p][fd] IN
         Runs(p) /\ Runs(p)' /\ f # NoFile /\ g # NoFile =>
            /\ f.ops = g.ops /\ f.inode = g.inode
            /\ f.ops = "file" /\ Intact(Inodes[f.inode]) => g.pos >= f.pos]_vars

\* An undamaged program runs only when all of its file has been loaded.
IntactProgramWhole ==
    \A p \in Procs :
       Runs(p) /\ Intact(Inodes[Lookup(program[p]).inode]) =>
          image[p] = Contents(Inodes[Lookup(program[p]).inode])

\* load_program starts a program only when the whole file was read (task.c:64 "read the
\* rest of the file, ensure that all is read").
ProgramWhole ==
    \A p \in Procs :
       Runs(p) => Len(image[p]) = Inodes[Lookup(program[p]).inode].length
=============================================================================
