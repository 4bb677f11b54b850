----------------------------- MODULE FileTable -----------------------------
(***************************************************************************)
(* A process's table of open files, the array open_files of task.h, and    *)
(* what open, close and find_new_fd of syscall.c do to it.  Files and      *)
(* Sound keep one table per process.                                       *)
(***************************************************************************)
EXTENDS Integers

CONSTANT MAX_FILES      \* descriptors in a table

ASSUME FileTableConstants == MAX_FILES \in Nat /\ MAX_FILES > 1

Fds == 0 .. MAX_FILES - 1
STDIN_FD  == 0
STDOUT_FD == 1

\* Nothing reads a file_info_t that is not in use.
NoFile == [ops |-> "none", inode |-> 0, pos |-> 0]

\* The structure that syscall_open fills in.
NewFile(ops, inode) == [ops |-> ops, inode |-> inode, pos |-> 0]

CanRead(f)  == f.ops \in {"stdin", "rtc", "dir", "file"}
CanWrite(f) == f.ops \in {"stdout", "rtc"}

ValidFd(table, fd) == fd \in Fds /\ table[fd] # NoFile

\* MUTANT of FindNewFd: the search stops at the first descriptor it may hand out.
FindNewFdFirst(table) == STDOUT_FD + 1

\* find_new_fd: the first descriptor not in use, or -1.
FindNewFd(table) ==
    IF \E fd \in Fds : table[fd] = NoFile
    THEN CHOOSE fd \in Fds : table[fd] = NoFile /\ \A g \in Fds : table[g] = NoFile => fd <= g
    ELSE -1

\* syscall_open once it knows the file: the table afterwards.
Opened(table, file) ==
    LET fd == FindNewFd(table)
    IN  IF fd < 0 THEN table ELSE [table EXCEPT ![fd] = file]

\* MUTANT of Closed: only standard input is refused.
ClosedAnyButStdin(table, fd) ==
    IF ValidFd(table, fd) /\ fd # STDIN_FD THEN [table EXCEPT ![fd] = NoFile] ELSE table

\* syscall_close refuses the two standard descriptors.
Closed(table, fd) ==
    IF ValidFd(table, fd) /\ fd \notin {STDIN_FD, STDOUT_FD}
    THEN [table EXCEPT ![fd] = NoFile] ELSE table

\* A new process: all descriptors free, then "/dev/stdin" and "/dev/stdout" are opened.
NewTable ==
    [fd \in Fds |-> CASE fd = STDIN_FD  -> NewFile("stdin", 0)
                      [] fd = STDOUT_FD -> NewFile("stdout", 0)
                      [] OTHER -> NoFile]
=============================================================================
