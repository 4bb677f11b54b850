------------------------------ MODULE MCFiles ------------------------------
(* A small file system: blocks out of order, one file that fills its blocks, one *)
(* that does not, one whose second block does not exist and one that is too long.*)
EXTENDS Files

MCDataBlocks == [b \in 0 .. 3 |-> CASE b = 0 -> <<"a3", "x">>
                                    [] b = 1 -> <<"magic", "b2">>
                                    [] b = 2 -> <<"magic", "a2">>
                                    [] b = 3 -> <<"b3", "b4">>]
MCInodes == [i \in 0 .. 3 |-> CASE i = 0 -> [length |-> 3, data_blocks |-> [k \in 0 .. 1 |-> IF k = 0 THEN 2 ELSE 0]]
                                [] i = 1 -> [length |-> 4, data_blocks |-> [k \in 0 .. 1 |-> IF k = 0 THEN 1 ELSE 3]]
                                [] i = 2 -> [length |-> 4, data_blocks |-> [k \in 0 .. 1 |-> IF k = 0 THEN 1 ELSE 9]]
                                [] i = 3 -> [length |-> 6, data_blocks |-> [k \in 0 .. 1 |-> k]]]
MCLengths == {-1, 0, 1, 2, 3, 7}
MCDentries == << [name |-> ".", size |-> 1, type |-> "dir", inode |-> 0],
                 [name |-> "short", size |-> 2, type |-> "file", inode |-> 0],
                 [name |-> "full", size |-> 2, type |-> "file", inode |-> 1],
                 [name |-> "damaged", size |-> 3, type |-> "file", inode |-> 2],
                 [name |-> "toolong", size |-> 2, type |-> "file", inode |-> 3],
                 [name |-> "rtc", size |-> 2, type |-> "rtc", inode |-> 0] >>
=============================================================================
