------------------------------ MODULE MC_FileSys ------------------------------
(* A small file-system image.  Blocks hold 2 bytes instead of 4096, so a  *)
(* file of 3 to 7 bytes already spans 2 to 4 blocks and a read can start *)
(* inside a block, end inside one or cover a whole middle block.          *)
EXTENDS FileSys, TLC

MC_BLOCKSIZE == 2
MC_NUM_DBLOCKS == 5
MC_NUM_INODES == 3

(* Names are sequences of characters.  A32 is a 32-character name: a     *)
(* dentry holding it has no NUL in f_name.                                *)
Chars(n, c) == [i \in 1..n |-> c]
A31 == Chars(31, "a")
A32 == Chars(32, "a")
A33 == Chars(33, "a")
DOT == <<".">>
RTC == <<"r", "t", "c">>
FRAME == <<"f", "r", "a", "m", "e">>

(* ".", "rtc", two regular files and one with a 32-character name; inode *)
(* 2, the last, holds no file.                                            *)
MC_Dentries ==
  << [name |-> DOT,   f_type |-> DIR_TYPE,     i_node |-> 0],
     [name |-> RTC,   f_type |-> RTC_TYPE,     i_node |-> 0],
     [name |-> FRAME, f_type |-> REGULAR_FILE, i_node |-> 0],
     [name |-> A32,   f_type |-> REGULAR_FILE, i_node |-> 1] >>

MC_Inodes ==
  0 :> [size |-> 3, blocks |-> <<2, 0>>] @@
  1 :> [size |-> 7, blocks |-> <<1, 3, 4, 5>>] @@
  2 :> [size |-> 0, blocks |-> <<>>]

(* Every entry's name; a prefix and an extension of one; the 31- and     *)
(* 33-character neighbours of the 32-character name; the empty name.      *)
MC_Names == {DOT, RTC, FRAME, A32, <<"f", "r", "a">>, FRAME \o <<"s">>, A31, A33, <<>>}

(* A negative size, one byte, a read across a block boundary, and a read *)
(* that covers a whole middle block.                                     *)
MC_ReadSizes == {-1, 1, 3, 5}

MC_POS_WIDTH == 16

(* Programs that keep at most one directory open at a time, system-wide  *)
(* (one ls running).                                                     *)
OneListing ==
  Cardinality({<<p, fd>> \in Procs \X Fds : files'[p][fd].ptrs = "dir"}) <= 1
=============================================================================
