------------------------------- MODULE FileSys -------------------------------
(***************************************************************************)
(* The file-descriptor table of each process and the read-only file      *)
(* system behind it: the system calls open, close and read (syscall.c),   *)
(* the directory and file drivers (filesystem.c), and the fd-table        *)
(* set-up of execute and tear-down of halt.                               *)
(*                                                                         *)
(* Each element of Procs is one process slot (a pid whose program runs    *)
(* on its own terminal).  System calls run with interrupts on (the system *)
(* call gate is a trap gate), so the PIT may switch processes in the     *)
(* middle of one; the only state two processes share here is the global  *)
(* dir_location of dir_read, so dir_read is split at the point where the  *)
(* switch can change what it sees.  Every other call touches only the     *)
(* caller's own PCB and is one step.                                       *)
(*                                                                         *)
(* File data is abstracted to byte identities: byte j of data block b is  *)
(* the pair <<b, j>>, so a read that copies the wrong block or offset is  *)
(* told apart from a correct one.                                          *)
(***************************************************************************)
EXTENDS Integers, Sequences, FiniteSets, FiniteSetsExt

CONSTANTS
  Procs,        \* process slots
  MAX_FD,       \* fds per process (types.h MAX_FD, 8)
  BLOCKSIZE,    \* bytes per data block (filesystem.h BLOCKSIZE, 4096)
  Dentries,     \* the boot block's directory entries, a sequence of
                \*   [name, f_type, i_node] records
  Inodes,       \* Inodes[i] = [size, blocks]: length and data-block indices
  NUM_INODES,   \* the boot block's inode count
  NUM_DBLOCKS,  \* the boot block's data-block count
  Names,        \* names programs pass to open
  ReadSizes,    \* nbytes values programs pass to read
  POS_WIDTH     \* width of the uint32 file_pos (scaled)

MIN_FD == 2
RTC_TYPE == 0
DIR_TYPE == 1
REGULAR_FILE == 2

ASSUME MAX_FD > MIN_FD
ASSUME \A k \in DOMAIN Dentries :
         Dentries[k].f_type \in {RTC_TYPE, DIR_TYPE, REGULAR_FILE}
ASSUME DOMAIN Inodes = 0..NUM_INODES - 1
ASSUME ReadSizes \subseteq Int

Fds == 0..MAX_FD - 1
NUM_DENTRIES == Len(Dentries)
POS_MOD == 2^POS_WIDTH

(* An fd slot.  A free slot's other fields are stale and never read, so   *)
(* it is the single value FREE.  ptrs is the operation vector, named by   *)
(* its table in syscall.c 4-9.  gpos is a ghost: the position the fd      *)
(* would have in a directory listing if it kept its own.                  *)
FREE == [ptrs |-> "none"]
Stdin == [ptrs |-> "stdin", inode |-> -1, file_pos |-> 0]
Stdout == [ptrs |-> "stdout", inode |-> -1, file_pos |-> 0]
Entry(ptrs, inode) == [ptrs |-> ptrs, inode |-> inode, file_pos |-> 0, gpos |-> 0]

(* The fd table execute builds (syscall.c 250-266).                       *)
FreshTable == [fd \in Fds |-> IF fd = 0 THEN Stdin ELSE IF fd = 1 THEN Stdout ELSE FREE]

(* The bytes read_dentry_by_name compares.  A name a program passes is a  *)
(* NUL-terminated string; a dentry's f_name is a 32-byte field, NUL-padded *)
(* when shorter, and a 32-character name has no NUL, so strlen runs on    *)
(* into the uint32 f_type (types.h 31-36): its low byte ends the string   *)
(* when it is RTC_TYPE (0), and the next byte, always 0, ends it otherwise. *)
NUL == "NUL"
F_NAME_LEN == 32   \* F_TYPE_OFFSET, filesystem.h 14
NameByte(s, k) == IF k < Len(s) THEN s[k + 1] ELSE NUL
DentryStrlen(d) ==
  IF Len(d.name) < F_NAME_LEN THEN Len(d.name)
  ELSE IF d.f_type = RTC_TYPE THEN F_NAME_LEN ELSE F_NAME_LEN + 1

(* strncmp(fname, d.f_name, n), lib.c 687-700, up to its sign: it stops  *)
(* at the first index below n where the bytes differ or fname has its   *)
(* NUL, and returns their difference, 0 when both are NUL there.          *)
StrncmpZero(fname, d, n) ==
  LET stops == {i \in 0..n - 1 : NameByte(fname, i) # NameByte(d.name, i)
                                  \/ NameByte(fname, i) = NUL}
  IN  stops = {} \/ NameByte(fname, Min(stops)) = NameByte(d.name, Min(stops))

(* Mutation of read_dentry_by_name: the length test dropped.              *)
ReadDentryByNamePrefix(fname) ==
  LET fnlength == Len(fname)
      hits == {k \in DOMAIN Dentries : StrncmpZero(fname, Dentries[k], fnlength)}
  IN  IF fnlength > F_NAME_LEN \/ hits = {} THEN 0 ELSE Min(hits)

(* read_dentry_by_name (filesystem.c 57-91): reject a name longer than 32, *)
(* then the first entry whose first strlen(fname) bytes match and whose   *)
(* length agrees (any two lengths of 32 or more agree); 0 when none does. *)
ReadDentryByName(fname) ==
  LET fnlength == Len(fname)
      LenMatch(d) == IF fnlength >= F_NAME_LEN /\ DentryStrlen(d) >= F_NAME_LEN THEN TRUE
                     ELSE fnlength = DentryStrlen(d)
      hits == {k \in DOMAIN Dentries : StrncmpZero(fname, Dentries[k], fnlength)
                                       /\ LenMatch(Dentries[k])}
  IN  IF fnlength > F_NAME_LEN \/ hits = {} THEN 0 ELSE Min(hits)

(* Byte j of data block b.                                                 *)
Byte(b, j) == <<b, j>>

(* n bytes of data block b from byte off on: what one memcpy (lib.c      *)
(* 604-645) leaves in the buffer, whichever of its byte-by-byte head,    *)
(* rep movsl body and byte tail copies each byte.                        *)
BlockBytes(b, off, n) == [j \in 1..n |-> Byte(b, off + j - 1)]

(* The block index stored in slot k of inode i's block list.               *)
BlockIdx(i, k) == Inodes[i].blocks[k + 1]

Failed == [res |-> -1, data |-> <<>>]

(* The loop of read_data over the blocks after the first (filesystem.c    *)
(* 196-225): k is the block-list slot copied last, left the bytes still   *)
(* to copy.  Only full blocks are checked against NUM_DBLOCKS.            *)
RECURSIVE CopyRest(_, _, _, _, _)
CopyRest(i, k, left, acc, total) ==
  IF left > BLOCKSIZE
  THEN IF BlockIdx(i, k + 1) > NUM_DBLOCKS THEN Failed
       ELSE CopyRest(i, k + 1, left - BLOCKSIZE,
                     acc \o BlockBytes(BlockIdx(i, k + 1), 0, BLOCKSIZE), total)
  ELSE [res |-> total, data |-> acc \o BlockBytes(BlockIdx(i, k + 1), 0, left)]

(* Mutation of read_data: the last block is taken from the slot already  *)
(* copied (d_block_idx_offset not advanced).                              *)
ReadDataLastBlockStale(inode, offset, length) ==
  LET size == Inodes[inode].size
      real == Min({size - offset, length})
      k0   == offset \div BLOCKSIZE
      off0 == offset % BLOCKSIZE
      rest == real - (BLOCKSIZE - off0)
  IN  IF inode >= NUM_INODES - 1 THEN Failed
      ELSE IF offset >= size THEN [res |-> 0, data |-> <<>>]
      ELSE IF BlockIdx(inode, k0) > NUM_DBLOCKS THEN Failed
      ELSE IF BLOCKSIZE - off0 >= real
           THEN [res |-> real, data |-> BlockBytes(BlockIdx(inode, k0), off0, real)]
      ELSE IF rest > BLOCKSIZE
           THEN CopyRest(inode, k0, rest,
                         BlockBytes(BlockIdx(inode, k0), off0, BLOCKSIZE - off0), real)
      ELSE [res |-> real, data |-> BlockBytes(BlockIdx(inode, k0), off0, BLOCKSIZE - off0)
                                   \o BlockBytes(BlockIdx(inode, k0), 0, rest)]

(* read_data(inode, offset, buf, length), filesystem.c 144-228.           *)
ReadData(inode, offset, length) ==
  LET size == Inodes[inode].size
      real == Min({size - offset, length})
      k0   == offset \div BLOCKSIZE
      off0 == offset % BLOCKSIZE
  IN  IF inode >= NUM_INODES - 1 THEN Failed
      ELSE IF offset >= size THEN [res |-> 0, data |-> <<>>]
      ELSE IF BlockIdx(inode, k0) > NUM_DBLOCKS THEN Failed
      ELSE IF BLOCKSIZE - off0 >= real
           THEN [res |-> real, data |-> BlockBytes(BlockIdx(inode, k0), off0, real)]
      ELSE CopyRest(inode, k0, real - (BLOCKSIZE - off0),
                    BlockBytes(BlockIdx(inode, k0), off0, BLOCKSIZE - off0), real)

(* What inode i holds: its size bytes, block by block.                    *)
Contents(i) ==
  [j \in 1..Inodes[i].size |->
     Byte(Inodes[i].blocks[(j - 1) \div BLOCKSIZE + 1], (j - 1) % BLOCKSIZE)]

VARIABLES
  files,         \* files[p]: the fd table of process p (pcb_t.files)
  dir_location,  \* dir_read's cursor, one global (filesystem.h 31)
  pc,            \* pc[p]: USER, or InDirRead(fd) between dir_read's fetch
                 \*   of an entry and its dir_location += 1, or InPlay(name)
                 \*   inside play_music (Sound)
  result         \* the last system call's outcome, for the properties

vars == <<files, dir_location, pc, result>>

NONE == [call |-> "none"]
USER == [at |-> "user"]
InDirRead(fd) == [at |-> "dir_read", fd |-> fd]
InPlay(name) == [at |-> "play", name |-> name]   \* inside play_music (Sound)

(* A process makes a system call only from user mode.                     *)
InUser(p) == pc[p] = USER

(* open(filename), syscall.c 392-453: look the name up, take the first    *)
(* free fd from MIN_FD on, bind the vector of the entry's type and call   *)
(* its open.  dir_open resets dir_location; rtc_open and file_open leave  *)
(* this module's state alone and return 0.  The kernel calls it too       *)
(* (play_music, Sound), so the caller's pc is left to the caller.        *)
OpenCall(p, name) ==
  LET k    == ReadDentryByName(name)
      free == {fd \in MIN_FD..MAX_FD - 1 : files[p][fd] = FREE}
      fd   == Min(free)
      d    == Dentries[k]
      ptrs == CASE d.f_type = RTC_TYPE -> "rtc"
                [] d.f_type = DIR_TYPE -> "dir"
                [] d.f_type = REGULAR_FILE -> "file"
  IN  IF k = 0 \/ free = {}
         THEN /\ result' = [call |-> "open", p |-> p, name |-> name, res |-> -1]
              /\ UNCHANGED <<files, dir_location>>
         ELSE /\ files' = [files EXCEPT ![p][fd] = Entry(ptrs, d.i_node)]
              /\ dir_location' = IF ptrs = "dir" THEN 0 ELSE dir_location
              /\ result' = [call |-> "open", p |-> p, name |-> name, res |-> fd]

(* The open system call from user mode.                                    *)
Open(p, name) == InUser(p) /\ OpenCall(p, name) /\ UNCHANGED pc

(* close(fd), syscall.c 468-484: only fds MIN_FD..MAX_FD-1 that are in    *)
(* use; every driver's close returns 0.                                   *)
Close(p, fd) ==
  /\ InUser(p)
  /\ IF fd < MIN_FD \/ fd >= MAX_FD \/ files[p][fd] = FREE
     THEN /\ result' = [call |-> "close", p |-> p, res |-> -1]
          /\ UNCHANGED files
     ELSE /\ files' = [files EXCEPT ![p][fd] = FREE]
          /\ result' = [call |-> "close", p |-> p, res |-> 0]
  /\ UNCHANGED <<dir_location, pc>>

(* Mutation of file_read: the position advances by nbytes, not by what  *)
(* read_data returned.                                                    *)
FileReadAddsNbytes(p, fd, n) ==
  LET f == files[p][fd]
      r == ReadData(f.inode, f.file_pos, n)
  IN  /\ files' = [files EXCEPT ![p][fd].file_pos = (f.file_pos + n) % POS_MOD]
      /\ result' = [call |-> "file", p |-> p, inode |-> f.inode, pos |-> f.file_pos,
                    n |-> n, res |-> r.res, data |-> r.data]
      /\ UNCHANGED <<dir_location, pc>>

(* file_read, filesystem.c 385-405: read_data at the fd's position, then  *)
(* file_pos += res, also when res is -1 (file_pos is a uint32).           *)
FileRead(p, fd, n) ==
  LET f == files[p][fd]
      r == ReadData(f.inode, f.file_pos, n)
  IN  /\ files' = [files EXCEPT ![p][fd].file_pos = (f.file_pos + r.res) % POS_MOD]
      /\ result' = [call |-> "file", p |-> p, inode |-> f.inode, pos |-> f.file_pos,
                    n |-> n, res |-> r.res, data |-> r.data]
      /\ UNCHANGED <<dir_location, pc>>

(* The ghost listing position after one more entry of a private listing, *)
(* and the entry such a listing returns at g (END past the last one).     *)
NextGpos(g) == IF g < NUM_DENTRIES THEN g + 1 ELSE 0
END == -1
Expected(g) == IF g < NUM_DENTRIES THEN g ELSE END

(* Mutation of read_dentry_by_index's check: index > num_dentries.        *)
ReadDentryByIndexOffByOne(index) == index <= NUM_DENTRIES

(* read_dentry_by_index succeeds (filesystem.c 109-121).                  *)
ReadDentryByIndexOk(index) == index < NUM_DENTRIES

(* Mutation of dir_read: the end of the directory does not reset          *)
(* dir_location.                                                          *)
DirReadNoReset(p, fd) ==
  LET g == files[p][fd].gpos IN
  /\ IF ReadDentryByIndexOk(dir_location)
     THEN /\ pc' = [pc EXCEPT ![p] = InDirRead(fd)]
          /\ UNCHANGED dir_location
     ELSE UNCHANGED <<dir_location, pc>>
  /\ files' = [files EXCEPT ![p][fd].gpos = NextGpos(g)]
  /\ result' = [call |-> "dir", p |-> p, expect |-> Expected(g),
                idx |-> IF ReadDentryByIndexOk(dir_location) THEN dir_location ELSE END]

(* dir_read, filesystem.c 279-313, up to its dir_location += 1: fetch the *)
(* entry at dir_location (read_dentry_by_index, filesystem.c 109-121) and *)
(* copy its name out; past the last entry reset dir_location and return 0.*)
DirRead(p, fd) ==
  LET g == files[p][fd].gpos IN
  /\ IF ReadDentryByIndexOk(dir_location)
     THEN /\ pc' = [pc EXCEPT ![p] = InDirRead(fd)]
          /\ UNCHANGED dir_location
     ELSE /\ dir_location' = 0
          /\ UNCHANGED pc
  /\ files' = [files EXCEPT ![p][fd].gpos = NextGpos(g)]
  /\ result' = [call |-> "dir", p |-> p, expect |-> Expected(g),
                idx |-> IF ReadDentryByIndexOk(dir_location) THEN dir_location ELSE END]

(* The rest of dir_read, filesystem.c 300-303: dir_location += 1, reading *)
(* the global again after any switch since the fetch.                     *)
DirReadInc(p) ==
  /\ pc[p].at = "dir_read"
  /\ dir_location' = dir_location + 1
  /\ pc' = [pc EXCEPT ![p] = USER]
  /\ UNCHANGED <<files, result>>

(* read(fd, buf, nbytes), syscall.c 322-340: check fd, nbytes and the     *)
(* slot, then call the vector's read.  terminal_read and rtc_read change  *)
(* no state of this module (Rtc models rtc_read); stdout's read is fail.  *)
Read(p, fd, n) ==
  /\ InUser(p)
  /\ IF fd < 0 \/ fd >= MAX_FD \/ n < 0 \/ files[p][fd] = FREE
                \/ files[p][fd].ptrs = "stdout"
     THEN /\ result' = [call |-> "read", p |-> p, res |-> -1]
          /\ UNCHANGED <<files, dir_location, pc>>
     ELSE CASE files[p][fd].ptrs = "file" -> FileRead(p, fd, n)
            [] files[p][fd].ptrs = "dir"  -> DirRead(p, fd)
            [] files[p][fd].ptrs \in {"stdin", "rtc"} ->
                 /\ result' = [call |-> "device", p |-> p]
                 /\ UNCHANGED <<files, dir_location, pc>>

(* write(fd, buf, nbytes), syscall.c 358-376: the same checks as read,  *)
(* then the vector's write.  stdin's write is fail, dir_write and         *)
(* file_write return -1 (filesystem.c 327-330, 419-421); terminal_write   *)
(* and rtc_write change only state that Echo and Rtc model.               *)
Write(p, fd, n) ==
  /\ InUser(p)
  /\ result' = IF \/ fd < 0 \/ fd >= MAX_FD \/ n < 0 \/ files[p][fd] = FREE
                  \/ files[p][fd].ptrs \in {"stdin", "dir", "file"}
                THEN [call |-> "write", p |-> p, res |-> -1]
                ELSE [call |-> "device", p |-> p]
  /\ UNCHANGED <<files, dir_location, pc>>

(* halt's fd loop (syscall.c 58-67) closes and clears every slot; the     *)
(* next program execute starts in this slot gets a fresh table            *)
(* (syscall.c 250-266).  A pending signal delivered by the PIT can halt   *)
(* a process inside dir_read, so the rest of that read never happens.     *)
Halt(p) ==
  /\ files' = [files EXCEPT ![p] = FreshTable]
  /\ pc' = [pc EXCEPT ![p] = USER]
  /\ result' = NONE
  /\ UNCHANGED dir_location

(* filesystem_init (filesystem.c 34) and the first execute of each slot. *)
Init ==
  /\ files = [p \in Procs |-> FreshTable]
  /\ dir_location = 0
  /\ pc = [p \in Procs |-> USER]
  /\ result = NONE

Next ==
  \E p \in Procs :
    \/ \E name \in Names : Open(p, name)
    \/ \E fd \in -1..MAX_FD : \/ Close(p, fd)
                             \/ \E n \in ReadSizes : Read(p, fd, n) \/ Write(p, fd, n)
    \/ DirReadInc(p)
    \/ Halt(p)

Spec == Init /\ [][Next]_vars

-----------------------------------------------------------------------------
Slot ==
  {FREE, Stdin, Stdout} \cup
  [ptrs: {"rtc", "dir", "file"}, inode: DOMAIN Inodes, file_pos: 0..POS_MOD - 1,
   gpos: 0..NUM_DENTRIES]

FsTypeOK ==
  /\ files \in [Procs -> [Fds -> Slot]]
  /\ dir_location \in 0..NUM_DENTRIES + Cardinality(Procs) - 1
  /\ pc \in [Procs -> {USER} \cup {InDirRead(fd) : fd \in MIN_FD..MAX_FD - 1}
                       \cup {InPlay(name) : name \in Names}]

(* A read of a regular file returns exactly the bytes of the file from    *)
(* the fd's position on, as many as asked and as remain, and 0 only at    *)
(* the end: read_data's block arithmetic against the file's contents.     *)
FileReadReturnsContents ==
  result.call = "file" =>
    LET want == SubSeq(Contents(result.inode), result.pos + 1,
                       result.pos + Min({result.n, Inodes[result.inode].size - result.pos}))
    IN  result.data = want /\ result.res = Len(want)

(* The position file_read keeps never passes the end of the file, however *)
(* many reads of whatever sizes are made.                                 *)
FilePosWithinFile ==
  \A p \in Procs, fd \in Fds :
    files[p][fd].ptrs = "file" => files[p][fd].file_pos <= Inodes[files[p][fd].inode].size

(* Reading a directory fd returns the entries one by one in order and     *)
(* then the end, then starts again: what a private cursor for the fd      *)
(* would give.  dir_read keeps its cursor in the global dir_location.     *)
DirReadsInOrder ==
  result.call = "dir" => result.idx = result.expect

(* open(name) binds a free fd to the first directory entry whose name is *)
(* exactly name, and fails only when there is no such entry or every fd  *)
(* is taken: read_dentry_by_name's strncmp over strlen(name) bytes, its  *)
(* length test and its 32-character edge, where f_name has no NUL, must   *)
(* together amount to whole-name equality.                               *)
OpenFindsExactName ==
  result.call = "open" =>
    LET hits == {k \in DOMAIN Dentries : Dentries[k].name = result.name}
        p    == result.p
    IN  IF result.res = -1
        THEN hits = {} \/ \A fd \in MIN_FD..MAX_FD - 1 : files[p][fd] # FREE
        ELSE /\ hits # {}
             /\ files[p][result.res].inode = Dentries[Min(hits)].i_node
             /\ files[p][result.res].ptrs =
                  CASE Dentries[Min(hits)].f_type = RTC_TYPE -> "rtc"
                    [] Dentries[Min(hits)].f_type = DIR_TYPE -> "dir"
                    [] OTHER -> "file"

=============================================================================
