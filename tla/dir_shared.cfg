CONSTANTS
  BLOCKSIZE <- MC_BLOCKSIZE
  NUM_DBLOCKS <- MC_NUM_DBLOCKS
  NUM_INODES <- MC_NUM_INODES
  ReadSizes <- MC_ReadSizes
  POS_WIDTH <- MC_POS_WIDTH
  Dentries <- MC_Dentries
  Inodes <- MC_Inodes
  Names <- MC_Names
  Procs = {p1, p2}
  MAX_FD = 3
SPECIFICATION Spec
INVARIANT DirReadsInOrder
