CONSTANTS
  BLOCKSIZE <- MC_BLOCKSIZE
  NUM_DBLOCKS <- MC_NUM_DBLOCKS
  NUM_INODES <- MC_NUM_INODES
  ReadSizes <- MC_ReadSizes
  POS_WIDTH <- MC_POS_WIDTH
  Dentries <- MC_Dentries
  Inodes <- MC_Inodes
  Names <- MC_Names
  BLOCK_SIZE <- MC_BLOCK_SIZE
  RiffHead <- MC_RiffHead
  StopRaces = FALSE
  Procs = {p1}
  MAX_FD = 4
SPECIFICATION MC_SoundSpec
ACTION_CONSTRAINT OneListing
INVARIANT FsTypeOK
INVARIANT FileReadReturnsContents
INVARIANT FilePosWithinFile
INVARIANT DirReadsInOrder
INVARIANT OpenFindsExactName
INVARIANT SoundTypeOK
INVARIANT SoundPlaysFileInOrder
PROPERTY PlaybackEnds
