------------------------------- MODULE MC_Sound -------------------------------
(* The image of MC_FileSys with the sound driver: DMA blocks of 2 bytes,  *)
(* so the 7-byte file behind the 32-character name fills the buffer,     *)
(* takes one full refill and ends in a short block, and the 3-byte file   *)
(* of inode 0 ends inside the buffer's second block.                      *)
EXTENDS Sound, MC_FileSys

MC_BLOCK_SIZE == 2

(* Both files start with R, I, F: the 7-byte one passes the RIFF test,    *)
(* and for the 3-byte one the uninitialised fourth byte of magic decides. *)
MC_RiffHead == {0, 1}
(* The file-system calls first, then the sound.  A program plays from a  *)
(* table with no file of its own open, and after the first play makes no *)
(* other file-system call, though it may halt and play again.  The sound *)
(* steps touch no file-system state but play_music's open, and open,      *)
(* close and read touch no sound state, so what is left out are orders    *)
(* of independent steps and fd tables open has already produced.          *)
NoFileOpen(p) == \A fd \in MIN_FD..MAX_FD - 1 : files[p][fd] = FREE
MC_SoundNext ==
  \/ sound_file = NOFILE /\ Next /\ UNCHANGED soundVars
  \/ \E p \in Procs : Halt(p) /\ UNCHANGED soundVars
  \/ \E p \in Procs :
       \/ (sound_file # NOFILE \/ NoFileOpen(p)) /\ \E name \in Names : PlayLookup(p, name)
       \/ PlayStart(p)
  \/ CardDone
  \/ SbHandlerRead
  \/ SbHandlerDecide
  \/ StopOnCtrlC
MC_SoundSpec == SoundInit /\ [][MC_SoundNext]_allVars /\ SoundFairness
==============================================================================
