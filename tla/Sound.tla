-------------------------------- MODULE Sound --------------------------------
(***************************************************************************)
(* The Sound Blaster 16 driver of sb16.c on top of the file system: the   *)
(* play system call (syscall.c 562-568) and play_music, the interrupt     *)
(* handler sb16_handler that refills the DMA buffer one block at a time,  *)
(* and stop, which Ctrl-C calls from the keyboard handler.                *)
(*                                                                         *)
(* The 64KB DMA buffer is two blocks of BLOCK_SIZE bytes, played in turn  *)
(* by the DMA controller (auto-init mode over the whole buffer) while    *)
(* each start_play makes the DSP play one block and raise IRQ 5 at its    *)
(* end.  The card is modelled at block granularity: card.blk is the block *)
(* the DMA address is at, card.on whether the DSP is playing it.  Port    *)
(* I/O (the DSP's command bytes, the DMA registers, the sample rate) is   *)
(* reduced to what it does to that state.  The bytes are FileSys's byte   *)
(* identities, so audio played from the wrong block or offset shows.      *)
(*                                                                         *)
(* System calls run with interrupts on, so play_music is split where      *)
(* Ctrl-C's stop can change what it reads; sb16_handler enables           *)
(* interrupts (sti) between its read_data and its decision, and the       *)
(* keyboard's IRQ 1 is served before a pending IRQ 5.                     *)
(***************************************************************************)
EXTENDS FileSys, SequencesExt

CONSTANTS
  BLOCK_SIZE,  \* bytes per DMA block (sb16.c 3: 32KB), scaled
  RiffHead,    \* the inodes whose first bytes, as far as they go, spell RIFF
  StopRaces    \* whether Ctrl-C may come while a play call, the card's
               \*   interrupt or the handler is under way

ASSUME BLOCK_SIZE \in Nat \ {0} /\ RiffHead \subseteq DOMAIN Inodes
ASSUME StopRaces \in BOOLEAN

BUFFER_SIZE == 2 * BLOCK_SIZE   \* sb16.c 4
ZERO == <<-1, 0>>               \* a byte of the zero-initialised DMA_Buffer

VARIABLES
  is_playing,        \* sb16.c 13
  audio_file_inode,  \* sb16.c 14
  current_offset,    \* sb16.c 12, a uint32
  cur_block,         \* sb16.c 10: the block the handler refills, 1 or 2
  dma_buffer,        \* DMA_Buffer (sb16.c 7), BUFFER_SIZE bytes
  card,              \* [on, blk]: the DSP playing, and the DMA's block
  irq,               \* IRQ 5 raised and not yet served
  handler,           \* sb16_handler between its sti and its decision
  played,            \* auxiliary: the bytes the card played since the
                     \*   last play_music started it
  sound_file         \* auxiliary: the inode that play_music started

soundVars == <<is_playing, audio_file_inode, current_offset, cur_block,
               dma_buffer, card, irq, handler, played, sound_file>>
allVars == <<vars, soundVars>>

IDLE == [at |-> "idle"]
NOFILE == -1

(* Block k of the buffer, and the buffer with data copied in from byte    *)
(* start on (read_data writes only the bytes it returns).                 *)
Block(buf, k) == SubSeq(buf, (k - 1) * BLOCK_SIZE + 1, k * BLOCK_SIZE)
Copy(buf, start, data) ==
  [j \in 1..BUFFER_SIZE |-> IF start < j /\ j <= start + Len(data)
                            THEN data[j - start] ELSE buf[j]]

(* The outcomes of play_music's test that the uint32 at magic is RIFF:   *)
(* holds what read_data(inode, 0, magic, 4) returned and is otherwise     *)
(* uninitialised stack, so when fewer than 4 bytes come back the outcome  *)
(* depends on what was there before.                                      *)
RiffOutcomes(inode) ==
  IF inode \notin RiffHead THEN {FALSE}
  ELSE IF ReadData(inode, 0, 4).res = 4 THEN {TRUE} ELSE BOOLEAN

(* Reset_DSP (sb16.c 43-68): the DSP stops whatever it played.            *)
ResetDsp(c) == [c EXCEPT !.on = FALSE]

(* Mutation of Transfer_Sound_DMA: the address written is not the       *)
(* buffer's, so the DMA starts outside both blocks.                       *)
TransferSoundDmaOutside(c) == [c EXCEPT !.blk = 0]

(* Transfer_Sound_DMA (sb16.c 128-194): channel 1 masked, its mode,       *)
(* address and count set to the whole buffer, unmasked: the DMA address   *)
(* is back at the start of block 1.                                       *)
TransferSoundDma(c) == [c EXCEPT !.blk = 1]

(* start_play (sb16.c 240-254): the DSP's 8-bit output command for one    *)
(* block, from wherever the DMA address is.                               *)
StartPlay(c) == [c EXCEPT !.on = TRUE]

(* Mutation of stop: cur_block is not set back to block1.                 *)
StopNoBlockReset ==
  /\ card' = [card EXCEPT !.on = FALSE]
  /\ is_playing' = 0
  /\ audio_file_inode' = 0
  /\ current_offset' = 0
  /\ UNCHANGED cur_block

(* stop (sb16.c 256-266): pause the DSP and forget the file; the name    *)
(* audio_filename it clears is never read.                                *)
Stop ==
  /\ card' = [card EXCEPT !.on = FALSE]
  /\ is_playing' = 0
  /\ audio_file_inode' = 0
  /\ current_offset' = 0
  /\ cur_block' = 1

(* play(filename) (syscall.c 562-568) and play_music up to the RIFF test  *)
(* (sb16.c 207-223): return at once while playing; look the name up and   *)
(* keep its inode in audio_file_inode; read the first 4 bytes and return  *)
(* when they are not RIFF.  play returns 0 in every case.                 *)
PlayLookup(p, name) ==
  LET k == ReadDentryByName(name) IN
  /\ InUser(p)
  /\ result' = [call |-> "play", p |-> p, res |-> 0]
  /\ IF is_playing = 1 \/ k = 0
     THEN UNCHANGED <<pc, audio_file_inode>>
     ELSE /\ audio_file_inode' = Dentries[k].i_node
          /\ \E riff \in RiffOutcomes(Dentries[k].i_node) :
               pc' = IF riff THEN [pc EXCEPT ![p] = InPlay(name)] ELSE pc
  /\ UNCHANGED <<files, dir_location, is_playing, current_offset, cur_block,
                 dma_buffer, card, irq, handler, played, sound_file>>

(* The rest of play_music (sb16.c 225-238): reset the DSP, open the file *)
(* (an fd of the caller that nothing closes), read BUFFER_SIZE bytes of   *)
(* audio_file_inode from current_offset into the buffer, point the DMA    *)
(* at it, start block 1, then is_playing = 1 and current_offset +=        *)
(* bytes_read.                                                            *)
PlayStart(p) ==
  LET r == ReadData(audio_file_inode, current_offset, BUFFER_SIZE) IN
  /\ pc[p].at = "play"
  /\ OpenCall(p, pc[p].name)
  /\ pc' = [pc EXCEPT ![p] = USER]
  /\ dma_buffer' = Copy(dma_buffer, 0, r.data)
  /\ card' = StartPlay(TransferSoundDma(ResetDsp(card)))
  /\ is_playing' = 1
  /\ current_offset' = (current_offset + r.res) % POS_MOD
  /\ played' = <<>>
  /\ sound_file' = audio_file_inode
  /\ UNCHANGED <<audio_file_inode, cur_block, irq, handler>>

(* played stops growing once it is longer than every file: it can then   *)
(* be a prefix of none, and a card that never stops keeps a finite state. *)
PLAYED_CAP == Max({Inodes[i].size : i \in DOMAIN Inodes})

(* The card: the DSP plays the block at the DMA address to its end, the  *)
(* DMA address moves on to the other block, and IRQ 5 is raised.          *)
CardDone ==
  /\ card.on
  /\ played' = IF Len(played) > PLAYED_CAP THEN played
               ELSE played \o Block(dma_buffer, card.blk)
  /\ card' = [on |-> FALSE, blk |-> 3 - card.blk]
  /\ irq' = TRUE
  /\ UNCHANGED <<vars, is_playing, audio_file_inode, current_offset, cur_block,
                 dma_buffer, handler, sound_file>>

(* Mutation of sb16_handler: current_offset is not advanced by the read. *)
SbHandlerReadNoAdvance ==
  LET r == ReadData(audio_file_inode, current_offset, BLOCK_SIZE) IN
  /\ irq /\ handler = IDLE
  /\ irq' = FALSE
  /\ dma_buffer' = Copy(dma_buffer, (cur_block - 1) * BLOCK_SIZE, r.data)
  /\ UNCHANGED current_offset
  /\ handler' = [at |-> "decide", bytes_read |-> r.res % POS_MOD]
  /\ UNCHANGED <<vars, is_playing, audio_file_inode, cur_block, card, played,
                 sound_file>>

(* sb16_handler up to its sti (sb16.c 268-278): acknowledge, read the next *)
(* BLOCK_SIZE bytes of the file into cur_block, current_offset +=          *)
(* bytes_read (a uint32, so a failed read's -1 wraps).                    *)
SbHandlerRead ==
  LET r == ReadData(audio_file_inode, current_offset, BLOCK_SIZE) IN
  /\ irq /\ handler = IDLE
  /\ irq' = FALSE
  /\ dma_buffer' = Copy(dma_buffer, (cur_block - 1) * BLOCK_SIZE, r.data)
  /\ current_offset' = (current_offset + r.res) % POS_MOD
  /\ handler' = [at |-> "decide", bytes_read |-> r.res % POS_MOD]
  /\ UNCHANGED <<vars, is_playing, audio_file_inode, cur_block, card, played,
                 sound_file>>

(* The rest of sb16_handler (sb16.c 280-293): after a full block switch   *)
(* cur_block and start the next block; after 0 bytes stop; after a short  *)
(* block do neither.                                                      *)
SbHandlerDecide ==
  /\ handler.at = "decide"
  /\ handler' = IDLE
  /\ CASE handler.bytes_read = BLOCK_SIZE ->
            /\ cur_block' = 3 - cur_block
            /\ card' = StartPlay(card)
            /\ UNCHANGED <<is_playing, audio_file_inode, current_offset>>
       [] handler.bytes_read = 0 -> Stop
       [] OTHER -> UNCHANGED <<is_playing, audio_file_inode, current_offset,
                               cur_block, card>>
  /\ UNCHANGED <<vars, dma_buffer, irq, played, sound_file>>

(* Ctrl-C in input_handler (keyboard.c 196-198) calls stop with           *)
(* interrupts off.  Unless StopRaces, it comes only while no play call,   *)
(* no raised IRQ 5 and no handler is under way.                           *)
StopOnCtrlC ==
  /\ StopRaces \/ (/\ \A p \in Procs : pc[p].at # "play"
                   /\ ~irq /\ handler = IDLE)
  /\ Stop
  /\ UNCHANGED <<vars, dma_buffer, irq, handler, played, sound_file>>

SoundInit ==
  /\ Init
  /\ is_playing = 0
  /\ audio_file_inode = 0
  /\ current_offset = 0
  /\ cur_block = 1
  /\ dma_buffer = [j \in 1..BUFFER_SIZE |-> ZERO]
  /\ card = [on |-> FALSE, blk |-> 1]
  /\ irq = FALSE
  /\ handler = IDLE
  /\ played = <<>>
  /\ sound_file = NOFILE

SoundNext ==
  \/ Next /\ UNCHANGED soundVars
  \/ \E p \in Procs : \/ \E name \in Names : PlayLookup(p, name)
                      \/ PlayStart(p)
  \/ CardDone
  \/ SbHandlerRead
  \/ SbHandlerDecide
  \/ StopOnCtrlC

SoundSpec == SoundInit /\ [][SoundNext]_allVars

(* The card plays a started block to its end and raises IRQ 5 by itself;  *)
(* the CPU serves a raised IRQ 5 once interrupts are on, and the handler  *)
(* runs on to its decision after its sti.                                 *)
SoundFairness ==
  /\ WF_allVars(CardDone)
  /\ WF_allVars(SbHandlerRead)
  /\ WF_allVars(SbHandlerDecide)

-----------------------------------------------------------------------------
AudioByte == {ZERO} \cup {Byte(b, j) : b \in 0..NUM_DBLOCKS, j \in 0..BLOCKSIZE - 1}

SoundTypeOK ==
  /\ is_playing \in {0, 1}
  /\ audio_file_inode \in DOMAIN Inodes
  /\ current_offset \in 0..POS_MOD - 1
  /\ cur_block \in {1, 2}
  /\ dma_buffer \in [1..BUFFER_SIZE -> AudioByte]
  /\ card \in [on : BOOLEAN, blk : {1, 2}]
  /\ irq \in BOOLEAN
  /\ handler \in {IDLE} \cup [at : {"decide"}, bytes_read : 0..POS_MOD - 1]

(* Since play_music started the card, it has played the file's bytes      *)
(* from the start, in order, none skipped, repeated or stale: the         *)
(* handler must refill exactly the block the card has just finished, so   *)
(* cur_block's switch in sb16_handler, stop's reset of cur_block and      *)
(* play_music's reset of the DMA address must keep the two in step,       *)
(* across plays, natural ends and Ctrl-C.                                 *)
SoundPlaysFileInOrder ==
  sound_file # NOFILE => IsPrefix(played, Contents(sound_file))

(* Every playback ends: once the card plays, it and its interrupt fall    *)
(* quiet for good unless a new play starts them: sb16_handler must move   *)
(* current_offset on by every read so that the reads run out, treat 0 and *)
(* short reads as the end, and stop must leave the card off.              *)
Quiet == ~card.on /\ ~irq /\ handler = IDLE
PlaybackEnds == card.on ~> Quiet
==============================================================================
