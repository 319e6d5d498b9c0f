# TLA+ models of the illinix kernel

These modules model the kernel in `src/student-distrib`: its process core,
the file-descriptor table and file system, the virtual RTC, the parsing of
command lines, the keyboard line buffer with terminal_read, the echo of
keys with the cursor that backspace relies on, the page tables, printf's
number formatting, and the Sound Blaster driver's double-buffered playback.
TLC checks them. The kernel runs on one CPU. Three things interleave on it:
user programs making system calls, the PIT interrupt (the scheduler) and the
keyboard interrupt (Ctrl-C, Alt+Fn), and the sound card's interrupt.

## The system

| Part | Source | State | Operations |
|---|---|---|---|
| Process lifecycle | `syscall.c` execute/halt, `lib.h` | `process[]`, `process_terminal[3][MAX_TASK]`, `process_terminal_cnt[3]`, the PCB (`parent_pid`, `parent_esp/ebp`, `schedule_esp/ebp`, `pending_signal`, `sighandler`, `files[]`) | execute, halt |
| Scheduler | `scheduling.c` pit_handler | `running_terminal`, the saved contexts | one PIT tick |
| Terminals | `terminal.c` | `current_terminal`, `terminal_running[]`, the screen buffers | init_terminal, switch_to_terminal, terminal_read/write |
| Screen echo | `lib.c` putc, putc_terminal, enter_handler, backspace_handler, printf, itoa | `screen_x`, `screen_y`, `row_stack`, `column_stack`, their copies in `terminal_info` | putc, a newline, backspace, Ctrl-L, terminal_write |
| Keyboard | `keyboard.c`, `lib.c` key_arr_* | modifier state, `key_arr`, `key_arr_ptr`, `key_arr_overflow`, `enter_state` | Ctrl-C, Alt+Fn, typing, Enter, backspace |
| Signals | `syscall.c` | `pending_signal`, `sighandler` | set_handler, send_signal, signal_default |
| Exceptions | `exception.c`, `idt.c` | none | every handler ends in `print_exception` |
| Paging | `paging.c` | `page_directory`, `page_table`, `page_table_vidmem`, `tss.esp0` | init_page, map_program, map_user_video, map_terminal_video |
| File descriptors, file system | `syscall.c`, `filesystem.c` | `pcb->files[]`, `dir_location` | open, close, read, write, dir_read, file_read |
| Sound | `sb16.c`, `syscall.c` play | `DMA_Buffer`, `cur_block`, `current_offset`, `is_playing`, `audio_file_inode`, the card | play, play_music, sb16_handler, stop (Ctrl-C) |
| RTC | `rtc.c` | `constant_arr`, `counter_table`, `itr_occur_table` | rtc_open/read/write, the RTC interrupt |
| Command parsing | `syscall.c` execute, getargs | `exe_name`, `args_buf`, `pcb->argument` | execute step 1, getargs |

**How the parts interact**

- **One stack per terminal.** Each terminal has a stack of pids. Its top
  process is the one that runs when that terminal is scheduled.
- **execute pushes onto the terminal on screen.** It takes the lowest free
  pid and uses the top of `current_terminal`'s stack as the parent.
- **halt pops the scheduled terminal.** It pops `running_terminal`'s stack.
  If the halted pid is 0, or the stack is now empty, it calls
  `execute("shell")` again. Otherwise it jumps back onto the parent's kernel
  stack, into execute.
- **The scheduler switches kernel stacks.** `pit_handler` picks the next
  running terminal and swaps kernel stacks through `schedule_esp`. It then
  delivers the new process's pending signal.
- **Ctrl-C is delivered later.** It only marks INTERRUPT pending. The default
  handler turns it into `halt(0)`.
- **One live line buffer.** `key_arr` always holds the line of the terminal
  on screen. `switch_to_terminal` copies it into the old terminal's
  `terminal_info` and copies the new terminal's saved line back.
  `enter_state`, set by Enter, is one global flag. `terminal_read` spins
  until the flag is set and its terminal is on screen, then clears the flag,
  copies `key_arr` and clears it, with interrupts on between those steps.
- **Backspace is steered by the cursor.** `terminal_write` leaves
  `column_stack` at the cursor after each character, and `putc` counts the
  rows a line wraps in `row_stack`. `backspace_handler` stops at
  (`column_stack`, `row_stack` = 0). So the typed characters are "the cells
  past the prompt", and the cursor and the key buffer must move in step.
- **Alt+Fn starts a new terminal by hand.** For a terminal that never ran,
  `switch_to_terminal` marks it running, makes it both `current_terminal` and
  `running_terminal`, enables interrupts and calls `execute("shell")`.

**What is hard to get right**

- **Two terminal variables.** execute uses `current_terminal` and halt uses
  `running_terminal`. They differ whenever a program runs on a terminal that
  is not on screen.
- **Places where interrupts are back on mid-operation.** `input_handler` and
  `switch_to_terminal` both call `sti` before they finish.
- **A signal delivered after the user switched terminals.** Ctrl-C marks the
  process, but the tick that delivers it can come after Alt+Fn.
- **Unchecked `uint32` stack counts.** The counts are used as indices, and
  `halt` decrements them with no check.
- **Saved contexts that were never written.** A new process has no
  `schedule_esp`, and a relaunched shell's `parent_esp` is the stack of the
  process that just halted.
- **One global read position.** `dir_read` keeps its place in the global
  `dir_location`, so two processes listing the directory share it.
- **A line shared through globals.** The live buffer and `enter_state` belong
  to whichever terminal is on screen when they are read, not to the reader.
- **Unbounded copies into stack buffers.** execute copies the command line
  into `exe_name[32]` and `args_buf[100]` with loop bounds that let it write
  past both.

## Modules

### `Kernel.tla`

This module models execute, halt, pit_handler, switch_to_terminal,
init_terminal, Ctrl-C, Alt+Fn, set_handler, vidmap and the exception
handlers.

**State**

- Variables named after the code: `process`, `process_terminal`,
  `process_terminal_cnt`, `current_terminal`, `running_terminal`,
  `terminal_running`, `parent_pid`, `pending_signal`, `sighandler`.
- `process_terminal` is flattened to cells `t*MAX_TASK+j`, as it lies in
  memory. An index of -1 in row t reads the last cell of row t-1. A read
  outside the array may return any value (`ReadCell`).
- `parent_ctx` and `sched_ctx` stand for `parent_esp/ebp` and
  `schedule_esp/ebp`. Each records which kernel stack was saved and what that
  context does when resumed. `STALE` means never saved; `HALTING` means the
  stack of a halted process.
- `curr` is `get_curr_pcb()`, the owner of the kernel stack in use. `act` is
  what the CPU does next in that context:
  - `USER`: user mode;
  - `SPIN`: print_exception's `while(1)`;
  - `SwitchAct`: inside input_handler's `sti` window;
  - `LaunchAct`: inside switch_to_terminal's `sti` window.
- `program_slot`, `tss_pid` and `video_window` are the targets of the
  program page, of `tss.esp0` and of the vidmap page.
- `corrupt` records an access outside every array, or a jump onto a dead
  kernel stack.

**Actions**

Each action is one handler, taken atomically: the code runs each of them with
interrupts off.

| Action | Code |
|---|---|
| `SysExecute` | execute (`Spawn` and `Start`) |
| `SysHalt` | halt (`DoHalt`) |
| `SetHandler` | set_handler |
| `Vidmap` | vidmap |
| `Fault` | exception handlers |
| `CtrlC` | Ctrl-C in input_handler |
| `AltF(t)` | Alt+Fn in input_handler |
| `SwitchTerminal` | switch_to_terminal (four outcomes) |
| `LaunchShell` | the `execute("shell")` at its end |
| `TickSwitch` | pit_handler, multi-terminal branch |
| `TickSingle` | pit_handler, single-terminal branch |

- **Where an interrupt can arrive.** An interrupt can only arrive where the
  code has interrupts on: when `act` is `USER` or `SPIN`, and inside the two
  `sti` windows.
- **Signal delivery in pit_handler.** The default handler for INTERRUPT calls
  `halt(0)` on the new process's stack (`DoHalt`). A user handler returns.
  The single-terminal branch then clears the pending signal; the
  multi-terminal branch does not.
- **Exception gates.** The gates are trap gates (`idt.c`), so interrupts stay
  on inside print_exception's `while(1)`.

**Three races of user timing.** Each is a constant; TRUE allows it, as the
code does.

- `BackgroundCalls`: a process whose terminal is off screen calls execute or
  halt. Example: a program finishes while the user looks at another terminal.
- `PreemptWindows`: the PIT or a key fires inside the Alt+Fn `sti` windows.
  A second Alt+Fn may then start inside the first one's window, and so on,
  up to `MAX_NEST` levels: `act` records the interrupted context as a chain
  (`SwitchAct(t, back)`, `LaunchAct(back)`), built by the recursive
  `ActsUpTo` and measured by `Depth`.
- `SwitchBeforeKill`: Alt+Fn is pressed between Ctrl-C and its delivery.

**Fairness**

- **The PIT tick is strongly fair.** The PIT fires periodically, and the PIC
  latches its IRQ while interrupts are off. So a tick that is enabled again
  and again is taken.
- **Kernel code that has started finishes** (`SwitchTerminal`,
  `LaunchShell` are weakly fair).
- **Users and the keyboard owe nothing.**

**`MC_Kernel.tla`** supplies the model-checking definitions:

- `PreemptEnv`: the action constraint of kernel_preempt, three parts.
  `NoCtrlC`: no Ctrl-C, handler or fault. `NestInLaunchOnly`: a nested
  Alt+Fn comes only inside a launch window and names a terminal not yet
  started, the case in which two launches compete for pids (with three
  terminals, one started, `MAX_NEST` 2 is as deep as such launches go).
  `SwitchToRunningThrough`: an Alt+Fn to a terminal that already runs is
  not interrupted; that switch saves no context and touches no stack, and
  kernel_fg covers it. With the PIT in those windows, or with Ctrl-C, the
  run does not finish within its time.
- `StopAtWild`: stop exploring after the first wild access;
- `PlainPrograms` / `NoCtrlC`: an action constraint that leaves out
  set_handler, faults and Ctrl-C in the larger runs;
- `ControlView`: a view without `video_window` and `last_return`, which no
  guard reads.

### `Paging.tla`

The page tables of `paging.c` as pure operators, and Kernel composes them.

- **Units.** An address is counted in 4KB frames, so 4GB fits TLC's
  integers. An entry is a record of the bits the code sets (present, R/W,
  U/S, PS), its base frame, and the table a directory entry points at.
- **Arrays.** `page_directory`, `page_table` and `page_table_vidmem` are
  functions over the entries the code writes. Every other entry has the
  value init_page's loops (or the zeroed BSS) leave in it (`PdeDefault`,
  `PteDefault`, `VidPteDefault`).
- **Operations.** `InitPage` is init_page with map_kernel,
  initialize_page_table and map_video. `MapProgram`, `MapUserVideo` and
  `MapTerminalVideo` are map_program, map_user_video and
  map_terminal_video. `Walk` is the MMU's two-level walk with CR4.PSE on,
  and it needs U/S at both levels for a user access.
- **Composition.** Kernel already records the pid of the last map_program
  (`program_slot`) and the last window mapping (`video_window`). Its
  `MemoryMap` rebuilds the tables from those two values, as
  map_user_video_to_buffer chooses between them. Every call rewrites only
  its own entries and then flushes the TLB, so the tables depend on
  nothing else.
- **Properties (checked in `kernel_fg`).**
  - `UserMemoryIsolated`: while a user program runs, no frame that user
    mode can reach lies in the kernel's 4MB page or in another live pid's
    program page.
  - `WindowOnScreenBuffer`: the vidmap page walks to video memory or to
    `saved_screen[t]` of lib.c, and the kernel reaches that buffer
    identity-mapped.

### `FileSys.tla`

open, close, read and write (`syscall.c` 322-484), the directory and file drivers
and `read_data` (`filesystem.c`), and the fd-table set-up of execute and
tear-down of halt. Each element of `Procs` is one process.

- **State:** `files[p][fd]` is `pcb->files[fd]` (`ptrs` names the driver
  table, plus `inode` and `file_pos`). `dir_location` is the global of
  `filesystem.h`. `pc[p]` is `USER`, or `InDirRead(fd)` between dir_read's
  fetch and its `dir_location += 1`, or `InPlay(name)` inside play_music
  (Sound). `result` is the last call's outcome.
- **Open from the kernel:** `OpenCall` is open without the caller's
  pc, so that play_music (Sound) calls the same open. `write` is only its
  checks and dispatch: dir_write and file_write return -1, and the state of
  terminal_write and rtc_write is Echo's and Rtc's.
- **Data:** a byte is named by where it is stored, `<<block, offset>>`.
  `ReadData` follows read_data's split of a read into a partial first block,
  whole middle blocks and a last block (`CopyRest` is its loop, RECURSIVE).
  Each piece is one `memcpy` (`lib.c`), modelled by `BlockBytes`.
  `Contents(i)` is a separate reference definition of a file's bytes.
- **Interleaving:** system calls run with interrupts on, so the PIT can
  switch processes inside one. The only state two processes share is
  `dir_location`, so only dir_read is split in two steps.
- **Ghost:** each entry keeps `gpos`, the position a correct listing would
  be at; `DirReadsInOrder` compares it with what dir_read returned.
- **Names:** a name is a sequence of characters. `ReadDentryByName` is
  read_dentry_by_name with its `> 32` reject, `strncmp` over
  `strlen(fname)` bytes (`StrncmpZero`) and its length test. A dentry's
  32-byte `f_name` is NUL-padded. A 32-character name has no NUL, so
  `DentryStrlen` runs on into `f_type` as the C strlen does.
  `OpenFindsExactName` checks open's result against plain whole-name
  equality.
- **Bounds:** BLOCKSIZE 2 with files of 3 and 7 bytes and an empty one, so
  reads start and end inside blocks, cross one or two boundaries and cover a
  whole middle block. `file_pos` is scaled to 16 bits. Read sizes
  {-1, 1, 3, 5}. The names opened are every entry's name, a prefix and an
  extension of one, the 31- and 33-character neighbours of a 32-character
  entry, and the empty name. MAX_FD 4 gives two free fds, so a second open and a full
  table both happen. `OneListing` keeps one directory open system-wide in
  `fs_files`; `dir_shared` drops it, with two processes.

### `Sound.tla`

The Sound Blaster 16 driver (`sb16.c`) on top of FileSys: the play system
call with play_music, the interrupt handler `sb16_handler`, and `stop`,
which Ctrl-C calls (`keyboard.c` 195-199). `MC_Sound` composes it with the
file-system image of `MC_FileSys`; the `fs_files` run checks both.

- **State:** `is_playing`, `audio_file_inode`, `current_offset` (uint32)
  and `cur_block` are the globals of `sb16.c`. `dma_buffer` is `DMA_Buffer`,
  two blocks of `BLOCK_SIZE` bytes. `card` is the hardware: `card.blk` is
  the block the DMA address is at and `card.on` whether the DSP plays it.
  `irq` is a raised IRQ 5, `handler` the handler between its `sti` and its
  decision.
- **The card:** `CardDone` plays the block at the DMA address, moves the
  address to the other block and raises IRQ 5. The DMA runs in auto-init
  mode over the whole buffer; start_play makes the DSP play one block.
  Reset_DSP, Transfer_Sound_DMA and start_play are what they do to
  `card`: stopped, address back at block 1, one block started. The DSP
  command bytes, the DMA registers and the sample rate are port I/O and
  left out. Playback is modelled a block at a time.
- **Steps:** play_music is split after its RIFF test (`PlayLookup`,
  `PlayStart`), because Ctrl-C's stop can run in between: system calls
  run with interrupts on. `sb16_handler` is split at its `sti`
  (`SbHandlerRead`, `SbHandlerDecide`). `magic` is uninitialised stack
  past what read_data returns, so for a file shorter than 4 bytes that
  starts like RIFF the test goes either way (`RiffOutcomes`).
- **Auxiliary variables:** `played` is what the card has played since
  play_music started it, `sound_file` the inode it started.
  `SoundPlaysFileInOrder` says `played` is a prefix of the file.
  `played` stops growing once it is longer than every file (`PLAYED_CAP`).
  By then it is a prefix of no file. The cap keeps a card that never stops
  at finitely many states, so liveness can still be checked without a
  state constraint.
- **Fairness and liveness:** weak fairness on `CardDone`, `SbHandlerRead`
  and `SbHandlerDecide`. The card finishes a started block by itself, and
  a raised IRQ 5 is served once interrupts are on. The handler runs on
  after its `sti`. Play calls and Ctrl-C get no fairness. `PlaybackEnds`
  says that once the card plays, the card, IRQ 5 and the handler
  eventually fall quiet. For that, every read must move `current_offset`
  on, and 0-byte and short reads must end the refills.
- **The fd play takes:** `PlayStart` opens the file through `OpenCall` in
  the caller's table, and nothing closes that fd. With MAX_FD 4, the
  third play of a program without a halt finds no free fd. play_music
  ignores the failed open and plays anyway. This is listed as a hazard.
- **Bounds:** BLOCK_SIZE 2. The 7-byte file fills the buffer, takes one
  full refill with the block switch, and ends in a short block. The 3-byte
  file ends inside the buffer's second block.
- **Order of the checks:** `MC_SoundNext` lets the program make its
  file-system calls first. A program plays only from a table with no file
  of its own open. After the first play it only halts and plays again. The
  sound steps change no file-system state except play_music's open, and
  open, close, read and write change no sound state. So this leaves out
  only orders of independent steps, and it keeps the run under a minute
  instead of ten.
- **Races left out:** `StopRaces` is FALSE in `fs_files`, so Ctrl-C does
  not come while a play call, a raised IRQ 5 or the handler is under way.
  With it TRUE, TLC finds `SoundPlaysFileInOrder` violated in 8 steps.
  Ctrl-C arrives while IRQ 5 waits (IRQ 1 goes first), and stop resets the
  file to inode 0 and the offset to 0. The handler then reads inode 0 into
  block 1 and restarts the card, and the card plays block 2's stale bytes
  after stop. This is listed as a hazard.

### `Rtc.tla`

The virtual RTC of `rtc.c`. The chip interrupts at BASE_HZ; `rtc_handler`
counts per terminal and raises `itr_occur_table[t]` every `constant_arr[t]`
interrupts. `rtc_read` spins until the running terminal's flag is up.

- **Actions:** `RtcOpen`, `RtcWrite` (with `SetFreq`, the checks and the
  division of `rtc_set_freq`), `RtcRead`, `RtcReadWake` (the pass of the
  spin loop that sees the flag), `RtcHandler`, and `Schedule` (the PIT's
  round robin over three started terminals).
- **Hang:** `rtc_set_freq` runs with interrupts off. A value of 0 passes its
  checks and divides by zero, and the handler spins with interrupts off:
  `hung`. No run writes 0: one call shows it, and the hazard list says so.
- **Fairness:** weak fairness on the RTC interrupt and the PIT (both fire
  periodically whenever interrupts are on). Strong fairness, per terminal,
  on its reader's wake-up: the reader runs many passes of its loop in every
  quantum, so a flag that is up whenever its terminal is scheduled is seen.
- **Bounds:** BASE_HZ 4 (the code's 1024 scaled down). Rates written:
  {-2, 1, 2, 3, 4, 6, 8}, which are a negative, an odd, an even
  non-power, a power of two, and values above the base. At 4 the range
  and parity tests alone already refuse every non-power, so the halving
  loop of `rtc_set_freq` decides nothing there; `RatesArePowersOfTwo`
  therefore also evaluates the checks (`SetFreqAcceptsAt`) at the code's
  own literal 1024 (`CODE_HZ`) for every value from -2 to 1026, where 6,
  12 or 1000 pass the first test and only the loop refuses them. That part
  is a constant and TLC evaluates it once.

### `CommandParse.tla`

Step 1 of execute (`syscall.c` 131-166), the lookup, the `strncpy` of the
argument into the PCB (`syscall.c` 239) and getargs (`syscall.c` 500-521).

- **Operators:** `Parse` is the scan and copy loops. `ScanWhile` and
  `ScanUntil` are the `while` loops, written with RECURSIVE. `Parse` records
  whether a write went past `exe_name` or `args_buf`. `SaveArgument` is
  `strncpy` into the 100-byte `pcb->argument`, and `Getargs` is getargs.
- **Actions:** the shell's loop: `Execute` (parse, look up, start), any
  number of `GetargsCall(n)`, and `NextLine`.
- **Reference:** `SpecArgument` takes the argument text out of a line the
  way spec 4.2 and 4.4 describe it.
- **Bounds:** lines over {a, b, space} ending in NUL or newline, with 0 or 1
  leading spaces; names of 0, 1, 3, 31 and 32 characters (the 32-byte
  boundary of `exe_name`). The argument parts cover: none, one or two
  spaces before a word, two words, trailing spaces only, and the two
  longest that fit (99 characters). Programs are named by 3, 31 and 32
  characters. `overrun` records the writes past `exe_name` and `args_buf`
  that longer lines make; no run checks it, since one long line shows them.

### `LineInput.tla` and `TerminalInput.tla`

`LineInput` is the abstract line discipline. Spec 3 gives each terminal its
own saved keystroke buffer, so each terminal has its own line. Keys edit the
line of the terminal on screen. A line holds `CAP` characters. Keys past that
are counted in `lost`, and backspace takes them back first. Enter ends the
line (`ready`). A program of that terminal waiting in read (`reader`) then
gets the line, cut to its nbytes, and the line starts afresh.

`TerminalInput` is the code.

- **State:**
  - the live buffer `key_arr`, `key_arr_ptr` and `key_arr_overflow`
    (`lib.h` 73-76), and `enter_state`;
  - `current_terminal`, `running_terminal` and `terminal_running`;
  - the line part of `terminal_info[t]`;
  - `rd[t]`, where the top program of terminal t is in terminal_read;
  - `got`, the last result.
- **Operators:**
  - `KeyArrPush`, `KeyArrPop` and `KeyArrClear` are the functions of
    `lib.c`. The overflow count stays a uint8, and popped characters stay in
    the array behind the pointer.
  - `StrNCpy` is `strncpy`: it stops at a NUL, pads with NULs and leaves the
    last cell alone.
- **Actions:**
  - `KeyboardHandler` is one keyboard interrupt with interrupts off:
    `InputHandler` (a typed key, or Alt+Fn as `SwitchToTerminal`, with its
    `SaveTerminalInfo` and `RestoreTerminalInfo`), `EnterKey` and
    `Backspace`.
  - `Schedule` is pit_handler's round robin.
  - `ReadCall` is the program entering terminal_read. Its four steps after
    that are `ReadWait` (the spin), `ReadClearEnter`, `ReadCopy` and
    `ReadFlush`.
- **Data:** characters are ASCII codes. The key typed while terminal t is on
  screen is `KeyOf(t)` ('a' + t), so a read shows whose input it returned.
- **Refinement:** `LI == INSTANCE LineInput WITH ...` maps the state onto the
  abstract one:
  - a terminal's line is the live buffer when it is on screen, else its saved
    copy;
  - it is ready when `enter_state` is set and it is on screen, or while its
    reader is about to copy;
  - once the copy is taken the line is empty.

  `LineInputSpec == LI!Spec` is checked as a PROPERTY.
- **Environment:** `KeysWhilePending` decides whether keys (Alt+Fn included)
  may come while a line ended with Enter waits to be read. In the passing run
  they may not: the user waits for the program to take the line.
- **Fairness:** weak fairness on `Schedule`, because the PIT keeps ticking.
  Strong fairness on each reader's steps, because a reader that gets the CPU
  spins for a whole time slice, far longer than one pass of its loop. So a
  step that is enabled each time its terminal is scheduled is taken.

### `Echo.tla`

The cursor side of the terminal: `putc` and `putc_terminal` (`lib.c`
198-281), the newline handlers with their scroll (288-371),
`backspace_handler` (380-398), `set_cursor_position`, Ctrl-L
(`keyboard.c` 185-193), `terminal_write` (`terminal.c` 64-91), the return
of `terminal_read` (its `printf` of the tid line and `key_arr_clear`), and
the cursor part of `save_terminal_info` / `restore_terminal_info`.

- **State:** `screen_x`, `screen_y`, `row_stack` and `column_stack` of the
  terminal on screen; `terminal_info` with the same four fields (as
  `uint8_t`, as in `types.h`) and the key counts of the others;
  `key_arr_ptr` and `key_arr_overflow` (only the counts: the characters
  are TerminalInput's business); `enter_state`; `current_terminal`; and
  `prog[t]`, the shell of terminal t: not started, running, or waiting in
  terminal_read.
- **Operators:** a cursor is a record `[x, y, rs]`. `Putc` and
  `PutcTerminal` are one character of `putc` and `putc_terminal`;
  `PutcAll` and `PutcTerminalAll` fold them over a string with
  `FoldLeft`. C's truncating `/` and `%` are `CDiv` and `CMod`.
- **Actions:** `TypeKey`, `EnterKey`, `Backspace`, `CtrlL`,
  `SwitchToTerminal(id)`, `SwitchNoFreePid(id)` (switch_to_terminal's
  early return when get_pid finds every pid taken, `terminal.c` 182-185:
  the message, which ends in a new prompt, is printed on the screen and
  `column_stack` is left alone; with no process table here, any Alt+Fn to
  an unstarted terminal may take it); per terminal `TerminalWrite(t, s)`,
  `Prompt(t)` (the shell writes its prompt and calls read) and
  `ReadReturn(t)`. Each kernel path runs with interrupts off or is taken
  as one step.
- **Environment:** with `KeysAnyTime` FALSE, every key (Ctrl-L and Alt+Fn
  included) comes only while the program on screen waits in terminal_read
  with no line pending. Programs write output that ends in a newline.
- **Bounds:** a 4 x 3 screen, a 2-character prompt, 3 buffered keys and 1
  overflowed: a typed line wraps a row, and lines scroll. The longest line
  (4 cells past a 2-column prompt) stays below `(NUM_ROWS - 1) *
  NUM_COLS`, as 382 stays below 23 x 80 in the code, so the cap on
  `row_stack` never helps.

## Runs

| Run | Expect | Bounds | What it shows |
|---|---|---|---|
| `kernel_fg` | pass | MAX_TASK=2, no races | The table agrees with the stacks, and the running process is the top of the running terminal. A user program runs in its own page and on its own kernel stack. Every stacked process returns to the one below it. A started terminal never loses its shell. No wild access. User mode reaches neither the kernel page nor another program's page, and the vidmap page lands on the right screen buffer. Under a fair PIT every started terminal runs again and again. |
| `kernel_preempt` | pass | MAX_TASK=3, MAX_NEST 2; ticks in the windows of an Alt+Fn that starts a terminal, and a second such Alt+Fn inside its launch window; no Ctrl-C or handlers | The table and the stacks agree until the first wild access, including the path where a shell launch finds no free pid. |
| `race_relaunch` | violation | BackgroundCalls, SwitchBeforeKill | The last process of a terminal that is not on screen halts: a background program, or a shell killed by Ctrl-C after Alt+Fn. halt relaunches the shell on the terminal on screen, and the CPU runs a process that is not on top of its terminal. |
| `race_preempt` | violation | PreemptWindows, no Ctrl-C | One tick inside switch_to_terminal's `sti` window. The scheduler later runs pid 0 for the empty terminal (`process_terminal[t][-1]`), and its halt wraps `process_terminal_cnt`. |
| `rtc_pass` | pass | BASE_HZ 4, rates without 0 | rtc_set_freq accepts exactly the powers of two up to the base rate, every virtual rate is one of them, and a reader waiting in rtc_read is always woken by its own terminal's tick. |
| `fs_files` (`MC_Sound`) | pass | one process, MAX_FD 4, one listing, BLOCK_SIZE 2, no Ctrl-C inside a play or the handler | Successive reads return exactly the file's bytes across block boundaries, and the position never passes the end. dir_read lists the entries in order, then the end, then starts again, also after a halt inside dir_read. open finds exactly the entry of the name given, at the 32-character edge too. Then play: after Ctrl-C while a block plays, at a file's end inside the buffer or in a short block, and on a second play after stop, the card has played the file's bytes from its start, in order, with none skipped, repeated or stale. Every playback ends: the card and IRQ 5 fall quiet (`PlaybackEnds`, under weak fairness of the card and the handler). |
| `dir_shared` | violation | two processes, MAX_FD 3 | A second process's dir_open resets the shared `dir_location`, so the first repeats an entry. |
| `parse_pass` | pass | lines whose argument fits | getargs returns exactly the argument text after the first word and its spaces, cut to n. |
| `terminal_pass` | pass | KEY_ARR_SIZE 3, MAX_OVF 1, nbytes 1 and 3, Alt+F1/F2, no keys while a line waits | The code implements `LineInput`, and a reader waiting with its ended line on screen always returns. |
| `terminal_switch` | violation | keys and Alt+Fn at any time | After Enter on terminal 0 and Alt+F2, terminal 1's new shell passes the spin on terminal 0's `enter_state`. After Alt+F1 it copies terminal 0's line. |
| `echo_pass` | pass | 4 x 3 screen, prompt 2, KEY_ARR_SIZE 4, MAX_OVF 1, Alt+F1/F2, every key only at a waiting prompt, output ending in a newline | For every waiting terminal, on screen or saved, the cursor is at (`column_stack`, `row_stack` = 0) or past it by at most as many cells as the key buffer counts (`BackspaceErasesOnlyTyped`): backspace erases only typed keys across wraps, scrolls, Ctrl-L, background writes, Alt+Fn and the no-free-pid message. The cursor can be fewer cells past than the buffer counts: Ctrl-L and the no-free-pid message keep typed keys that are no longer shown. printf, itoa and strrev print the tid line and every integer tried as the place-value reference does. |
| `echo_backspace` | violation | keys at any time | Ctrl-L (or the prompt) sets `column_stack` to 2; Enter puts the cursor at column 0 of the next row; Backspace, before the line is read, then moves `screen_x` to -1 and pops the newline. |

Every property of a passing run has a mutant in PROJECT.json: a plausible
bug in the definition it is about, which TLC shows the property catches.

**Why the bounds are enough**

- **Two pids** are enough for every stack/terminal mismatch the Kernel
  properties talk about: a shell on terminal 0 with one child, or shells on
  two terminals.
- **Three pids** are needed for one case: a switch whose shell launch finds
  its pid taken. That case needs shells on two terminals and a third pid.
  The kernel_preempt run covers it.
- **Three terminals are fixed** by the code (`pit_handler` and
  `rtc_handler` hard-code 3).
- **One shared variable.** In FileSys a second process matters only through
  `dir_location`, and `dir_shared` has two.
- **Two DMA blocks of 2 bytes** and files of 3 and 7 bytes reach every branch
  of sb16_handler: a full block with the block switch, a short block, and 0
  bytes. They also reach both ends of play_music's RIFF test.
- **The line buffer** holds two keys with `KEY_ARR_SIZE` 3. Typing, Enter on
  a full line and an overflowed key taken back by backspace all occur. nbytes
  1 cuts a line and 3 takes it whole. Two terminals reached by Alt+F1/F2 are
  enough for a line to be saved, restored and read on a terminal that is not
  the first. The properties quantify over those terminals (`Screens`).
- **The parser's boundaries** are at 32 and 100 characters, and the lines
  sit on both sides of each.

## Not modelled

- **Left out: the loader.** execute's copy of the program image and its
  magic-number check read the file system but change no state the
  properties talk about.
- **Left out: the screen contents.** Echo keeps the cursor and the stacks,
  not the characters in video memory or the saved screen buffers
  (`clear`, `copy_from_screen_buffer`, `copy_to_screen_buffer`): no
  property reads them. TerminalInput takes backspace's cursor test as "the
  echoed line is not empty"; Echo checks that this is what the test does.
- **Left out: output without a final newline, and keys while a program
  runs.** A prompt that wraps after such output leaves `row_stack` above 0
  at the mark, and a no-free-pid message printed while a program runs
  leaves the mark to the right of the prompt that follows; either way
  backspace erases the prompt or walks off the row (listed as hazards;
  echo_backspace shows the same unpaired mark through Enter). echo_pass
  leaves them out so that its property checks the rest.
- **Left out: the F1 NUL key and type-ahead.** F1 without Alt pushes a NUL.
  Keys typed while a line waits join that line or are lost. Both are listed
  as hazards. The passing terminal run types neither.
- **Left out: the count of signal deliveries.** The multi-terminal branch
  of pit_handler never clears `pending_signal`, so a user handler runs on
  every tick. This is listed as a hazard.
- **Left out: properties on state that is kept but not checked.** Kernel
  keeps `last_return` (execute's return value). The exception spin (`act = SPIN`) and the
  last-inode check of read_data are modelled but not checked. Each is
  listed as a hazard with the reason.
- **Left out: no shared state.** The PIC/IDT setup and tests.c share no
  state with processes. The gate types idt.c chooses are the reason the
  models make interrupt handlers atomic up to their `sti` and let system
  calls be interrupted.
- **Left out: the end of a sound file.** sb16_handler stops on a read of
  0 bytes, and the other block's last data is never played. A short last
  block leaves `is_playing` at 1. Sound reaches both cases, but nothing in
  the repository says what should happen at the end of a file, so no
  property asks. Both are listed as a hazard.
- **Left out: library code no kernel path calls.** `memset`,
  `memset_word`, `memset_dword`, `memmove` and `strcpy` in `lib.c` have no
  caller, and `print_width` is called only by `tests.c`. `memcpy` is
  modelled by what it leaves in the buffer: FileSys's `BlockBytes` is one
  copy of a data block's bytes. Its byte-by-byte head, `rep movsl` body and
  byte tail copy every byte once in order. Source and destination never
  overlap in read_data.
