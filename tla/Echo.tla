-------------------------------- MODULE Echo --------------------------------
(***************************************************************************)
(* The echo of typed keys on the screen and how backspace finds the start *)
(* of the line.  putc moves the cursor (screen_x, screen_y), counts in     *)
(* row_stack the rows a line has wrapped, and scrolls at the bottom row   *)
(* (lib.c 198-235).  terminal_write leaves column_stack at the cursor     *)
(* after every character (terminal.c 73-77), so after a prompt it marks   *)
(* where typing starts; backspace_handler erases only while the cursor is *)
(* past (column_stack, row_stack = 0) (lib.c 380-398).  Each terminal     *)
(* keeps these in terminal_info while it is not on screen; a program of   *)
(* an off-screen terminal writes through putc_terminal (lib.c 243-281).   *)
(*                                                                         *)
(* The key buffer is kept only as its counts key_arr_ptr and              *)
(* key_arr_overflow: TerminalInput has the characters.  Screen contents   *)
(* are left out; NUM_COLS and NUM_ROWS are constants so that lines wrap   *)
(* and the screen scrolls within a few characters.                        *)
(***************************************************************************)
EXTENDS Integers, Sequences, SequencesExt, Printf

CONSTANTS
  NUM_COLS, NUM_ROWS,  \* lib.c: 80 and 24
  KEY_ARR_SIZE,        \* lib.h: 128
  MAX_OVF,             \* bound on key_arr_overflow
  PROMPT,              \* the shell's prompt "391OS> " as a sequence of characters
  TID_FMT,             \* terminal_read's format "current tid: %d\n"
  Outputs,             \* what programs write with terminal_write
  Screens,             \* the terminals Alt+Fn is pressed for
  CH,                  \* a printable character
  NO_PID_MSG,          \* "process number reaches maximum! ...\n391OS> "
  KeysAnyTime          \* keys may come while no read waits for them

NL == "\n"
MAX_TERMINAL_NUM == 3
Terms == 0..MAX_TERMINAL_NUM - 1

ASSUME /\ Screens \subseteq Terms /\ 0 \in Screens
       /\ KEY_ARR_SIZE \in Nat \ {0} /\ MAX_OVF \in 0..255

(* C's / and % truncate toward zero.                                       *)
CDiv(a, b) == IF a >= 0 THEN a \div b ELSE -((-a) \div b)
CMod(a, b) == a - b * CDiv(a, b)

VARIABLES
  screen_x, screen_y, row_stack, column_stack,  \* lib.c 28-31, the terminal on screen
  key_arr_ptr, key_arr_overflow,                 \* lib.h 75-76
  enter_state,                                   \* keyboard.h 53
  current_terminal,
  terminal_info,  \* [screen_pos_x, screen_pos_y, row_stack_old, column_stack_old,
                  \*  key_arr_ptr_old, key_arr_overflow_old]
  prog,           \* prog[t]: "none" (terminal_running[t] = 0), "run",
                  \* or "wait" in terminal_read
  tid_line        \* the last line terminal_read's printf put out (text) and
                  \* the terminal it read for (reader)

vars == <<screen_x, screen_y, row_stack, column_stack, key_arr_ptr,
          key_arr_overflow, enter_state, current_terminal,
          terminal_info, prog, tid_line>>

(* A cursor is a record [x, y, rs]: column, row and row_stack.             *)
Live == [x |-> screen_x, y |-> screen_y, rs |-> row_stack]
Saved(t) == [x |-> terminal_info[t].screen_pos_x, y |-> terminal_info[t].screen_pos_y,
             rs |-> terminal_info[t].row_stack_old]

-----------------------------------------------------------------------------
(* enter_handler, lib.c 288-303, with enter_and_scroll (312-329) and       *)
(* set_cursor_position (407-417): next row, or scroll at the bottom row;  *)
(* a line that ended exactly at a row's end has already wrapped, so the   *)
(* cursor goes back up one row.                                           *)
EnterHandler(p) ==
  LET adjust == p.x = 0 /\ p.rs # 0
      q == IF p.y >= NUM_ROWS - 1 THEN [x |-> 0, y |-> NUM_ROWS - 1]
           ELSE [x |-> 0, y |-> IF p.y + 1 >= NUM_ROWS THEN NUM_ROWS ELSE p.y + 1]
  IN  [x |-> q.x, y |-> IF adjust THEN q.y - 1 ELSE q.y, rs |-> 0]

(* enter_handler_terminal, lib.c 349-371, on a saved cursor.               *)
EnterHandlerTerminal(p) ==
  LET adjust == p.x = 0 /\ p.rs # 0
      q == IF p.y >= NUM_ROWS - 1 THEN [x |-> 0, y |-> NUM_ROWS - 1]
           ELSE [x |-> 0, y |-> IF p.y >= NUM_ROWS THEN NUM_ROWS ELSE p.y + 1]
  IN  [x |-> q.x, y |-> IF adjust THEN q.y - 1 ELSE q.y, rs |-> 0]

(* The cursor part of putc (lib.c 203-234) and putc_terminal (247-279)   *)
(* for a printable character: advance, wrap into the next row (or scroll  *)
(* at the bottom) counting the row in row_stack, capped at NUM_ROWS - 1.  *)
PutChar(p) ==
  LET x1 == p.x + 1 IN
  IF x1 >= NUM_COLS
  THEN LET rs1 == IF p.rs + 1 > NUM_ROWS - 1 THEN NUM_ROWS - 1 ELSE p.rs + 1 IN
       IF p.y < NUM_ROWS - 1
       THEN [x |-> CMod(x1, NUM_COLS), y |-> p.y + 1, rs |-> rs1]
       ELSE [x |-> 0, y |-> NUM_ROWS - 1, rs |-> rs1]
  ELSE [x |-> x1, y |-> CMod(p.y + CDiv(x1, NUM_COLS), NUM_ROWS), rs |-> p.rs]

(* putc and putc_terminal: a newline goes to the newline handler.         *)
Putc(p, c) == IF c = NL THEN EnterHandler(p) ELSE PutChar(p)
PutcTerminal(p, c) == IF c = NL THEN EnterHandlerTerminal(p) ELSE PutChar(p)

(* The loops of printf and terminal_write: putc each character in turn. *)
PutcAll(p, s) == FoldLeft(Putc, p, s)
PutcTerminalAll(p, s) == FoldLeft(PutcTerminal, p, s)

SetLive(p) == screen_x' = p.x /\ screen_y' = p.y /\ row_stack' = p.rs
U8(v) == v % 256   \* the uint8_t fields of terminal_info (types.h 67-72)

Count == key_arr_ptr + key_arr_overflow

(* key_arr_push, lib.c 801-808, and key_arr_pop, lib.c 817-829, on the     *)
(* counts; overflow is a uint8_t.                                          *)
KeyArrPush ==
  IF key_arr_ptr < KEY_ARR_SIZE - 1
  THEN key_arr_ptr' = key_arr_ptr + 1 /\ UNCHANGED key_arr_overflow
  ELSE key_arr_overflow' = (key_arr_overflow + 1) % 256 /\ UNCHANGED key_arr_ptr

KeyArrPop ==
  IF key_arr_overflow > 0
  THEN key_arr_overflow' = key_arr_overflow - 1 /\ UNCHANGED key_arr_ptr
  ELSE /\ key_arr_ptr' = IF key_arr_ptr > 0 THEN key_arr_ptr - 1 ELSE 0
       /\ UNCHANGED key_arr_overflow

(* A key is pressed.  With KeysAnyTime FALSE keys come only while the     *)
(* program on screen waits in terminal_read and no line is pending: the  *)
(* user types at a prompt.                                                *)
KeyOK == KeysAnyTime \/ (prog[current_terminal] = "wait" /\ enter_state = 0)

(* input_handler's last lines, keyboard.c 249-250: echo, then buffer.     *)
TypeKey ==
  /\ KeyOK
  /\ key_arr_ptr < KEY_ARR_SIZE - 1 \/ key_arr_overflow < MAX_OVF
  /\ SetLive(Putc(Live, CH))
  /\ KeyArrPush
  /\ UNCHANGED <<column_stack, enter_state, current_terminal, terminal_info, prog>>

(* The Enter case, keyboard.c 137-142.                                    *)
EnterKey ==
  /\ KeyOK
  /\ key_arr_ptr < KEY_ARR_SIZE - 1 \/ key_arr_overflow < MAX_OVF
  /\ KeyArrPush
  /\ enter_state' = 1
  /\ SetLive(EnterHandler(Live))
  /\ UNCHANGED <<column_stack, current_terminal, terminal_info, prog>>

(* Mutation: the test against column_stack is left out.                  *)
BackspaceNoStop ==
  /\ KeyOK
  /\ IF screen_x = 0 /\ row_stack # 0
     THEN SetLive([x |-> NUM_COLS - 1, y |-> screen_y - 1, rs |-> row_stack - 1])
     ELSE SetLive([x |-> screen_x - 1, y |-> screen_y, rs |-> row_stack])
  /\ KeyArrPop
  /\ UNCHANGED <<column_stack, enter_state, current_terminal, terminal_info, prog>>

(* backspace_handler, lib.c 380-398: nothing at (column_stack, row 0 of   *)
(* the line); back over a wrap into the row above; else one column left. *)
Backspace ==
  /\ KeyOK
  /\ ~(screen_x = column_stack /\ row_stack = 0)
  /\ IF screen_x = 0 /\ row_stack # 0
     THEN SetLive([x |-> NUM_COLS - 1, y |-> screen_y - 1, rs |-> row_stack - 1])
     ELSE SetLive([x |-> screen_x - 1, y |-> screen_y, rs |-> row_stack])
  /\ KeyArrPop
  /\ UNCHANGED <<column_stack, enter_state, current_terminal, terminal_info, prog>>

(* Ctrl-L, keyboard.c 185-193: clear, home the cursor (set_cursor_position *)
(* clears row_stack), print the prompt and mark its end.  key_arr_clear   *)
(* is commented out there, so typed keys stay in the buffer.              *)
CtrlL ==
  LET p == PutcAll([x |-> 0, y |-> 0, rs |-> 0], Printf(PROMPT, <<>>)) IN
  /\ KeyOK
  /\ SetLive(p)
  /\ column_stack' = p.x
  /\ UNCHANGED <<key_arr_ptr, key_arr_overflow, enter_state, current_terminal,
                 terminal_info, prog>>

(* save_terminal_info, terminal.c 232-249, into uint8_t fields.           *)
SaveTerminalInfo(t) ==
  [terminal_info EXCEPT ![t] =
     [screen_pos_x |-> U8(screen_x), screen_pos_y |-> U8(screen_y),
      key_arr_ptr_old |-> key_arr_ptr, key_arr_overflow_old |-> key_arr_overflow,
      row_stack_old |-> U8(row_stack), column_stack_old |-> U8(column_stack)]]

(* Mutation: set_row_stack_in before set_cursor_position, which clears it. *)
RestoreTerminalInfoSwapped(info, t) ==
  /\ screen_x' = info[t].screen_pos_x
  /\ screen_y' = IF info[t].screen_pos_y >= NUM_ROWS THEN NUM_ROWS ELSE info[t].screen_pos_y
  /\ key_arr_ptr' = info[t].key_arr_ptr_old
  /\ key_arr_overflow' = info[t].key_arr_overflow_old
  /\ row_stack' = 0
  /\ column_stack' = info[t].column_stack_old

(* restore_terminal_info, terminal.c 260-277: set_cursor_position (which  *)
(* clears row_stack and caps the row at NUM_ROWS), then row_stack and     *)
(* column_stack from the saved fields.                                    *)
RestoreTerminalInfo(info, t) ==
  /\ screen_x' = info[t].screen_pos_x
  /\ screen_y' = IF info[t].screen_pos_y >= NUM_ROWS THEN NUM_ROWS ELSE info[t].screen_pos_y
  /\ key_arr_ptr' = info[t].key_arr_ptr_old
  /\ key_arr_overflow' = info[t].key_arr_overflow_old
  /\ row_stack' = info[t].row_stack_old
  /\ column_stack' = info[t].column_stack_old

(* Alt+Fn, keyboard.c 209-226, runs switch_to_terminal, terminal.c        *)
(* 165-221: save the screen's terminal, restore the new one's, and start  *)
(* its shell if it has none.  Like every key, with KeysAnyTime FALSE it  *)
(* comes while the program on screen waits at its prompt.                *)
SwitchToTerminal(id) ==
  LET info == SaveTerminalInfo(current_terminal) IN
  /\ KeyOK
  /\ id # current_terminal
  /\ terminal_info' = info
  /\ current_terminal' = id
  /\ RestoreTerminalInfo(info, id)
  /\ prog' = IF prog[id] = "none" THEN [prog EXCEPT ![id] = "run"] ELSE prog
  /\ UNCHANGED enter_state

(* switch_to_terminal's early return, terminal.c 182-185: Alt+Fn for a  *)
(* terminal not yet started while get_pid finds all six pids taken (the *)
(* model keeps no process table, so any such Alt+Fn may find them so).  *)
(* printf puts the message, which ends in a new prompt, on the screen;  *)
(* column_stack, the key buffer and the terminal stay as they were.      *)
SwitchNoFreePid(id) ==
  /\ KeyOK
  /\ id # current_terminal
  /\ prog[id] = "none"
  /\ SetLive(PutcAll(Live, Printf(NO_PID_MSG, <<>>)))
  /\ UNCHANGED <<column_stack, key_arr_ptr, key_arr_overflow, enter_state,
                 current_terminal, terminal_info, prog>>

KeyboardHandler ==
  \/ TypeKey \/ EnterKey \/ Backspace \/ CtrlL
  \/ \E id \in Screens : SwitchToTerminal(id) \/ SwitchNoFreePid(id)

-----------------------------------------------------------------------------
(* terminal_write(t's program, s), terminal.c 64-91: on screen, putc each *)
(* character and leave column_stack at the cursor; off screen,            *)
(* putc_terminal into t's saved cursor and set column_stack_old to it.    *)
(* The cli around it makes it one step.                                   *)
WriteOut(t, s) ==
  IF t = current_terminal
  THEN LET p == PutcAll(Live, s) IN
       /\ SetLive(p)
       /\ column_stack' = IF s = <<>> THEN column_stack ELSE p.x
       /\ UNCHANGED terminal_info
  ELSE LET p == PutcTerminalAll(Saved(t), s) IN
       /\ terminal_info' = [terminal_info EXCEPT ![t].screen_pos_x = U8(p.x),
                              ![t].screen_pos_y = U8(p.y), ![t].row_stack_old = U8(p.rs),
                              ![t].column_stack_old = U8(p.x)]
       /\ UNCHANGED <<screen_x, screen_y, row_stack, column_stack>>

TerminalWrite(t, s) ==
  /\ prog[t] = "run"
  /\ WriteOut(t, s)
  /\ UNCHANGED <<key_arr_ptr, key_arr_overflow, enter_state, current_terminal, prog>>

(* The shell's loop: write the prompt, then read(0, buf, n).              *)
Prompt(t) ==
  /\ prog[t] = "run"
  /\ WriteOut(t, PROMPT)
  /\ prog' = [prog EXCEPT ![t] = "wait"]
  /\ UNCHANGED <<key_arr_ptr, key_arr_overflow, enter_state, current_terminal>>

(* terminal_read, terminal.c 35-54, once its loop sees a line on its own  *)
(* screen: printf the tid line, clear enter_state, copy and key_arr_clear *)
(* (lib.c 838-846).                                                        *)
ReadReturn(t) ==
  /\ prog[t] = "wait"
  /\ enter_state # 0 /\ current_terminal = t
  /\ SetLive(PutcAll(Live, Printf(TID_FMT, <<t>>)))
  /\ tid_line' = [reader |-> t, text |-> Printf(TID_FMT, <<t>>)]
  /\ enter_state' = 0
  /\ key_arr_ptr' = 0 /\ key_arr_overflow' = 0
  /\ prog' = [prog EXCEPT ![t] = "run"]
  /\ UNCHANGED <<column_stack, current_terminal, terminal_info>>

(* init_terminal, terminal.c 106-148: everything zero, terminal 0's shell *)
(* started.                                                                *)
Init ==
  /\ screen_x = 0 /\ screen_y = 0 /\ row_stack = 0 /\ column_stack = 0
  /\ key_arr_ptr = 0 /\ key_arr_overflow = 0
  /\ enter_state = 0
  /\ current_terminal = 0
  /\ terminal_info = [t \in Terms |->
        [screen_pos_x |-> 0, screen_pos_y |-> 0, key_arr_ptr_old |-> 0,
         key_arr_overflow_old |-> 0, row_stack_old |-> 0, column_stack_old |-> 0]]
  /\ prog = [t \in Terms |-> IF t = 0 THEN "run" ELSE "none"]
  /\ tid_line = [reader |-> 0, text |-> <<>>]

Next ==
  \/ KeyboardHandler /\ UNCHANGED tid_line
  \/ \E t \in Screens :
       \/ (Prompt(t) \/ \E s \in Outputs : TerminalWrite(t, s)) /\ UNCHANGED tid_line
       \/ ReadReturn(t)

Spec == Init /\ [][Next]_vars

-----------------------------------------------------------------------------
EchoTypeOK ==
  /\ screen_x \in 0..NUM_COLS - 1 /\ screen_y \in 0..NUM_ROWS - 1
  /\ row_stack \in 0..NUM_ROWS - 1 /\ column_stack \in 0..NUM_COLS - 1
  /\ key_arr_ptr \in 0..KEY_ARR_SIZE - 1 /\ key_arr_overflow \in 0..255
  /\ enter_state \in {0, 1}
  /\ current_terminal \in Screens
  /\ \A t \in Terms : terminal_info[t].screen_pos_x \in 0..NUM_COLS - 1
                      /\ terminal_info[t].screen_pos_y \in 0..NUM_ROWS - 1
  /\ prog \in [Terms -> {"none", "run", "wait"}]

(* The place typing started, in the terms backspace_handler uses: row     *)
(* row_stack rows up and column column_stack.  For a terminal waiting at *)
(* its prompt with its line not yet ended, the cursor is never before    *)
(* that place, and at most as many cells past it as the key buffer       *)
(* counts characters, on screen and in the saved state alike: through    *)
(* keys, wraps, scrolls, backspaces, Ctrl-L, program writes, Alt+Fn and  *)
(* the no-free-pid message, backspace erases only cells that a buffered  *)
(* key put there, never the prompt or a program's output.  (Ctrl-L and   *)
(* the no-free-pid message leave typed keys in the buffer that are no    *)
(* longer shown, so the cursor can be fewer cells past the place.)       *)
BackspaceErasesOnlyTyped ==
  LET Within(rs, x, mark, count) == rs * NUM_COLS + x - mark \in 0..count IN
  \A t \in Screens :
    prog[t] = "wait" /\ ~(enter_state = 1 /\ current_terminal = t) =>
      IF t = current_terminal
      THEN Within(row_stack, screen_x, column_stack, Count)
      ELSE LET i == terminal_info[t] IN
           Within(i.row_stack_old, i.screen_pos_x, i.column_stack_old,
                  i.key_arr_ptr_old + i.key_arr_overflow_old)

(* set_column_stack marks "the most left character that backspace can     *)
(* delete" (lib.c 848-858): putc and backspace keep the cursor on the     *)
(* NUM_COLS x NUM_ROWS text screen.                                        *)
CursorOnScreen == screen_x \in 0..NUM_COLS - 1 /\ screen_y \in 0..NUM_ROWS - 1

(* The tid line terminal_read prints after a line is read ends in the     *)
(* number of the terminal that read it, in decimal, and a newline; and    *)
(* printf, itoa and strrev print every integer the kernel formats, from 0 *)
(* to the extremes of int32, as the place-value reference does.           *)
PrintfMatchesReference ==
  /\ tid_line.text # <<>> =>
       IsSuffix(RefDigits(tid_line.reader, 10) \o <<NL>>, tid_line.text)
  /\ PrintfAgreesWithPlaceValues
====
