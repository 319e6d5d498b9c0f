---------------------------- MODULE TerminalInput ----------------------------
(***************************************************************************)
(* The keyboard line buffer and terminal_read across the three terminals. *)
(* There is one live buffer, key_arr with key_arr_ptr and                 *)
(* key_arr_overflow (lib.h 73-76), which always holds the line of the     *)
(* terminal on screen; switch_to_terminal copies it into terminal_info of *)
(* the old terminal and copies the new terminal's saved line back         *)
(* (terminal.c 213-218, 232-277).  keyboard_handler runs with interrupts  *)
(* off and pushes, pops or ends the line; enter_state is one global flag  *)
(* (keyboard.h 53).  terminal_read spins until enter_state is set and its *)
(* terminal is on screen, then clears the flag, copies key_arr and clears *)
(* it, with interrupts on between these steps (terminal.c 29-55).         *)
(*                                                                         *)
(* Data: characters are their ASCII codes; the key typed while terminal t *)
(* is on screen is KeyOf(t), so that a read can tell whose input it       *)
(* returned.  KEY_ARR_SIZE is a constant so that the buffer fills up    *)
(* within a few keys.                                                      *)
(***************************************************************************)
EXTENDS Integers, Sequences

CONSTANTS
  KEY_ARR_SIZE,      \* lib.h: 128; the buffer holds KEY_ARR_SIZE - 1 keys
  MAX_OVF,           \* bound on key_arr_overflow (a uint8 in the code)
  Sizes,             \* nbytes values passed to terminal_read
  Screens,           \* the terminals Alt+Fn is pressed for
  KeysWhilePending   \* keys, Alt+Fn included, may come while a line waits

ASSUME KEY_ARR_SIZE \in Nat \ {0} /\ MAX_OVF \in 0..255 /\ Sizes \subseteq Nat

MAX_TERMINAL_NUM == 3
Terms == 0..MAX_TERMINAL_NUM - 1
ASSUME 0 \in Screens /\ Screens \subseteq Terms

NUL == 0                          \* '\0'
NL  == 10                         \* '\n'
KeyOf(t) == 97 + t                \* the key typed on terminal t: 'a', 'b', 'c'
KeyChars == {KeyOf(t) : t \in Terms}
Cells == 0..KEY_ARR_SIZE          \* key_arr[KEY_ARR_SIZE + 1]
Empty == [k \in Cells |-> NUL]

VARIABLES
  key_arr, key_arr_ptr, key_arr_overflow,
  enter_state,
  current_terminal,   \* the terminal on screen
  running_terminal,   \* the terminal whose process the CPU runs
  terminal_running,   \* terminal_running[t]: t's shell was started
  terminal_info,      \* terminal_info[t]: [key_arr_old, key_arr_ptr_old, key_arr_overflow_old]
  rd,                 \* rd[t]: where t's top program is in terminal_read, and its nbytes
  got                 \* what the last terminal_read returned: [term, data]

vars == <<key_arr, key_arr_ptr, key_arr_overflow, enter_state, current_terminal,
          running_terminal, terminal_running, terminal_info, rd, got>>

-----------------------------------------------------------------------------
(* Mutation of key_arr_push: the bound leaves no room for the terminator. *)
KeyArrPushNoRoom(c) ==
  IF key_arr_ptr < KEY_ARR_SIZE
  THEN /\ key_arr' = [key_arr EXCEPT ![key_arr_ptr] = c]
       /\ key_arr_ptr' = key_arr_ptr + 1
       /\ UNCHANGED key_arr_overflow
  ELSE /\ key_arr_overflow' = (key_arr_overflow + 1) % 256
       /\ UNCHANGED <<key_arr, key_arr_ptr>>

(* key_arr_push, lib.c 801-808: store while there is room for one more    *)
(* key and the terminator, else count the key as overflow (uint8).        *)
KeyArrPush(c) ==
  IF key_arr_ptr < KEY_ARR_SIZE - 1
  THEN /\ key_arr' = [key_arr EXCEPT ![key_arr_ptr] = c]
       /\ key_arr_ptr' = key_arr_ptr + 1
       /\ UNCHANGED key_arr_overflow
  ELSE /\ key_arr_overflow' = (key_arr_overflow + 1) % 256
       /\ UNCHANGED <<key_arr, key_arr_ptr>>

(* Mutation of key_arr_pop: kept keys are popped before overflowed ones.  *)
KeyArrPopKeptFirst ==
  /\ IF key_arr_ptr > 0
     THEN key_arr_ptr' = key_arr_ptr - 1 /\ UNCHANGED key_arr_overflow
     ELSE /\ key_arr_overflow' = IF key_arr_overflow > 0 THEN key_arr_overflow - 1 ELSE 0
          /\ UNCHANGED key_arr_ptr
  /\ UNCHANGED key_arr

(* key_arr_pop, lib.c 818-829: take back an overflowed key first; the     *)
(* popped character stays in key_arr behind key_arr_ptr.                  *)
KeyArrPop ==
  /\ IF key_arr_overflow > 0
     THEN key_arr_overflow' = key_arr_overflow - 1 /\ UNCHANGED key_arr_ptr
     ELSE /\ key_arr_ptr' = IF key_arr_ptr > 0 THEN key_arr_ptr - 1 ELSE 0
          /\ UNCHANGED key_arr_overflow
  /\ UNCHANGED key_arr

(* key_arr_clear, lib.c 838-846.                                          *)
KeyArrClear ==
  /\ key_arr' = Empty
  /\ key_arr_ptr' = 0
  /\ key_arr_overflow' = 0

(* strncpy(dst, src, KEY_ARR_SIZE_OLD) of lib.c: copy up to the first NUL *)
(* of src, pad the rest of the first KEY_ARR_SIZE cells with NULs, leave  *)
(* the last cell of dst alone.                                            *)
StrNCpy(dst, src) ==
  [k \in Cells |-> IF k = KEY_ARR_SIZE THEN dst[k]
                   ELSE IF \A j \in 0..k : src[j] # NUL THEN src[k] ELSE NUL]

(* The line a buffer holds: its first ptr cells.                          *)
LineOf(arr, ptr) == [i \in 1..ptr |-> arr[i - 1]]

-----------------------------------------------------------------------------
(* The environment assumption of the passing runs: no key is pressed      *)
(* while a line ended with Enter waits to be read.                        *)
Quiet ==
  KeysWhilePending \/
  (enter_state = 0 /\ \A t \in Terms : rd[t].pc \in {"user", "wait"})

(* A key that input_handler echoes and pushes (keyboard.c 237-248); the   *)
(* modifier keys only choose which character that is.                    *)
TypeKey ==
  /\ Quiet
  /\ key_arr_ptr < KEY_ARR_SIZE - 1 \/ key_arr_overflow < MAX_OVF
  /\ KeyArrPush(KeyOf(current_terminal))
  /\ UNCHANGED <<enter_state, current_terminal, running_terminal,
                 terminal_running, terminal_info, rd, got>>

(* ENTER, keyboard.c 137-142: push the newline and raise enter_state.     *)
EnterKey ==
  /\ Quiet
  /\ key_arr_ptr < KEY_ARR_SIZE - 1 \/ key_arr_overflow < MAX_OVF
  /\ KeyArrPush(NL)
  /\ enter_state' = 1
  /\ UNCHANGED <<current_terminal, running_terminal, terminal_running,
                 terminal_info, rd, got>>

(* BKSP, keyboard.c 144-146 and backspace_handler, lib.c 380-398: the     *)
(* handler pops when the cursor is past the prompt, which is when the     *)
(* echoed line (kept and overflowed keys) is not empty.                   *)
Backspace ==
  /\ Quiet
  /\ key_arr_ptr + key_arr_overflow > 0
  /\ KeyArrPop
  /\ UNCHANGED <<enter_state, current_terminal, running_terminal,
                 terminal_running, terminal_info, rd, got>>

(* save_terminal_info, terminal.c 232-249: the line part of it.         *)
SaveTerminalInfo(id) ==
  terminal_info' = [terminal_info EXCEPT ![id] =
                      [key_arr_old          |-> StrNCpy(@.key_arr_old, key_arr),
                       key_arr_ptr_old      |-> key_arr_ptr,
                       key_arr_overflow_old |-> key_arr_overflow]]

(* restore_terminal_info, terminal.c 260-277: the line part of it.        *)
RestoreTerminalInfo(id) ==
  /\ key_arr_ptr' = terminal_info[id].key_arr_ptr_old
  /\ key_arr_overflow' = terminal_info[id].key_arr_overflow_old
  /\ key_arr' = StrNCpy(key_arr, terminal_info[id].key_arr_old)

(* switch_to_terminal(id), terminal.c 165-221, as Alt+Fn calls it         *)
(* (keyboard.c 213-231): save the live line into the old terminal's info  *)
(* and restore the new one's; a terminal not yet started also gets its   *)
(* shell and the CPU (181-208).  enter_state is neither saved nor         *)
(* restored.  Only the old terminal's entry changes, so the restore reads *)
(* the new terminal's entry as it was.                                    *)
SwitchToTerminal(id) ==
  /\ Quiet
  /\ id # current_terminal
  /\ SaveTerminalInfo(current_terminal)
  /\ current_terminal' = id
  /\ RestoreTerminalInfo(id)
  /\ IF terminal_running[id] = 0
     THEN /\ terminal_running' = [terminal_running EXCEPT ![id] = 1]
          /\ running_terminal' = id
     ELSE UNCHANGED <<terminal_running, running_terminal>>
  /\ UNCHANGED <<enter_state, rd, got>>

(* input_handler, keyboard.c 182-252, for the keys that change the line:  *)
(* Alt+F1..F3 switch, a key below 0x3C is echoed and pushed.  Ctrl-L only *)
(* redraws, Ctrl-C belongs to Kernel, and keys from 0x3E on return.       *)
InputHandler ==
  \/ TypeKey
  \/ \E id \in Screens : SwitchToTerminal(id)

(* keyboard_handler, keyboard.c 91-172, with interrupts off: the          *)
(* modifier keys, TAB, ESC and the keypad star change no line state.      *)
KeyboardHandler == InputHandler \/ EnterKey \/ Backspace

(* Mutation of the round robin: the search starts at running_terminal     *)
(* itself instead of the one after it.                                     *)
NextTerminalFromSelf ==
  LET cand == {i \in 0..MAX_TERMINAL_NUM - 1 :
                 terminal_running[(running_terminal + i) % 3] = 1}
      i0   == CHOOSE i \in cand : \A j \in cand : i <= j
  IN  (running_terminal + i0) % 3

(* pit_handler, scheduling.c 45-55: with a second terminal started, run   *)
(* the next started terminal after running_terminal, round robin.         *)
NextTerminal ==
  LET cand == {i \in 1..MAX_TERMINAL_NUM :
                 terminal_running[(running_terminal + i) % 3] = 1}
      i0   == CHOOSE i \in cand : \A j \in cand : i <= j
  IN  (running_terminal + i0) % 3

Schedule ==
  /\ terminal_running[1] = 1 \/ terminal_running[2] = 1
  /\ running_terminal' = NextTerminal
  /\ UNCHANGED <<key_arr, key_arr_ptr, key_arr_overflow, enter_state,
                 current_terminal, terminal_running, terminal_info, rd, got>>

(* The top program of terminal t, while t runs, calls terminal_read.      *)
ReadCall(t, n) ==
  /\ running_terminal = t
  /\ terminal_running[t] = 1
  /\ rd[t].pc = "user"
  /\ rd' = [rd EXCEPT ![t] = [pc |-> "wait", n |-> n]]
  /\ UNCHANGED <<key_arr, key_arr_ptr, key_arr_overflow, enter_state,
                 current_terminal, running_terminal, terminal_running,
                 terminal_info, got>>

(* terminal.c 34-38: the spin ends once enter_state is set and t is on    *)
(* screen; a pass that fails changes nothing.                             *)
ReadWait(t) ==
  /\ running_terminal = t
  /\ rd[t].pc = "wait"
  /\ enter_state # 0 /\ current_terminal = t
  /\ rd' = [rd EXCEPT ![t].pc = "clear"]
  /\ UNCHANGED <<key_arr, key_arr_ptr, key_arr_overflow, enter_state,
                 current_terminal, running_terminal, terminal_running,
                 terminal_info, got>>

(* terminal.c 39-43: cli; enter_state = 0; sti.                           *)
ReadClearEnter(t) ==
  /\ running_terminal = t
  /\ rd[t].pc = "clear"
  /\ enter_state' = 0
  /\ rd' = [rd EXCEPT ![t].pc = "copy"]
  /\ UNCHANGED <<key_arr, key_arr_ptr, key_arr_overflow, current_terminal,
                 running_terminal, terminal_running, terminal_info, got>>

(* terminal.c 46-50: copy min(key_arr_ptr, nbytes) keys of the live       *)
(* buffer, whichever terminal is now on screen.                           *)
ReadCopy(t) ==
  LET k == IF key_arr_ptr < rd[t].n THEN key_arr_ptr ELSE rd[t].n IN
  /\ running_terminal = t
  /\ rd[t].pc = "copy"
  /\ got' = [term |-> t, data |-> LineOf(key_arr, k)]
  /\ rd' = [rd EXCEPT ![t].pc = "flush"]
  /\ UNCHANGED <<key_arr, key_arr_ptr, key_arr_overflow, enter_state,
                 current_terminal, running_terminal, terminal_running,
                 terminal_info>>

(* terminal.c 52-54: key_arr_clear and return to the program.             *)
ReadFlush(t) ==
  /\ running_terminal = t
  /\ rd[t].pc = "flush"
  /\ KeyArrClear
  /\ rd' = [rd EXCEPT ![t] = [pc |-> "user", n |-> 0]]
  /\ UNCHANGED <<enter_state, current_terminal, running_terminal,
                 terminal_running, terminal_info, got>>

(* terminal_read, terminal.c 29-55, after its call.                      *)
TerminalRead(t) == ReadWait(t) \/ ReadClearEnter(t) \/ ReadCopy(t) \/ ReadFlush(t)

(* init_keyboard, keyboard.c 77-83.                                       *)
InitKeyboard ==
  /\ key_arr_ptr = 0
  /\ enter_state = 0
  /\ key_arr_overflow = 0

(* init_terminal, terminal.c 106-148: empty buffers (the saved ones are   *)
(* zeroed globals), terminal 0 on screen, running and started.            *)
InitTerminal ==
  /\ key_arr = Empty
  /\ current_terminal = 0
  /\ running_terminal = 0
  /\ terminal_running = [t \in Terms |-> IF t = 0 THEN 1 ELSE 0]
  /\ terminal_info = [t \in Terms |-> [key_arr_old          |-> Empty,
                                        key_arr_ptr_old      |-> 0,
                                        key_arr_overflow_old |-> 0]]

Init ==
  /\ InitKeyboard
  /\ InitTerminal
  /\ rd = [t \in Terms |-> [pc |-> "user", n |-> 0]]
  /\ got = [term |-> 0, data |-> <<>>]

Next ==
  \/ KeyboardHandler
  \/ Schedule
  \/ \E t \in Terms : TerminalRead(t) \/ \E n \in Sizes : ReadCall(t, n)

(* The timer keeps ticking, and a reader whose terminal runs spins until  *)
(* its step is enabled: a time slice is far longer than one pass.  Only   *)
(* terminals in Screens are ever started.                                 *)
Fairness ==
  /\ WF_vars(Schedule)
  /\ \A t \in Screens : SF_vars(TerminalRead(t))

Spec == Init /\ [][Next]_vars /\ Fairness
-----------------------------------------------------------------------------
(* The line of terminal t in LineInput's terms: the live buffer when t is  *)
(* on screen, else its saved copy; empty once t's read has copied it.      *)
LineAbs(t) ==
  IF rd[t].pc = "flush" THEN <<>>
  ELSE IF t = current_terminal THEN LineOf(key_arr, key_arr_ptr)
  ELSE LineOf(terminal_info[t].key_arr_old, terminal_info[t].key_arr_ptr_old)

LostAbs(t) ==
  IF rd[t].pc = "flush" THEN 0
  ELSE IF t = current_terminal THEN key_arr_overflow
  ELSE terminal_info[t].key_arr_overflow_old

ReadyAbs(t) == rd[t].pc = "copy" \/ (enter_state = 1 /\ current_terminal = t)

ReaderAbs(t) == IF rd[t].pc \in {"wait", "clear", "copy"} THEN rd[t].n ELSE 0

LI == INSTANCE LineInput WITH
        Terms <- Terms, Chars <- KeyChars, NL <- NL, CAP <- KEY_ARR_SIZE - 1,
        Sizes <- Sizes,
        screen <- current_terminal,
        line   <- [t \in Terms |-> LineAbs(t)],
        lost   <- [t \in Terms |-> LostAbs(t)],
        ready  <- [t \in Terms |-> ReadyAbs(t)],
        reader <- [t \in Terms |-> ReaderAbs(t)],
        got    <- got

TermTypeOK ==
  /\ key_arr \in [Cells -> KeyChars \cup {NL, NUL}]
  /\ key_arr_ptr \in 0..KEY_ARR_SIZE - 1
  /\ key_arr_overflow \in 0..MAX_OVF
  /\ enter_state \in {0, 1}
  /\ {current_terminal, running_terminal} \subseteq Terms
  /\ terminal_running \in [Terms -> {0, 1}]
  /\ \A t \in Terms : terminal_info[t].key_arr_ptr_old \in 0..KEY_ARR_SIZE - 1
  /\ \A t \in Terms : rd[t].pc \in {"user", "wait", "clear", "copy", "flush"}

(* Each terminal keeps its own line across Alt+Fn and terminal_read hands  *)
(* a waiting program exactly the line typed on its own terminal, cut to    *)
(* nbytes (LineInput): the single live key_arr, the strncpy save and       *)
(* restore in switch_to_terminal, key_arr_pop's overflow-first order and   *)
(* the four steps of terminal_read together implement per-terminal lines. *)
LineInputSpec == LI!Spec

(* A program waiting in terminal_read whose terminal is on screen with a   *)
(* line ended by Enter returns from the read: the spin of terminal.c 34-38 *)
(* sees the flag once pit_handler's round robin gives it the CPU.          *)
LineDelivered ==
  \A t \in Screens :
    (rd[t].pc = "wait" /\ enter_state = 1 /\ current_terminal = t) ~> rd[t].pc = "user"

(* Whatever keys and Alt+Fn come while a line waits, terminal_read returns *)
(* to a program only keys typed on that program's terminal.                *)
ReadOwnInput ==
  \A i \in 1..Len(got.data) : got.data[i] \in {KeyOf(got.term), NL}
====
