------------------------------ MODULE LineInput ------------------------------
(***************************************************************************)
(* What the keyboard and terminal_read promise the programs of the three  *)
(* terminals: each terminal keeps its own input line (spec 3: a terminal  *)
(* owns its saved keystroke buffer).  Keys edit the line of the terminal  *)
(* on screen; a line holds CAP characters, and characters typed past that *)
(* are dropped but still taken back by backspace first.  Enter ends the   *)
(* line; a program of that terminal waiting in read then receives the     *)
(* line, cut to the size it asked for, and the line starts afresh.        *)
(***************************************************************************)
EXTENDS Integers, Sequences

CONSTANTS
  Terms,   \* the terminals
  Chars,   \* characters typed
  NL,      \* the character Enter puts at the end of a line
  CAP,     \* characters a line holds
  Sizes    \* nbytes values of read

VARIABLES
  screen,  \* the terminal on screen
  line,    \* line[t]: the characters of t's current line
  lost,    \* lost[t]: characters typed on t past CAP, not yet erased
  ready,   \* ready[t]: t's line was ended by Enter and not yet read
  reader,  \* reader[t]: nbytes of the read t's program waits in, or 0
  got      \* the last delivery: [term, data]

vars == <<screen, line, lost, ready, reader, got>>

Push(t, c) ==
  IF Len(line[t]) < CAP
  THEN line' = [line EXCEPT ![t] = Append(@, c)] /\ UNCHANGED lost
  ELSE lost' = [lost EXCEPT ![t] = @ + 1] /\ UNCHANGED line

Type(c) ==
  /\ ~ready[screen]
  /\ Push(screen, c)
  /\ UNCHANGED <<screen, ready, reader, got>>

Erase ==
  LET t == screen IN
  /\ ~ready[t]
  /\ \/ lost[t] > 0 /\ lost' = [lost EXCEPT ![t] = @ - 1] /\ UNCHANGED line
     \/ lost[t] = 0 /\ line[t] # <<>>
        /\ line' = [line EXCEPT ![t] = SubSeq(@, 1, Len(@) - 1)] /\ UNCHANGED lost
     \/ lost[t] = 0 /\ line[t] = <<>> /\ UNCHANGED <<line, lost>>
  /\ UNCHANGED <<screen, ready, reader, got>>

Enter ==
  /\ ~ready[screen]
  /\ Push(screen, NL)
  /\ ready' = [ready EXCEPT ![screen] = TRUE]
  /\ UNCHANGED <<screen, reader, got>>

Switch(t) ==
  /\ screen' = t
  /\ UNCHANGED <<line, lost, ready, reader, got>>

Call(t, n) ==
  /\ reader[t] = 0
  /\ reader' = [reader EXCEPT ![t] = n]
  /\ UNCHANGED <<screen, line, lost, ready, got>>

Deliver(t) ==
  LET k == IF reader[t] < Len(line[t]) THEN reader[t] ELSE Len(line[t]) IN
  /\ reader[t] # 0
  /\ ready[t]
  /\ got' = [term |-> t, data |-> SubSeq(line[t], 1, k)]
  /\ line' = [line EXCEPT ![t] = <<>>]
  /\ lost' = [lost EXCEPT ![t] = 0]
  /\ ready' = [ready EXCEPT ![t] = FALSE]
  /\ reader' = [reader EXCEPT ![t] = 0]
  /\ UNCHANGED screen

Init ==
  /\ screen \in Terms
  /\ line = [t \in Terms |-> <<>>]
  /\ lost = [t \in Terms |-> 0]
  /\ ready = [t \in Terms |-> FALSE]
  /\ reader = [t \in Terms |-> 0]
  /\ got = [term |-> screen, data |-> <<>>]

Next ==
  \/ \E c \in Chars : Type(c)
  \/ Erase
  \/ Enter
  \/ \E t \in Terms : Switch(t) \/ Deliver(t) \/ \E n \in Sizes : Call(t, n)

Spec == Init /\ [][Next]_vars
==============================================================================
