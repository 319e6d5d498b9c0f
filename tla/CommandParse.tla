---------------------------- MODULE CommandParse ----------------------------
(***************************************************************************)
(* How execute splits a command line into the program name and the        *)
(* argument text (syscall.c 131-166), how the argument is saved in the    *)
(* new PCB (syscall.c 239, strncpy of lib.c) and how getargs hands it     *)
(* back (syscall.c 500-521).  A command line is a sequence of characters; *)
(* only the space, the newline and NUL steer the code, so the other       *)
(* characters are drawn from a two-letter alphabet.  The C arrays are     *)
(* indexed from 0: At(c, k) is command[k].                                *)
(*                                                                         *)
(* A behaviour is the shell's loop: a line is typed, execute parses it    *)
(* and either fails or starts the program, the program calls getargs any *)
(* number of times, and the shell reads the next line.                    *)
(***************************************************************************)
EXTENDS Integers, Sequences, SequencesExt, FiniteSetsExt

CONSTANTS
  Lines,      \* the command lines the shell passes to execute
  DirNames,   \* names of the directory entries (sequences of characters)
  Sizes       \* nbytes values programs pass to getargs

SP  == " "
NL  == "\n"
NUL == "NUL"

KEY_ARR_SIZE  == 128   \* lib.h
F_TYPE_OFFSET == 32    \* filesystem.h: size of exe_name
ARG_MAX       == 100   \* types.h: size of args_buf and pcb->argument

At(c, k) == IF k < Len(c) THEN c[k + 1] ELSE NUL

(* The two while loops of step 1: advance while command[k] is in S, or    *)
(* while it is not.                                                       *)
RECURSIVE ScanWhile(_, _, _)
ScanWhile(c, k, S) == IF At(c, k) \in S THEN ScanWhile(c, k + 1, S) ELSE k

RECURSIVE ScanUntil(_, _, _)
ScanUntil(c, k, S) == IF At(c, k) \notin S THEN ScanUntil(c, k + 1, S) ELSE k

(* Step 1 of execute, syscall.c 131-166.  The copy loop writes            *)
(* exe_name[i - start] until it meets i > 127 or i - start > 32 and then  *)
(* returns -1; a name of 32 or more characters is cut to 31 by the        *)
(* terminator.  The argument loop has no bound at all.  "overrun" records *)
(* a write past exe_name[31] or args_buf[99].                             *)
Parse(c) ==
  LET start   == ScanWhile(c, 0, {SP})
      len     == ScanUntil(c, start, {SP, NL, NUL}) - start
      bad     == {j \in 0..len - 1 : start + j > KEY_ARR_SIZE - 1 \/ j > F_TYPE_OFFSET}
      copied  == IF bad = {} THEN len ELSE Min(bad)
      nameLen == IF len >= F_TYPE_OFFSET THEN F_TYPE_OFFSET - 1 ELSE len
      argEnd  == ScanUntil(c, start + len, {NL, NUL})
  IN  [ok      |-> bad = {},
       name    |-> SubSeq(c, start + 1, start + nameLen),
       args    |-> SubSeq(c, start + len + 1, argEnd),
       overrun |-> copied > F_TYPE_OFFSET
                   \/ (bad = {} /\ argEnd - (start + len) >= ARG_MAX)]

(* read_dentry_by_name, filesystem.c 57-90.  The parsed name is at most   *)
(* 31 characters, so the length test compares strlen of both names and   *)
(* a match is an equal name; an entry of 32 characters never matches.    *)
Lookup(name) == name \in DirNames

(* Mutation of step 7: the argument is saved with ARG_MAX + 1 bytes.      *)
SaveArgumentLong(args) ==
  [k \in 0..ARG_MAX |-> IF k < Len(args) THEN args[k + 1] ELSE NUL]

(* strncpy(new_pcb->argument, args_buf, ARG_MAX), syscall.c 239 and       *)
(* lib.c 724-735: copy up to the NUL and pad with NULs; an argument of    *)
(* 100 characters or more is left without a terminator.                  *)
SaveArgument(args) ==
  [k \in 0..ARG_MAX - 1 |-> IF k < Len(args) THEN args[k + 1] ELSE NUL]

(* Mutation of getargs: the offset is left on the space.                  *)
GetargsOnSpace(arg, n) ==
  LET found == {o \in 0..ARG_MAX - 2 : arg[o] = SP /\ arg[o + 1] # SP}
      from  == Min(found)
      ends  == {k \in from..ARG_MAX - 1 : arg[k] = NUL}
      text  == [k \in 1..Min(ends) - from |-> arg[from + k - 1]]
  IN  IF arg[0] = NUL \/ found = {}
      THEN [called |-> TRUE, n |-> n, res |-> -1, buf |-> <<>>, overrun |-> FALSE]
      ELSE [called |-> TRUE, n |-> n, res |-> 0,
            buf |-> SubSeq(text, 1, Min({n, Len(text)})),
            overrun |-> ends = {} \/ n < 0]

(* getargs(buf, n), syscall.c 500-521: fail on an empty argument, find   *)
(* the first space followed by a non-space (failing if there is none by  *)
(* offset 98), and strncpy from just after it.  strncpy reads up to the  *)
(* NUL, so an unterminated argument is read past its end; its size is    *)
(* unsigned, so a negative n pads NULs far past the caller's buffer.     *)
Getargs(arg, n) ==
  LET found == {o \in 0..ARG_MAX - 2 : arg[o] = SP /\ arg[o + 1] # SP}
      from  == Min(found) + 1
      ends  == {k \in from..ARG_MAX - 1 : arg[k] = NUL}
      text  == IF ends = {} THEN [k \in 1..ARG_MAX - from |-> arg[from + k - 1]]
               ELSE [k \in 1..Min(ends) - from |-> arg[from + k - 1]]
  IN  IF arg[0] = NUL \/ found = {}
      THEN [called |-> TRUE, n |-> n, res |-> -1, buf |-> <<>>, overrun |-> FALSE]
      ELSE [called |-> TRUE, n |-> n, res |-> 0,
            buf |-> IF n < 0 THEN text ELSE SubSeq(text, 1, Min({n, Len(text)})),
            overrun |-> ends = {} \/ n < 0]

NoCall == [called |-> FALSE]

VARIABLES
  line,       \* the command line given to execute
  stage,      \* "typed", "failed" (execute returned -1) or "running"
  ran,        \* exe_name of the started program
  argument,   \* pcb->argument of the started program
  ret,        \* the last getargs call of the program
  overrun     \* some write or read went past the end of its buffer

vars == <<line, stage, ran, argument, ret, overrun>>

NoArgument == [k \in 0..ARG_MAX - 1 |-> NUL]

(* execute(line), syscall.c 127-175 and 239: parse, look the name up and *)
(* save the argument in the new PCB.  The steps in between (pid, magic   *)
(* number, paging) do not read the parse.                                *)
Execute ==
  LET p == Parse(line) IN
  /\ stage = "typed"
  /\ overrun' = (overrun \/ p.overrun)
  /\ IF p.ok /\ Lookup(p.name)
     THEN /\ stage' = "running"
          /\ ran' = p.name
          /\ argument' = SaveArgument(p.args)
     ELSE /\ stage' = "failed"
          /\ UNCHANGED <<ran, argument>>
  /\ UNCHANGED <<line, ret>>

(* The running program calls getargs(buf, n).                             *)
GetargsCall(n) ==
  LET r == Getargs(argument, n) IN
  /\ stage = "running"
  /\ ret' = r
  /\ overrun' = (overrun \/ r.overrun)
  /\ UNCHANGED <<line, stage, ran, argument>>

(* The program halts, or execute failed; the shell reads the next line.  *)
NextLine ==
  /\ stage # "typed"
  /\ line' \in Lines
  /\ stage' = "typed"
  /\ ran' = <<>>
  /\ argument' = NoArgument
  /\ ret' = NoCall
  /\ UNCHANGED overrun

Init ==
  /\ line \in Lines
  /\ stage = "typed"
  /\ ran = <<>>
  /\ argument = NoArgument
  /\ ret = NoCall
  /\ overrun = FALSE

Next == Execute \/ (\E n \in Sizes : GetargsCall(n)) \/ NextLine

Spec == Init /\ [][Next]_vars

-----------------------------------------------------------------------------
(* The text the specification calls the argument: the line up to its     *)
(* terminator, less the leading spaces and the first word, less the run  *)
(* of spaces after that word.                                             *)
DropSpaces(s) ==
  LET k == SelectInSeq(s, LAMBDA x : x # SP) IN
  IF k = 0 THEN <<>> ELSE SubSeq(s, k, Len(s))
Text(c) == SubSeq(c, 1, SelectInSeq(c, LAMBDA x : x \in {NL, NUL}) - 1)
SpecArgument(c) ==
  LET t == DropSpaces(Text(c))
      w == SelectInSeq(t, LAMBDA x : x = SP)
  IN  IF w = 0 THEN <<>> ELSE DropSpaces(SubSeq(t, w, Len(t)))

ParseTypeOK ==
  /\ line \in Lines
  /\ stage \in {"typed", "failed", "running"}
  /\ argument \in [0..ARG_MAX - 1 -> {SP, NL, NUL, "a", "b"}]
  /\ ret.called \in BOOLEAN
  /\ overrun \in BOOLEAN

(* A program started with argument text gets back from getargs(buf, n)   *)
(* exactly that text, cut to n characters: execute's split of the line, *)
(* the strncpy into the PCB and getargs' search for the end of the      *)
(* first space run agree with each other for every line that fits.      *)
ArgumentAsTyped ==
  ret.called /\ SpecArgument(line) # <<>> =>
    /\ ret.res = 0
    /\ ret.buf = SubSeq(SpecArgument(line), 1, Min({ret.n, Len(SpecArgument(line))}))
==============================================================================
