-------------------------- MODULE MC_CommandParse --------------------------
EXTENDS CommandParse

(* A line: some leading spaces, a name of the given length, an argument  *)
(* part that starts right after the name, and the terminator (the shell  *)
(* passes a NUL-terminated line; a raw terminal_read line ends in "\n").  *)
Rep(ch, k) == [i \in 1..k |-> ch]
MkLine(lead, nameLen, argPart, term) ==
  Rep(SP, lead) \o Rep("a", nameLen) \o argPart \o <<term>>

(* Argument parts: none, one word after one or two spaces, two words,    *)
(* trailing spaces only, and the longest ones args_buf holds (99          *)
(* characters, the word after 98 spaces or after one).                    *)
FitArgParts ==
  { <<>>, <<SP, "b">>, <<SP, SP, "b">>, <<SP, "b", SP, SP, "a">>,
    <<SP>>, <<SP, SP>>, <<SP, "b", SP>>,
    <<SP>> \o Rep("b", 98), Rep(SP, 98) \o <<"b">> }

(* Names of 0 to 32 characters: the boundary of exe_name is 32.          *)
MC_Lines ==
  { MkLine(lead, n, a, t) : lead \in {0, 1}, n \in {0, 1, 3, 31, 32},
                            a \in FitArgParts, t \in {NUL, NL} }

(* Programs named with 3, 31 and 32 characters.                           *)
MC_DirNames == { Rep("a", 3), Rep("a", 31), Rep("a", 32) }

MC_Sizes == {0, 2, 200}
==============================================================================
