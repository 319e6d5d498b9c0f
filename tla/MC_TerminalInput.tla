-------------------------- MODULE MC_TerminalInput --------------------------
EXTENDS TerminalInput

(* Three cells: lines of two keys, the third key overflows.                *)
MC_KEY_ARR_SIZE == 3
MC_MAX_OVF == 1
(* A read shorter than a full line, and one longer.                        *)
MC_Sizes == {1, 3}
(* Two terminals reached by Alt+F1 and Alt+F2: enough for a line to be    *)
(* saved, restored and read on a terminal other than the first.          *)
MC_Screens == {0, 1}
==============================================================================
