------------------------------ MODULE MC_Echo ------------------------------
EXTENDS Echo

(* A screen of 4 columns and 3 rows: a prompt and a few keys wrap a row,  *)
(* and a few lines scroll.  (NUM_ROWS - 1) * NUM_COLS stays larger than   *)
(* the longest line, as 23 * 80 is larger than 127 + 255 in the code, so *)
(* the cap on row_stack is never what keeps echo and buffer in step.      *)
MC_NUM_COLS == 4
MC_NUM_ROWS == 3
(* Lines of three buffered keys; the fourth overflows.                    *)
MC_KEY_ARR_SIZE == 4
MC_MAX_OVF == 1
MC_CH == "c"
(* "391OS> " and "current tid: %d\n", shorter than a row as in the code; *)
(* the tid line keeps its conversion, which printf turns into the digit. *)
MC_PROMPT == <<"c", "c">>
MC_TID_FMT == <<"%", "d", "\n">>
(* The no-free-pid message: a line of text, then the prompt.             *)
MC_NO_PID_MSG == <<"c", "\n", "c", "c">>
(* Program output ends with a newline: an empty line, and one that wraps. *)
MC_Outputs == {<<"\n">>, <<"c", "c", "c", "c", "c", "\n">>}
MC_Screens == {0, 1}
==============================================================================
