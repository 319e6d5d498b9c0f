-------------------------------- MODULE Rtc --------------------------------
(***************************************************************************)
(* The virtualised real-time clock (rtc.c).  The hardware RTC interrupts  *)
(* at BASE_HZ; rtc_handler counts interrupts per terminal and raises       *)
(* itr_occur_table[t] every constant_arr[t] of them.  A process reads and  *)
(* writes the RTC through its file descriptor: rtc_read spins until the    *)
(* flag of running_terminal is raised and then clears it; rtc_write and    *)
(* rtc_open set the rate of running_terminal.                              *)
(*                                                                         *)
(* Only the top process of a terminal runs, and it runs exactly when the   *)
(* scheduler has made its terminal running_terminal, so "the process of    *)
(* terminal t" stands for whichever process is on top of t.  The PIT       *)
(* moves running_terminal round robin over the three started terminals.   *)
(***************************************************************************)
EXTENDS Integers

CONSTANTS
  BASE_HZ,   \* rate of the hardware interrupt (rtc.c BASE_FREQ, 1024)
  Freqs      \* the int values programs pass to rtc_write

ASSUME BASE_HZ \in {2^k : k \in 1..10}
ASSUME Freqs \subseteq Int

MAX_TERMINAL_NUM == 3
Terms == 0..MAX_TERMINAL_NUM - 1

(* Mutation of rtc_set_freq's loop: it halves without testing each      *)
(* quotient for oddness.                                                   *)
RECURSIVE HalvesToOneNoCheck(_)
HalvesToOneNoCheck(f) ==
  IF f > 1 THEN HalvesToOneNoCheck(f \div 2) ELSE TRUE

(* The loop of rtc_set_freq (rtc.c 73-80): halve while above 1, failing   *)
(* on an odd value.                                                       *)
RECURSIVE HalvesToOne(_)
HalvesToOne(f) ==
  IF f > 1 THEN f % 2 = 0 /\ HalvesToOne(f \div 2) ELSE TRUE

(* The bound rtc_set_freq tests against, the literal 1024 of rtc.c 70.    *)
CODE_HZ == 1024

(* rtc_set_freq's checks (rtc.c 70-80) with upper bound base: accepted    *)
(* unless negative, above base or odd, and then only if halving reaches 1.*)
SetFreqAcceptsAt(base, f) ==
  ~(f < 0 \/ f > base \/ f % 2 # 0) /\ HalvesToOne(f)

(* The checks as the scaled model runs them, BASE_HZ standing for 1024.  *)
SetFreqAccepts(f) == SetFreqAcceptsAt(BASE_HZ, f)

VARIABLES
  constant_arr,      \* interrupts per virtual tick, per terminal
  counter_table,     \* interrupts counted since the last virtual tick
  itr_occur_table,   \* virtual tick raised and not yet consumed by rtc_read
  running_terminal,  \* terminal whose top process the CPU runs
  reading,           \* reading[t]: the process of t spins in rtc_read
  hung               \* the kernel took a divide error with interrupts off

vars == <<constant_arr, counter_table, itr_occur_table, running_terminal,
          reading, hung>>

(* rtc_set_freq(f) for running_terminal, rtc.c 64-86: cli, validate, store *)
(* 1024 / f and sti.  f = 0 passes the checks and divides by zero; the    *)
(* divide-error handler then spins with interrupts still off.  A rejected *)
(* value returns with interrupts off, but the iret of the system call     *)
(* restores the caller's flags.                                           *)
SetFreq(f) ==
  LET r == running_terminal IN
  IF ~SetFreqAccepts(f)
  THEN UNCHANGED <<constant_arr, hung>>
  ELSE IF f = 0
  THEN hung' = TRUE /\ UNCHANGED constant_arr
  ELSE constant_arr' = [constant_arr EXCEPT ![r] = BASE_HZ \div f] /\ UNCHANGED hung

(* The process of the running terminal is in user mode.                   *)
UserMode == ~hung /\ ~reading[running_terminal]

(* rtc_write(fd, &f, 4), rtc.c 157-165.  A wrong size or NULL buffer       *)
(* returns -1 and changes nothing.                                        *)
RtcWrite ==
  /\ UserMode
  /\ \E f \in Freqs : SetFreq(f)
  /\ UNCHANGED <<counter_table, itr_occur_table, running_terminal, reading>>

(* rtc_open, rtc.c 180-184: rtc_set_freq(2).                               *)
RtcOpen ==
  /\ UserMode
  /\ SetFreq(2)
  /\ UNCHANGED <<counter_table, itr_occur_table, running_terminal, reading>>

(* rtc_read, rtc.c 134-142, entered by the process of the running         *)
(* terminal.  If the flag is already up the loop does not spin.           *)
RtcRead ==
  LET r == running_terminal IN
  /\ UserMode
  /\ IF itr_occur_table[r] = 1
     THEN /\ itr_occur_table' = [itr_occur_table EXCEPT ![r] = 0]
          /\ UNCHANGED reading
     ELSE /\ reading' = [reading EXCEPT ![r] = TRUE]
          /\ UNCHANGED itr_occur_table
  /\ UNCHANGED <<constant_arr, counter_table, running_terminal, hung>>

(* One more pass of rtc_read's while loop finds the flag up: clear it and *)
(* return.                                                                *)
RtcReadWake ==
  LET r == running_terminal IN
  /\ ~hung
  /\ reading[r]
  /\ itr_occur_table[r] = 1
  /\ itr_occur_table' = [itr_occur_table EXCEPT ![r] = 0]
  /\ reading' = [reading EXCEPT ![r] = FALSE]
  /\ UNCHANGED <<constant_arr, counter_table, running_terminal, hung>>

(* Mutation of rtc_handler: the loop stops one terminal short.            *)
RtcHandlerShort ==
  /\ ~hung
  /\ LET tick(t) == t < MAX_TERMINAL_NUM - 1 /\ counter_table[t] + 1 >= constant_arr[t]
     IN  /\ counter_table' = [t \in Terms |->
                                IF t >= MAX_TERMINAL_NUM - 1 THEN counter_table[t]
                                ELSE IF tick(t) THEN 0 ELSE counter_table[t] + 1]
         /\ itr_occur_table' = [t \in Terms |-> IF tick(t) THEN 1 ELSE itr_occur_table[t]]
  /\ UNCHANGED <<constant_arr, running_terminal, reading, hung>>

(* Mutation of rtc_handler: the count is compared with > instead of >=.   *)
RtcHandlerLate ==
  /\ ~hung
  /\ LET tick(t) == counter_table[t] + 1 > constant_arr[t]
     IN  /\ counter_table' = [t \in Terms |-> IF tick(t) THEN 0 ELSE counter_table[t] + 1]
         /\ itr_occur_table' = [t \in Terms |-> IF tick(t) THEN 1 ELSE itr_occur_table[t]]
  /\ UNCHANGED <<constant_arr, running_terminal, reading, hung>>

(* rtc_handler, rtc.c 100-119: for every terminal count the interrupt and *)
(* raise its flag when the count reaches constant_arr.                    *)
RtcHandler ==
  /\ ~hung
  /\ LET tick(t) == counter_table[t] + 1 >= constant_arr[t]
     IN  /\ counter_table' = [t \in Terms |-> IF tick(t) THEN 0 ELSE counter_table[t] + 1]
         /\ itr_occur_table' = [t \in Terms |-> IF tick(t) THEN 1 ELSE itr_occur_table[t]]
  /\ UNCHANGED <<constant_arr, running_terminal, reading, hung>>

(* The PIT hands the CPU to the next terminal (pit_handler's round robin  *)
(* with all three terminals started).                                     *)
Schedule ==
  /\ ~hung
  /\ running_terminal' = (running_terminal + 1) % MAX_TERMINAL_NUM
  /\ UNCHANGED <<constant_arr, counter_table, itr_occur_table, reading, hung>>

(* rtc.c 20-22.                                                            *)
Init ==
  /\ constant_arr     = [t \in Terms |-> BASE_HZ]
  /\ counter_table    = [t \in Terms |-> 0]
  /\ itr_occur_table  = [t \in Terms |-> 0]
  /\ running_terminal = 0
  /\ reading          = [t \in Terms |-> FALSE]
  /\ hung             = FALSE

Next ==
  \/ RtcWrite \/ RtcOpen \/ RtcRead \/ RtcReadWake
  \/ RtcHandler \/ Schedule

(* The RTC and the PIT interrupt periodically whenever interrupts are on. *)
(* The process of each terminal spinning in rtc_read runs many passes of  *)
(* its loop in every PIT quantum of its terminal, so a flag that is up    *)
(* while that terminal is scheduled again and again is seen: strong       *)
(* fairness for each terminal's reader on its own.                       *)
Fairness ==
  /\ WF_vars(RtcHandler)
  /\ WF_vars(Schedule)
  /\ \A t \in Terms : SF_vars(running_terminal = t /\ RtcReadWake)

Spec == Init /\ [][Next]_vars /\ Fairness

-----------------------------------------------------------------------------
RtcTypeOK ==
  /\ constant_arr \in [Terms -> 1..BASE_HZ]
  /\ counter_table \in [Terms -> 0..BASE_HZ - 1]
  /\ itr_occur_table \in [Terms -> {0, 1}]
  /\ running_terminal \in Terms
  /\ reading \in [Terms -> BOOLEAN]
  /\ hung \in BOOLEAN

(* Every terminal's interrupt count per virtual tick is the initial one  *)
(* (rtc.c 20-22) or the base rate divided by a power of two from 2 up to  *)
(* the base rate, whatever sequence of rtc_open and rtc_write calls the   *)
(* terminals make; and rtc_set_freq's range, parity and halving checks,   *)
(* at the code's own bound of 1024, accept exactly the powers of two from *)
(* 2 to 1024 (the rates the comment of rtc_write promises) among every    *)
(* nonzero value from -2 to 1026, so 6, 12 or 1000 are refused only by    *)
(* the halving loop.                                                      *)
SupportedRates == {2^k : k \in 1..10} \cap 1..BASE_HZ
RateProbe == (-2..CODE_HZ + 2) \ {0}
AcceptsExactlyPowersOfTwo ==
  \A f \in RateProbe : SetFreqAcceptsAt(CODE_HZ, f) <=> f \in {2^k : k \in 1..10}
RatesArePowersOfTwo ==
  /\ \A t \in Terms : constant_arr[t] \in {BASE_HZ} \cup {BASE_HZ \div f : f \in SupportedRates}
  /\ AcceptsExactlyPowersOfTwo

(* A process of a terminal that waits in rtc_read is eventually woken by  *)
(* a virtual tick of its terminal, whatever the other terminals' rates    *)
(* and however rtc_handler and the PIT interleave with its loop.          *)
RtcReadReturns ==
  \A t \in Terms : reading[t] ~> ~reading[t]

=============================================================================
