------------------------------- MODULE MC_Rtc -------------------------------
(* The RTC scaled down: a base rate of 4 interrupts per second instead of *)
(* 1024 keeps every rate ratio the code can produce (1, 2, 4) while the   *)
(* counters stay small.                                                    *)
EXTENDS Rtc

MC_BASE_HZ == 4

(* Values programs write: negative, odd, too large, and every power of   *)
(* two accepted at this base rate.                                       *)
MC_Freqs == {-2, 1, 2, 3, 4, 6, 8}

=============================================================================
