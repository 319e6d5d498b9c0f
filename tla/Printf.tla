------------------------------- MODULE Printf -------------------------------
(***************************************************************************)
(* printf of lib.c (72-183) with itoa (459-489) and strrev (495-508), as   *)
(* operators on sequences of characters.  A string is the sequence of its *)
(* characters up to its NUL; an argument of %d, %u or %x is an integer, of *)
(* %c a character, of %s a string.  printf only passes radix 10 and 16, so *)
(* the lookup table of itoa is given up to "F".                            *)
(***************************************************************************)
EXTENDS Integers, Sequences, SequencesExt

LOOKUP == <<"0", "1", "2", "3", "4", "5", "6", "7",
            "8", "9", "A", "B", "C", "D", "E", "F">>

(* strrev: swap s[beg] and s[end] while beg < end.                        *)
Strrev(s) == Reverse(s)

(* itoa's while loop: the digit of the lowest place value first.          *)
RECURSIVE Places(_, _)
Places(v, radix) ==
  IF v > 0 THEN <<LOOKUP[(v % radix) + 1]>> \o Places(v \div radix, radix) ELSE <<>>

(* Mutation of itoa: the special case for zero left out.                  *)
ItoaNoZero(value, radix) == Strrev(Places(value, radix))

(* itoa(value, buf, radix): "0" for zero, else the places reversed.       *)
Itoa(value, radix) == IF value = 0 THEN <<"0">> ELSE Strrev(Places(value, radix))

(* The conversions of printf's inner switch.  %#x writes itoa's digits at  *)
(* conv_buf[8], fills conv_buf[strlen..7] with '0' and puts from           *)
(* conv_buf[strlen]: 8 - strlen zeros, then the digits.  %d puts a '-' in  *)
(* front of itoa(-value).                                                  *)
Hex(v, alt) ==
  LET d == Itoa(v, 16) IN
  IF alt THEN [k \in 1..8 - Len(d) |-> "0"] \o d ELSE d
Signed(v) == IF v < 0 THEN <<"-">> \o Itoa(-v, 10) ELSE Itoa(v, 10)

(* printf's loop from the format character at the head of fmt, args the   *)
(* arguments not yet taken.  conv is "no" outside a conversion, "yes"     *)
(* after '%' and "alt" after "%#" (the goto back into the switch).  An     *)
(* unknown conversion character is skipped and takes no argument.  No     *)
(* format of the kernel ends in a lone '%'.                                *)
RECURSIVE Fmt(_, _, _)
Fmt(fmt, args, conv) ==
  IF fmt = <<>> THEN <<>>
  ELSE
    LET c    == Head(fmt)
        rest == Tail(fmt)
        a    == Head(args)
    IN  IF conv = "no"
        THEN IF c = "%" THEN Fmt(rest, args, "yes") ELSE <<c>> \o Fmt(rest, args, "no")
        ELSE CASE c = "%" -> <<"%">> \o Fmt(rest, args, "no")
               [] c = "#" -> Fmt(rest, args, "alt")
               [] c = "x" -> Hex(a, conv = "alt") \o Fmt(rest, Tail(args), "no")
               [] c = "u" -> Itoa(a, 10) \o Fmt(rest, Tail(args), "no")
               [] c = "d" -> Signed(a) \o Fmt(rest, Tail(args), "no")
               [] c = "c" -> <<a>> \o Fmt(rest, Tail(args), "no")
               [] c = "s" -> a \o Fmt(rest, Tail(args), "no")
               [] OTHER  -> Fmt(rest, args, "no")

(* printf(format, ...): the characters it puts on the screen.             *)
Printf(format, args) == Fmt(format, args, "no")

-----------------------------------------------------------------------------
(* A reference for the digits of v > 0 in radix r, the most significant   *)
(* first: n is the number of places, and place k is v \div r^(n-k) mod r. *)
NumPlaces(v, r) == CHOOSE n \in 1..10 : r^(n - 1) <= v /\ v \div r^(n - 1) < r
RefDigits(v, r) ==
  IF v = 0 THEN <<"0">>
  ELSE [k \in 1..NumPlaces(v, r) |-> LOOKUP[((v \div r^(NumPlaces(v, r) - k)) % r) + 1]]
RefHex8(v) == [k \in 1..8 |-> LOOKUP[((v \div 16^(8 - k)) % 16) + 1]]

TestInts == {0, 7, 10, 255, 753664, 305419896, 2147483647, -1, -305, -2147483647}

(* printf prints every integer below as its decimal, hex and             *)
(* zero-padded 8-digit hex representation, with a sign for negative %d,   *)
(* including zero and the extremes of int32; and it copies plain text,    *)
(* %%, %c and %s and skips an unknown conversion: itoa's digit loop, its  *)
(* zero case, strrev and the conv_buf arithmetic of %#x agree with the    *)
(* place-value definition.                                                 *)
PrintfAgreesWithPlaceValues ==
  /\ \A v \in TestInts :
       /\ Printf(<<"%", "d">>, <<v>>) =
            IF v < 0 THEN <<"-">> \o RefDigits(-v, 10) ELSE RefDigits(v, 10)
       /\ v >= 0 =>
            /\ Printf(<<"%", "u">>, <<v>>) = RefDigits(v, 10)
            /\ Printf(<<"%", "x">>, <<v>>) = RefDigits(v, 16)
            /\ Printf(<<"0", "x", "%", "#", "x">>, <<v>>) = <<"0", "x">> \o RefHex8(v)
  /\ Printf(<<"a", "%", "%", "%", "c", "%", "q", "%", "s", "b">>, <<"z", <<"s", "t">>>>)
       = <<"a", "%", "z", "s", "t", "b">>
==============================================================================
