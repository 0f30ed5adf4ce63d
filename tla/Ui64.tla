------------------------------- MODULE Ui64 -------------------------------
(***************************************************************************)
(* The 64-bit numbers of the UUID library (uuid_ui64.c): sequences of       *)
(* digits to the base UI64_BASE, the lowest first.  Only the operations the *)
(* library itself calls are here; ui64_i2s, ui64_mul, ui64_div and the rest *)
(* have no caller.                                                          *)
(***************************************************************************)
EXTENDS Integers, SequencesExt

UI64_BASE   == 256
UI64_DIGITS == 8

ui64_zero == [i \in 1..UI64_DIGITS |-> 0]

\* The digits of a sum whose addends, digit by digit, are s, and the carry that
\* is left; with negative addends a borrow.
Carried(s) ==
  LET z[i \in 0..Len(s)] ==
        IF i = 0 THEN [x |-> <<>>, ov |-> 0]
        ELSE LET below == z[i - 1]
                 sum   == below.ov + s[i]
             IN  [x |-> Append(below.x, sum % UI64_BASE), ov |-> sum \div UI64_BASE]
  IN  z[Len(s)]

ui64_n2i(n) == Carried([ui64_zero EXCEPT ![1] = n]).x

ui64_add(x, y)  == Carried([i \in 1..UI64_DIGITS |-> x[i] + y[i]]).x
ui64_addn(x, n) == Carried([x EXCEPT ![1] = @ + n]).x
ui64_muln(x, n) == Carried([i \in 1..UI64_DIGITS |-> x[i] * n]).x
ui64_sub(x, y)  == Carried([i \in 1..UI64_DIGITS |-> x[i] - y[i]]).x

\* Quotient and remainder, from the highest digit down.
ui64_divn(x, n) ==
  LET z[i \in 0..UI64_DIGITS] ==
        IF i = 0 THEN [x |-> <<>>, ov |-> 0]
        ELSE LET above == z[i - 1]
                 rest  == above.ov * UI64_BASE + x[UI64_DIGITS + 1 - i]
             IN  [x |-> <<rest \div n>> \o above.x, ov |-> rest % n]
  IN  z[UI64_DIGITS]

\* The value of a numeral to the base n, or of what comes before it overflows.
ui64_s2i(str, n) ==
  LET z[k \in 0..Len(str)] ==
        IF k = 0 THEN [x |-> ui64_zero, ov |-> 0]
        ELSE LET a == z[k - 1]
                 m == Carried([i \in 1..UI64_DIGITS |-> a.x[i] * n])
             IN  IF a.ov # 0 THEN a ELSE IF m.ov # 0 THEN m
                 ELSE Carried([m.x EXCEPT ![1] = @ + str[k]])
  IN  z[Len(str)].x

\* Shift left by s bits, 0 < s < 64; ov: what falls out at the top.
ui64_rol(x, s) ==
  LET bytes == s \div 8
      zx    == [i \in 1..2 * UI64_DIGITS |->
                  IF i - bytes \in 1..UI64_DIGITS THEN x[i - bytes] * 2^(s % 8) ELSE 0]
      z     == Carried(zx).x
  IN  [x |-> SubSeq(z, 1, UI64_DIGITS), ov |-> SubSeq(z, UI64_DIGITS + 1, 2 * UI64_DIGITS)]

\* ui64_or, of numbers that share no bit.
ui64_or(x, y) == [i \in 1..UI64_DIGITS |-> x[i] + y[i]]
=============================================================================
