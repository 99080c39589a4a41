------------------------------- MODULE Numbers -------------------------------
(***************************************************************************)
(* Numbers in texts, as the kernel (src/lib/str.hpp, src/gen/alpha.hpp)    *)
(* writes and reads them and the desktop (sbinSrc/de/gen/alpha.h) reads    *)
(* them.  A text is a sequence of characters.                              *)
(***************************************************************************)
EXTENDS Integers, Sequences, SequencesExt, FiniteSetsExt

Digits == <<"0", "1", "2", "3", "4", "5", "6", "7", "8", "9">>
DigitVal(c) == SelectInSeq(Digits, LAMBDA d : d = c) - 1
IsDigit(c) == DigitVal(c) >= 0

\* The digits of each number, as Str::fromu writes them.
Decimals ==
    LET digits[k \in Nat] ==
            IF k < 10 THEN <<Digits[k + 1]>> ELSE Append(digits[k \div 10], Digits[(k % 10) + 1])
    IN  digits
Fromu(n) == Decimals[n]

\* The number that the first n characters are, by n.
Values(s) ==
    LET val[n \in Nat] == IF n = 0 THEN 0 ELSE 10 * val[n - 1] + DigitVal(s[n])
    IN  val
Value(s) == Values(s)[Len(s)]

\* stou stops at the first character that is no digit, stoi is 0 for a text that
\* has one.
Stou(s) == LET others == {i \in DOMAIN s : ~IsDigit(s[i])}
           IN  Value(IF others = {} THEN s ELSE SubSeq(s, 1, Min(others) - 1))
Stoi(s) == IF \A i \in DOMAIN s : IsDigit(s[i]) THEN Value(s) ELSE 0
==============================================================================
