---------------------------- MODULE Conversions ----------------------------
(***************************************************************************)
(* mem.c: numbers as text. A conversion fills a buffer of L bytes and      *)
(* returns a pointer into memory; here it yields the text up to the        *)
(* terminating zero, and the range of bytes it wrote, counted from the     *)
(* buffer's first byte, so that a negative one lies in front of it.        *)
(* Characters are ASCII codes.                                             *)
(***************************************************************************)
EXTENDS Integers, Sequences

Zero  == 48
Minus == 45

\* The digits of u, from the last backwards, as long as there is room.
Digits[room \in Nat] ==
  [u \in Nat |->
     IF u \div 10 > 0 /\ room - 1 > 0
     THEN Append(Digits[room - 1][u \div 10], Zero + (u % 10))
     ELSE <<Zero + (u % 10)>>]

\* utoa starts from the buffer's first byte, not its last, and goes down.
utoa(n, L) ==
  LET text == Digits[L - 1][n]
  IN [text |-> text, from |-> -Len(text), to |-> L - 1]

\* Mutant: the loop stops one digit early.
itoa_Short(n, L) ==
  LET text == Digits[L - 1][IF n < 10 THEN 0 ELSE n \div 10]
  IN [text |-> text, from |-> 0, to |-> L - 1]

\* itoa ends at the buffer's last byte; what does not fit is written in front.
itoa(n, L) ==
  LET digits == Digits[L - 1][IF n < 0 THEN -n ELSE n]
      text   == IF n < 0 THEN <<Minus>> \o digits ELSE digits
      first  == L - 1 - Len(text)
  IN [text |-> text, from |-> IF first < 0 THEN first ELSE 0, to |-> L - 1]

_hexMap(q) == IF q < 10 THEN Zero + q ELSE 97 + (q - 10)

\* The k low hexadecimal digits of n.
HexDigits[k \in Nat] ==
  [n \in Nat |->
     IF k = 0 THEN <<>> ELSE Append(HexDigits[k - 1][n \div 16], _hexMap(n % 16))]

\* utox and ultox write the leading digits that fit, and no zero behind them when
\* the buffer is full.
Hex(n, k, L) ==
  [text |-> SubSeq(HexDigits[k][n], 1, IF k < L THEN k ELSE L), from |-> 0, to |-> L - 1]

utox(n, L)  == Hex(n, 8, L)
ultox(n, L) == Hex(n, 16, L)

\* What the first k characters of a text say, as digits.
Reading(text) ==
  LET value[k \in 0 .. Len(text)] ==
        IF k = 0 THEN 0 ELSE 10 * value[k - 1] + (text[k] - Zero)
  IN value

\* Digits up to the first character that is none; nothing calls it.
atoi(text) ==
  LET isDigit(k) == text[k] \in Zero .. Zero + 9
  IN Reading(text)[CHOOSE k \in 0 .. Len(text) :
                     /\ \A j \in 1 .. k : isDigit(j)
                     /\ k = Len(text) \/ ~isDigit(k + 1)]

-----------------------------------------------------------------------------
\* What a text of decimal digits, with or without a sign, or of hexadecimal digits
\* says.
Decimal(text) == IF text[1] = Minus THEN -atoi(Tail(text)) ELSE atoi(text)

HexReading(text) ==
  LET value[k \in 0 .. Len(text)] ==
        IF k = 0 THEN 0
        ELSE 16 * value[k - 1] + (CHOOSE q \in 0 .. 15 : _hexMap(q) = text[k])
  IN value

HexValue(text) == HexReading(text)[Len(text)]
=============================================================================
