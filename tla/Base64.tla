-------------------------------- MODULE Base64 --------------------------------
(***************************************************************************)
(* base64decode, which takes apart the content of a blob GitHub answers    *)
(* with.  A text is a sequence of characters, the result one of bytes.     *)
(***************************************************************************)
EXTENDS Integers, SequencesExt

kEmptyChar == -1
kAlphabet ==
  <<"A", "B", "C", "D", "E", "F", "G", "H", "I", "J", "K", "L", "M", "N", "O", "P",
    "Q", "R", "S", "T", "U", "V", "W", "X", "Y", "Z", "a", "b", "c", "d", "e", "f",
    "g", "h", "i", "j", "k", "l", "m", "n", "o", "p", "q", "r", "s", "t", "u", "v",
    "w", "x", "y", "z", "0", "1", "2", "3", "4", "5", "6", "7", "8", "9", "+", "/">>

\* Everything outside of the alphabet is an empty character (but the NUL that
\* ends kAlphabet, which no text here has).
lookup_ == [c \in Range(kAlphabet) |-> (CHOOSE i \in 1 .. 64 : kAlphabet[i] = c) - 1]
Lookup(c) == IF c \in DOMAIN lookup_ THEN lookup_[c] ELSE kEmptyChar

Digit(t, p) == [t |-> t, at |-> p]

\* Mutant: an empty character stands for a digit.
NextDigitBlunt(s, p) ==
  IF p > Len(s) THEN Digit(kEmptyChar, p) ELSE Digit(Lookup(s[p]), p + 1)

\* The do loop: the next digit of the text, past empty characters, and the
\* position after it.
NextDigit(s, p) ==
  LET at == {q \in p .. Len(s) : Lookup(s[q]) # kEmptyChar}
  IN IF at = {} THEN Digit(kEmptyChar, Len(s) + 1)
     ELSE LET q == CHOOSE q \in at : \A r \in at : q <= r
          IN Digit(Lookup(s[q]), q + 1)

\* The for loop: up to four digits.
RECURSIVE Digits4(_, _, _)
Digits4(s, p, digits) ==
  LET next == NextDigit(s, p)
  IN IF Len(digits) = 4 \/ next.t = kEmptyChar
     THEN [digits |-> digits, at |-> IF Len(digits) = 4 THEN p ELSE next.at]
     ELSE Digits4(s, next.at, Append(digits, next.t))

\* result, and the bytes that j digits are good for.
BytesOf(digits) ==
  LET digit(i) == IF i <= Len(digits) THEN digits[i] ELSE 0
      result == digit(1) * 2 ^ 18 + digit(2) * 2 ^ 12 + digit(3) * 2 ^ 6 + digit(4)
  IN [k \in 1 .. Len(digits) - 1 |-> (result \div 2 ^ (8 * (3 - k))) % 256]

RECURSIVE DecodeFrom(_, _)
DecodeFrom(s, p) ==
  IF p > Len(s) THEN <<>>
  ELSE LET four == Digits4(s, p, <<>>)
       IN BytesOf(four.digits) \o DecodeFrom(s, four.at)

base64decode(b64) == DecodeFrom(b64, 1)
=============================================================================
