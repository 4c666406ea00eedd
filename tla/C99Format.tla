----------------------------- MODULE C99Format ------------------------------
(***************************************************************************)
(* What the C standard (C99, 7.19.6.1) prescribes for one directive of a   *)
(* format, as the reference for Printf.  A directive is a record           *)
(*   [flags, width, prec, mod, conv]                                       *)
(* with width = 0 for none and prec = -1 for none.  It is defined by what  *)
(* the result looks like, not by how it is computed.                       *)
(***************************************************************************)
EXTENDS Integers, Sequences, SequencesExt

CONSTANTS Bits, Scale, Largest, Null

Numerals == <<"0", "1", "2", "3", "4", "5", "6", "7", "8", "9",
              "a", "b", "c", "d", "e", "f">>
Capitals == SubSeq(Numerals, 1, 10) \o <<"A", "B", "C", "D", "E", "F">>

(* The numeral of u in a base with n digits, and the shortest one.         *)
Numeral(u, base, n, glyphs) ==
  [i \in 1..n |-> glyphs[((u \div base^(n - i)) % base) + 1]]
Shortest(u, base, glyphs) ==
  Numeral(u, base, CHOOSE n \in 1..Bits : u < base^n /\ (n > 1 => u >= base^(n - 1)), glyphs)

Fill(c, n) == [i \in 1..n |-> c]

(* A sign and a body in a field.                                           *)
Field(d, sign, body, zeros) ==
  LET gap == d.width - Len(sign) - Len(body) IN
  CASE "-" \in d.flags -> sign \o body \o Fill(" ", gap)
    [] "-" \notin d.flags /\ zeros -> sign \o Fill("0", gap) \o body
    [] OTHER -> Fill(" ", gap) \o sign \o body

Sign(d, v) ==
  CASE v < 0 -> <<"-">>
    [] v >= 0 /\ "+" \in d.flags -> <<"+">>
    [] v >= 0 /\ "+" \notin d.flags /\ " " \in d.flags -> <<" ">>
    [] OTHER -> <<>>

Magnitude(v) == IF v < 0 THEN -v ELSE v

Integer(d, v) ==
  LET signed == d.conv \in {"d", "i"}
      u      == IF signed THEN Magnitude(v) ELSE v % 2^Bits
      base   == CASE d.conv = "o" -> 8 [] d.conv \in {"x", "X", "p"} -> 16 [] OTHER -> 10
      digits == Shortest(u, base, IF d.conv = "X" THEN Capitals ELSE Numerals)
      body   == IF u = 0 /\ d.prec = 0 THEN <<>>
                ELSE Fill("0", d.prec - Len(digits)) \o digits
  IN  Field(d, IF signed THEN Sign(d, v) ELSE <<>>, body, "0" \in d.flags /\ d.prec < 0)

(* v / Scale, correctly rounded to the precision.                          *)
Floating(d, v) ==
  LET prec == IF d.prec < 0 THEN 6 ELSE d.prec
      all  == (2 * Magnitude(v) * 10^prec + Scale) \div (2 * Scale)
      frac == Numeral(all, 10, prec, Numerals)
      body == Shortest(all \div 10^prec, 10, Numerals)
              \o (IF prec = 0 THEN <<>> ELSE <<".">> \o frac)
  IN  Field(d, Sign(d, v), body, "0" \in d.flags)

Text(d, s) ==
  Field(d, <<>>, IF d.prec < 0 \/ Len(s) <= d.prec THEN s ELSE SubSeq(s, 1, d.prec), FALSE)

Expected(d, v) ==
  CASE d.conv \in {"d", "i", "o", "u", "x", "X", "p"} -> Integer(d, v)
    [] d.conv = "f" -> Floating(d, v)
    [] d.conv = "s" -> Text(d, v)
    [] d.conv = "c" -> Field(d, <<>>, <<v>>, FALSE)
    [] d.conv = "%" -> <<"%">>
    [] d.conv = "n" -> <<>>

(* Where snprintf.c differs from the standard: zero padding together with  *)
(* a precision or left justification; no digits for 0 with precision 0;    *)
(* %s with a precision below the width, or a null pointer; %c in a field;  *)
(* pointers in the upper half; %f with a fraction that starts with zeros,  *)
(* with precision 0 in a field, or signed and padded with zeros, with a    *)
(* fraction whose digits do not fit a long, or of Largest and more; %e and *)
(* %g print nothing; "#" has no effect; "h" does not narrow; %w is no C.   *)
Differs(d, v) ==
  \/ "#" \in d.flags \/ d.conv \in {"e", "E", "g", "G", "w", "y"} \/ d.mod = "h"
  \/ /\ d.conv \in {"d", "i", "o", "u", "x", "X", "p"}
     /\ \/ "0" \in d.flags /\ ("-" \in d.flags \/ d.prec >= 0)
        \/ v = 0 /\ d.prec = 0
        \/ d.conv = "p" /\ (v < 0 \/ d.flags \cap {"+", " "} # {})
  \/ d.conv = "s" /\ (v = Null \/ (d.prec >= 0 /\ d.prec < d.width))
  \/ d.conv = "c" /\ d.width > 1
  \/ /\ d.conv = "f"
     /\ \/ Magnitude(v) >= Largest * Scale
        \/ d.prec = 0 /\ d.width > 0
        \/ "0" \in d.flags /\ (v < 0 \/ d.flags \cap {"+", " "} # {})
        \/ LET prec == IF d.prec < 0 THEN 6 ELSE d.prec
               part == (2 * (Magnitude(v) % Scale) * 10^prec + Scale) \div (2 * Scale)
               frac == part % 10^prec
           IN  part >= 2^(Bits - 1) \/ (prec > 0 /\ frac > 0 /\ frac < 10^(prec - 1))
=============================================================================
