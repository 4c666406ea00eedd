------------------------------- MODULE Printf -------------------------------
(***************************************************************************)
(* The formatted output of libc/stdio/snprintf.c: dopr, a state machine    *)
(* that reads a format character by character, the conversions it calls,   *)
(* and the functions built on it.                                          *)
(*                                                                         *)
(* int, long and pointers have the same width, and what does not fit wraps *)
(* around.  The numbers that %f prints are whole multiples of 1 / FScale   *)
(* and are computed with exactly: the rounding errors of double are left   *)
(* out, the width of the LLONG that holds the digits of a fraction is not. *)
(***************************************************************************)
EXTENDS Integers, Sequences, SequencesExt

CONSTANTS
  Calls,       \* records [entry, size, format, args, expected]: the calls made;
               \* behind the '\0' of a format come the bytes that follow it in memory
  Chars,       \* the characters, but '\0'
  NUL,         \* '\0', and the null pointer
  BeforeDigits,\* the bytes in front of "0123456789abcdef", the nearest first
  LongMod,     \* 2^32: an unsigned long
  FScale,      \* a power of 10
  ModfMax,     \* 2^31 * 10^99: the first number that is too large for my_modf
  PrintfSize,  \* 256: the buffer of vprintf
  SizeMax      \* (size_t)-1: what sprintf takes for the size

DigitChars == <<"0", "1", "2", "3", "4", "5", "6", "7", "8", "9">>
Lower == <<"a", "b", "c", "d", "e", "f">>
Upper == <<"A", "B", "C", "D", "E", "F">>
Blank == " "
Null == <<"<", "N", "U", "L", "L", ">">>

(* The bytes, and the numbers of a long (or an int).                       *)
Octets == Chars \cup {NUL}
LongMax == LongMod \div 2 - 1
Longs == -(LongMax + 1)..LongMax

(* What the caller passes: pairs of the conversion (or star) that an       *)
(* argument is for and its value.                                          *)
Passed ==
  ({"*", "d", "i", "o", "u", "x", "X", "p", "n"} \X Longs)
    \cup ({"f", "e", "E", "g", "G"} \X Int)
    \cup ({"c"} \X Octets) \cup ({"s"} \X (Seq(Chars) \cup {NUL}))

ASSUME PrintfAssumption ==
  /\ {LongMod, FScale, ModfMax, PrintfSize, SizeMax} \subseteq Nat \ {0}
  /\ LongMod % 2 = 0 /\ PrintfSize <= SizeMax
  /\ NUL \notin Chars /\ BeforeDigits \in [1..8 -> Octets]
  /\ Range(DigitChars) \cup Range(Lower) \cup Range(Upper) \cup Range(Null)
       \cup {Blank, "-", "+", "."} \subseteq Chars
  /\ \A c \in Calls : /\ c.entry \in {"snprintf", "sprintf", "printf", "asprintf"}
                      /\ c.size \in 0..SizeMax
                      /\ c.format \in Seq(Octets) /\ c.args \in Seq(Passed)

VARIABLES
  call,         \* the call in progress
  maxlen,       \* the arguments of dopr, with the arguments not yet read
  args,
  state, pos,   \* the locals of dopr: ch is format[pos]
  flags, cflags, min, max,
  out,          \* [len |-> currlen, data |-> buffer, nul |-> whether a '\0' was printed]
  num           \* what %n has stored

printfVars == <<call, maxlen, args, state, pos, flags, cflags, min, max, out, num>>

(* What each of the functions hands to dopr as the size of the buffer;     *)
(* vasprintf first measures the output.                                    *)
FirstSize(c) ==
  CASE c.entry = "snprintf" -> c.size
    [] c.entry = "sprintf"  -> SizeMax
    [] c.entry = "printf"   -> PrintfSize
    [] c.entry = "asprintf" -> 0

Nothing == [len |-> 0, data |-> <<>>, nul |-> FALSE]

PrintfInit ==
  /\ call \in Calls
  /\ maxlen = FirstSize(call)
  /\ args = call.args
  /\ state = "DEFAULT" /\ pos = 1
  /\ flags = {} /\ cflags = "" /\ min = 0 /\ max = -1
  /\ out = Nothing
  /\ num = -1

Ch == IF pos <= Len(call.format) THEN call.format[pos] ELSE NUL

IsDigit(c) == c \in Range(DigitChars)

(* The argument va_arg reads next.  A call that passes too few or other    *)
(* arguments than its format asks for is undefined, and gets no further.   *)
Arg == Head(args)[2]
Passes(k) == args # <<>> /\ Head(args)[1] = k

(* A number as an int or a long holds it.                                  *)
Wrap(n) == ((n + LongMax + 1) % LongMod) - (LongMax + 1)

char_to_int(c) == (CHOOSE i \in 1..10 : DigitChars[i] = c) - 1

-----------------------------------------------------------------------------
Stored(d, n, c) == [i \in DOMAIN d \cup {n} |-> IF i = n THEN c ELSE d[i]]

(* A bug in dopr_outch: one byte more than the buffer has.                 *)
OutchPastEnd(o, c) ==
  [len  |-> IF o.len = SizeMax THEN 0 ELSE o.len + 1,
   data |-> IF o.len <= maxlen THEN Stored(o.data, o.len, c) ELSE o.data,
   nul  |-> o.nul \/ c = NUL]

(* One character: it is counted, and stored while there is room.           *)
dopr_outch(o, c) ==
  [len  |-> IF o.len = SizeMax THEN 0 ELSE o.len + 1,
   data |-> IF o.len < maxlen THEN Stored(o.data, o.len, c) ELSE o.data,
   nul  |-> o.nul \/ c = NUL]

(* Characters are printed one after the other.                             *)
Printed(chars) ==
  LET after[n \in 0..Len(chars)] ==
        IF n = 0 THEN out ELSE dopr_outch(after[n - 1], chars[n])
  IN  after[Len(chars)]

Repeat(c, n) == [i \in 1..n |-> c]
AtLeast0(n) == IF n < 0 THEN 0 ELSE n
Larger(m, n) == IF m >= n THEN m ELSE n

(* The digits of u, last one first, as the loops of fmtint and fmtfp store *)
(* them: at least one, and no more than size - 1.                          *)
Convert(u, base, size, glyphs) ==
  LET digits[v \in 0..u] == << glyphs[(v % base) + 1] >>
                            \o (IF v \div base = 0 THEN <<>> ELSE digits[v \div base])
  IN  SubSeq(digits[u], 1, IF Len(digits[u]) < size THEN Len(digits[u]) ELSE size - 1)

Signed(negative, fl) ==
  IF negative THEN <<"-">>
  ELSE IF "+" \in fl THEN <<"+">> ELSE IF Blank \in fl THEN <<Blank>> ELSE <<>>

(* fmtstr: cnt counts all characters, padding too, against hi.             *)
fmtstr(value, fl, lo, hi) ==
  LET text == IF value = NUL THEN Null ELSE value
      pad  == Repeat(Blank, AtLeast0(Wrap(lo - Len(text))))
      all  == IF "-" \in fl THEN text \o pad ELSE pad \o text
  IN  SubSeq(all, 1, IF Len(all) < hi THEN Len(all) ELSE AtLeast0(hi))

fmtint(value, base, lo, hi, fl) ==
  LET negative == "unsigned" \notin fl /\ value < 0
      uvalue   == IF negative THEN -value ELSE value % LongMod
      sign     == IF "unsigned" \in fl THEN <<>> ELSE Signed(negative, fl)
      convert  == Convert(uvalue, base, 20, DigitChars \o (IF "up" \in fl THEN Upper ELSE Lower))
      z        == AtLeast0(AtLeast0(hi) - Len(convert))
      s        == AtLeast0(Wrap(lo - Larger(AtLeast0(hi), Len(convert)) - Len(sign)))
      zpadlen  == IF "0" \in fl THEN Larger(z, s) ELSE z
      spadlen  == IF "0" \in fl THEN 0 ELSE s
      spaces   == Repeat(Blank, spadlen)
      number   == sign \o Repeat("0", zpadlen) \o Reverse(convert)
  IN  IF "-" \in fl THEN number \o spaces ELSE spaces \o number

(* The size of iconvert and fconvert.                                      *)
FpSize == 311

(* my_modf: the whole part of a number, 0 when it finds none.              *)
my_modf(x) == IF x < ModfMax * FScale THEN x \div FScale ELSE 0

POW10[exp \in 0..16] == IF exp = 0 THEN 1 ELSE 10 * POW10[exp - 1]

(* A number to the nearest LLONG.  What is too large for one is converted  *)
(* to the smallest, which is then far below the number and is incremented; *)
(* incrementing the largest gives the smallest.                            *)
ROUND(value) ==
  LET intpart == IF value \div FScale > LongMax THEN -(LongMax + 1) ELSE value \div FScale
  IN  Wrap(intpart + (IF value - intpart * FScale >= (FScale + 1) \div 2 THEN 1 ELSE 0))

(* What the digits of a negative number become: the index goes down from 0 *)
(* and leaves the string of digits.                                        *)
Negative == <<"0", "0">> \o BeforeDigits

(* The end of fmtfp: sign, digits (last one first) and padding.            *)
PrintFp(sign, iconvert, fconvert, prec, lo, fl) ==
  LET padlen == AtLeast0(Wrap(lo - Len(iconvert) - prec - 1 - Len(sign)))
      zeros  == "0" \in fl /\ "-" \notin fl /\ padlen > 0
      front  == IF "-" \in fl THEN sign
                ELSE IF zeros THEN sign \o Repeat("0", padlen - Len(sign))
                ELSE Repeat(Blank, padlen) \o sign
      point  == IF prec > 0 THEN <<".">> \o Reverse(fconvert) ELSE <<>>
      back   == Repeat("0", AtLeast0(prec - Len(fconvert)))
                \o (IF "-" \in fl THEN Repeat(Blank, padlen) ELSE <<>>)
  IN  front \o Reverse(iconvert) \o point \o back

fmtfp(fvalue, lo, hi, fl) ==
  LET prec     == IF hi < 0 THEN 6 ELSE IF hi > 16 THEN 16 ELSE hi
      ufvalue  == IF fvalue < 0 THEN -fvalue ELSE fvalue
      intpart  == my_modf(ufvalue)
      rounded  == ROUND(POW10[prec] * (ufvalue - intpart * FScale))
      carry    == IF rounded >= POW10[prec] THEN 1 ELSE 0
      fracpart == rounded - carry * POW10[prec]
      iconvert == Convert(intpart + carry, 10, FpSize, DigitChars)
      fconvert == IF fracpart = 0 THEN <<>>
                  ELSE IF fracpart > 0 THEN Convert(fracpart, 10, FpSize, DigitChars)
                  ELSE Convert(-fracpart, 10, FpSize, Negative)
  IN  PrintFp(Signed(fvalue < 0, fl), iconvert, fconvert, prec, lo, fl)

-----------------------------------------------------------------------------
(* The states of dopr.  A format that ends stops it in any of them.        *)
Reading(s) == state = s /\ Ch # NUL

Next1 == pos' = pos + 1

Default ==
  /\ Reading("DEFAULT") /\ Next1
  /\ IF Ch = "%" THEN state' = "FLAGS" /\ UNCHANGED out
     ELSE out' = Printed(<<Ch>>) /\ UNCHANGED state
  /\ UNCHANGED <<call, maxlen, args, flags, cflags, min, max, num>>

Flags ==
  /\ Reading("FLAGS")
  /\ IF Ch \in {"-", "+", Blank, "#", "0"}
     THEN flags' = flags \cup {Ch} /\ Next1 /\ UNCHANGED state
     ELSE state' = "MIN" /\ UNCHANGED <<flags, pos>>
  /\ UNCHANGED <<call, maxlen, args, cflags, min, max, out, num>>

(* The width; "*" takes it from the arguments.                             *)
Width ==
  /\ Reading("MIN")
  /\ \/ IsDigit(Ch) /\ min' = Wrap(10 * min + char_to_int(Ch)) /\ Next1
        /\ UNCHANGED <<args, state>>
     \/ Ch = "*" /\ Passes("*") /\ min' = Arg /\ args' = Tail(args) /\ Next1 /\ state' = "DOT"
     \/ ~IsDigit(Ch) /\ Ch # "*" /\ state' = "DOT" /\ UNCHANGED <<args, min, pos>>
  /\ UNCHANGED <<call, maxlen, flags, cflags, max, out, num>>

Dot ==
  /\ Reading("DOT")
  /\ IF Ch = "." THEN state' = "MAX" /\ Next1 ELSE state' = "MOD" /\ UNCHANGED pos
  /\ UNCHANGED <<call, maxlen, args, flags, cflags, min, max, out, num>>

(* The precision; a point without one leaves it at -1.                     *)
Precision ==
  /\ Reading("MAX")
  /\ \/ IsDigit(Ch) /\ max' = Wrap(10 * AtLeast0(max) + char_to_int(Ch)) /\ Next1
        /\ UNCHANGED <<args, state>>
     \/ Ch = "*" /\ Passes("*") /\ max' = Arg /\ args' = Tail(args) /\ Next1 /\ state' = "MOD"
     \/ ~IsDigit(Ch) /\ Ch # "*" /\ state' = "MOD" /\ UNCHANGED <<args, max, pos>>
  /\ UNCHANGED <<call, maxlen, flags, cflags, min, out, num>>

Modifier ==
  /\ Reading("MOD")
  /\ LET ll == Ch = "l" /\ pos < Len(call.format) /\ call.format[pos + 1] = "l" IN
       /\ cflags' = IF ll THEN "ll" ELSE IF Ch \in {"h", "l", "L"} THEN Ch ELSE cflags
       /\ pos' = pos + (IF ll THEN 2 ELSE IF Ch \in {"h", "l", "L"} THEN 1 ELSE 0)
  /\ state' = "CONV"
  /\ UNCHANGED <<call, maxlen, args, flags, min, max, out, num>>

-----------------------------------------------------------------------------
(* A conversion reads its argument (all of them are of one width, so the   *)
(* modifier makes no difference), prints, and gets ready for the next      *)
(* directive.                                                              *)
ConvInt ==
  /\ Ch \in {"d", "i", "o", "u", "x", "X"} /\ Passes(Ch)
  /\ LET fl   == flags \cup (IF Ch \in {"d", "i"} THEN {} ELSE {"unsigned"})
                       \cup (IF Ch = "X" THEN {"up"} ELSE {})
         base == CASE Ch = "o" -> 8 [] Ch \in {"x", "X"} -> 16 [] OTHER -> 10
     IN  out' = Printed(fmtint(Arg, base, min, max, fl))
  /\ args' = Tail(args) /\ UNCHANGED num

ConvFloat ==
  /\ Ch = "f" /\ Passes(Ch)
  /\ out' = Printed(fmtfp(Arg, min, max, flags))
  /\ args' = Tail(args) /\ UNCHANGED num

(* These take their argument and print nothing.                            *)
ConvExponent ==
  /\ Ch \in {"E", "e", "G", "g"} /\ Passes(Ch)
  /\ args' = Tail(args) /\ UNCHANGED <<out, num>>

ConvChar ==
  /\ Ch = "c" /\ Passes(Ch)
  /\ out' = Printed(<<Arg>>)
  /\ args' = Tail(args) /\ UNCHANGED num

(* Without a precision the length of the string is taken, before the test  *)
(* for a null pointer in fmtstr; the width overrules a smaller precision.  *)
ConvString ==
  /\ Ch = "s" /\ Passes(Ch)
  /\ max = -1 => Arg # NUL
  /\ LET hi == IF max = -1 THEN Len(Arg) ELSE max
     IN  out' = Printed(fmtstr(Arg, flags, min,
                             IF min > 0 /\ hi >= 0 /\ min > hi THEN min ELSE hi))
  /\ args' = Tail(args) /\ UNCHANGED num

(* A pointer is printed as a signed number.                                *)
ConvPointer ==
  /\ Ch = "p" /\ Passes(Ch)
  /\ out' = Printed(fmtint(Arg, 16, min, max, flags))
  /\ args' = Tail(args) /\ UNCHANGED num

ConvCount ==
  /\ Ch = "n" /\ Passes(Ch)
  /\ num' = out.len
  /\ args' = Tail(args) /\ UNCHANGED out

ConvPercent ==
  /\ Ch = "%"
  /\ out' = Printed(<<Ch>>)
  /\ UNCHANGED <<args, num>>

(* "w" swallows the character behind it, anything else only itself.  At    *)
(* the end of a format that is the '\0', and dopr reads on behind it.      *)
ConvOther ==
  /\ Ch \notin {"d", "i", "o", "u", "x", "X", "f", "E", "e", "G", "g", "c", "s", "p", "n", "%"}
  /\ UNCHANGED <<args, out, num>>

(* A bug in dopr: the precision of a directive is still there in the next. *)
ConvKeepsMax ==
  /\ Reading("CONV")
  /\ \/ ConvInt \/ ConvFloat \/ ConvExponent \/ ConvChar \/ ConvString
     \/ ConvPointer \/ ConvCount \/ ConvPercent \/ ConvOther
  /\ pos' = pos + (IF Ch = "w" THEN 2 ELSE 1)
  /\ state' = "DEFAULT" /\ flags' = {} /\ cflags' = "" /\ min' = 0
  /\ UNCHANGED <<call, maxlen, max>>

Conv ==
  /\ Reading("CONV")
  /\ \/ ConvInt \/ ConvFloat \/ ConvExponent \/ ConvChar \/ ConvString
     \/ ConvPointer \/ ConvCount \/ ConvPercent \/ ConvOther
  /\ pos' = pos + (IF Ch = "w" THEN 2 ELSE 1)
  /\ state' = "DEFAULT" /\ flags' = {} /\ cflags' = "" /\ min' = 0 /\ max' = -1
  /\ UNCHANGED <<call, maxlen>>

(* The end of the format: the output is terminated.                        *)
Done ==
  /\ state # "DONE" /\ Ch = NUL
  /\ state' = "DONE"
  /\ out' = IF maxlen = 0 THEN out
            ELSE [out EXCEPT !.data =
                    Stored(@, IF out.len < maxlen - 1 THEN out.len ELSE maxlen - 1, NUL)]
  /\ UNCHANGED <<call, maxlen, args, pos, flags, cflags, min, max, num>>

(* vasprintf formats a second time, into memory of the size it measured,   *)
(* unless there is nothing to print or no such size; malloc may also fail, *)
(* and ends it.                                                            *)
vasprintf ==
  /\ call.entry = "asprintf" /\ state = "DONE"
  /\ maxlen = 0 /\ out.len > 0 /\ out.len # SizeMax
  /\ maxlen' = out.len + 1
  /\ args' = call.args
  /\ state' = "DEFAULT" /\ pos' = 1
  /\ flags' = {} /\ cflags' = "" /\ min' = 0 /\ max' = -1
  /\ out' = Nothing
  /\ UNCHANGED <<call, num>>

PrintfNext ==
  \/ Default \/ Flags \/ Width \/ Dot \/ Precision \/ Modifier \/ Conv \/ Done
  \/ vasprintf

PrintfSpec == PrintfInit /\ [][PrintfNext]_printfVars

-----------------------------------------------------------------------------
(* No byte is stored outside the buffer, and when dopr is done a string of *)
(* the right length is in it, however the output compares with the size:   *)
(* with no room at all, room for the terminator only, one byte too little. *)
(* Only a '\0' that is itself printed can end the string sooner: one given *)
(* to %c, or read in front of the digits by a %f whose fraction has more   *)
(* digits than a long.                                                     *)
StaysInBuffer ==
  /\ \A i \in DOMAIN out.data : i \in 0..maxlen - 1
  /\ (state = "DONE" /\ maxlen > 0) =>
       LET n == IF out.len < maxlen THEN out.len ELSE maxlen - 1
       IN  out.data[n] = NUL /\ (~out.nul => \A i \in 0..n - 1 : out.data[i] # NUL)

(* "C99 semantics": the value returned is the length of what the standard  *)
(* prescribes, the buffer has as much of it as fits, all of it in case of  *)
(* asprintf, whatever directives came before.  The calls for which ikaros  *)
(* differs from the standard have no expectation (see C99Format).          *)
AgreesWithC99 ==
  (state = "DONE" /\ call.expected # NUL) =>
    /\ out.len = Len(call.expected)
    /\ \A i \in 0..Len(call.expected) - 1 :
         i < maxlen - 1 => out.data[i] = call.expected[i + 1]
    /\ (call.entry = "asprintf" /\ maxlen > 0) => maxlen = Len(call.expected) + 1
=============================================================================
