------------------------------ MODULE MCPrintf ------------------------------
(* The calls of Printf for TLC: text, a directive of any kind, alone or    *)
(* behind one that uses every part, in buffers of several sizes.           *)
EXTENDS Printf

LongBits == 20

C == INSTANCE C99Format WITH Bits <- LongBits, Scale <- FScale, Largest <- ModfMax, Null <- NUL

MCChars ==
  Range(DigitChars) \cup Range(Lower) \cup Range(Upper) \cup Range(Null) \cup {Blank, "-", "+", ".", "*", "%", "#"}
    \cup {"i", "o", "u", "x", "p", "g", "G", "s", "n", "w", "y", "X", "h", "l", "q", "v", "z"}

Dec == <<"0", "1", "2", "3", "4", "5", "6", "7">>

(* The characters of a directive; a star takes the number from an argument *)
Render(d) ==
  <<"%">> \o SetToSeq(d.flags)
    \o (IF d.width = 0 THEN <<>> ELSE IF d.star THEN <<"*">> ELSE <<Dec[d.width + 1]>>)
    \o (IF d.prec < 0 THEN <<>> ELSE <<".">> \o (IF d.star THEN <<"*">> ELSE <<Dec[d.prec + 1]>>))
    \o d.mod2 \o <<d.conv>> \o (IF d.conv = "w" THEN <<"d">> ELSE <<>>)

Arguments(d, v) ==
  (IF d.star /\ d.width > 0 THEN << <<"*", d.width>> >> ELSE <<>>)
    \o (IF d.star /\ d.prec >= 0 THEN << <<"*", d.prec>> >> ELSE <<>>)
    \o (IF d.conv \in {"%", "w", "y"} THEN <<>> ELSE << <<d.conv, v>> >>)

Directive(fl, w, p, s, m, c) ==
  [flags |-> fl, width |-> w, prec |-> p, star |-> s, mod |-> m, conv |-> c,
   mod2 |-> CASE m = "" -> <<>> [] m = "ll" -> <<"l", "l">> [] OTHER -> <<m>>]

FlagSets == {{}, {"-"}, {"0"}, {"+"}, {Blank}, {"0", "+"}, {"-", "+"}, {"-", "0"}}
Widths == {0, 6}
Precs == {-1, 0, 2, 3}

(* Which argument goes with which conversion: numbers of 20 bits, whole    *)
(* multiples of 1 / FScale, strings.  With six digits the fractions 0.96   *)
(* and 0.99 are too large for a long; 15 is too large for my_modf.         *)
Samples ==
  (({"d", "u", "x"} \X {0, 7, 45, -524288, 524287}) \cup ({"o", "X", "p", "i"} \X {-6, 100}))
    \cup ({"f"} \X {0, 5, -250, 996, 199, 1500})
    \cup ({"s"} \X {<<>>, <<"a", "b", "c">>, <<"v", "w", "x", "y", "z">>, NUL})
    \cup ({"c"} \X {"q", NUL}) \cup ({"e", "E", "g", "G"} \X {5}) \cup ({"n", "%", "w", "y"} \X {0})

Directives ==
  {<<Directive(fl, w, p, FALSE, "", s[1]), s[2]>> :
      fl \in FlagSets, w \in Widths, p \in Precs, s \in Samples}
  \cup {<<Directive({}, 6, 2, TRUE, "", s[1]), s[2]>> : s \in Samples}
  \cup {<<Directive({"#"}, 0, -1, FALSE, m, "x"), 10>> : m \in {"h", "l", "ll", "L"}}

(* A null pointer without a precision is read before it is tested.         *)
Usable == {ds \in Directives : ds[1].conv = "s" /\ ds[2] = NUL => ds[1].prec >= 0}

(* The directive before the one under test.                                *)
First == Directive({"+"}, 6, 3, FALSE, "l", "d")
FirstText == C!Expected(First, 9)

CallOf(entry, size, ds, first) ==
  [entry    |-> entry, size |-> size,
   format   |-> (IF first THEN Render(First) ELSE <<"<">>) \o Render(ds[1]) \o <<">">>,
   args     |-> (IF first THEN << <<"d", 9>> >> ELSE <<>>) \o Arguments(ds[1], ds[2]),
   expected |-> IF C!Differs(ds[1], ds[2]) THEN NUL
                ELSE (IF first THEN FirstText ELSE <<"<">>)
                       \o C!Expected(ds[1], ds[2]) \o <<">">>]

(* What may lie in front of the digits: the string "<NULL>".               *)
MCBeforeDigits == <<NUL>> \o Reverse(Null) \o <<NUL>>

(* A width that wraps around to 2, one of more characters than a size_t    *)
(* counts, and a format that ends in "%w", with more behind it.            *)
WideFormat == <<"%", "1", "0", "4", "8", "5", "7", "8", "d">>
LongFormat == <<"%", "7", "0", "d">>
PastFormat == <<"a", "%", "w", NUL, "y", "z", NUL>>

MCCalls ==
  {CallOf("snprintf", n, ds, FALSE) : n \in {1, 4}, ds \in Usable}
  \cup {CallOf(e, 0, ds, TRUE) : e \in {"printf", "asprintf"}, ds \in Usable}
  \cup {CallOf("sprintf", 0, ds, FALSE) : ds \in {d \in Usable : d[1].flags = {}}}
  \cup {[entry |-> "asprintf", size |-> 0, format |-> f, args |-> <<>>, expected |-> <<>>] :
          f \in {<<>>, <<"%", "0">>, <<"%", "l">>}}
  \cup {[entry |-> e, size |-> 2, format |-> PastFormat, args |-> <<>>, expected |-> NUL] :
          e \in {"snprintf", "asprintf"}}
  \cup {[entry |-> e, size |-> 0, format |-> f, args |-> << <<"d", 5>> >>, expected |-> NUL] :
          e \in {"sprintf", "asprintf"}, f \in {WideFormat, LongFormat}}
=============================================================================
