------------------------------ MODULE Console -------------------------------
(***************************************************************************)
(* The text console of kernel/kernel/console/console.c: a screen of cells  *)
(* written character by character, with escape sequences for colours and   *)
(* for the rest of a line.                                                 *)
(*                                                                         *)
(* console_putch, console_write and putchar all come down to               *)
(* __console_putch, followed by a redraw that changes none of this state.  *)
(* No handler writes to the console and threads are not preempted.         *)
(***************************************************************************)
EXTENDS Integers, Sequences, SequencesExt

CONSTANTS
  columns, rows,
  Glyphs,         \* the letters written outside escape sequences
  Digits,         \* the digits used in escape sequences
  EscapeSize,     \* bytes of escape_code_sequence, and of escape_code_parameter behind it
  IntMod,         \* 2^32: the numbers of an int
  Garbage,        \* what atoi may make of a parameter that was copied over itself
  MaxEscape,      \* bound: bytes of an escape sequence
  MaxScrolled,    \* bound: lines scrolled off the screen
  MaxColours      \* bound: different attributes at a time

ASSUME ConsoleAssumption ==
  /\ {columns, rows} \subseteq Nat \ {0}
  /\ Digits \subseteq {"1", "2", "3", "4"}
  /\ EscapeSize \in Nat \ (0..2) /\ IntMod \in Nat \ {0} /\ Garbage \in (SUBSET Int) \ {{}}
  /\ {MaxEscape, MaxScrolled, MaxColours} \subseteq Nat

Space == " "

ESC == "ESC"
NL  == "NL"

(* The bytes 64..126, which end an escape sequence.                        *)
Finals == {"[", "K", "m"} \cup Glyphs

(* What atoi adds for a byte: its distance from '0', digit or not.         *)
DigitValue(d) ==
  CASE d = "1" -> 1 [] d = "2" -> 2 [] d = "3" -> 3 [] d = "4" -> 4 [] d = NL -> -38

VARIABLES
  buffer,      \* console->buffer: cells [ch, attrs]
  row, column, \* the position of the next character; row = rows: scroll first
  attrs,       \* the colours [fg, bg]
  escape,      \* escape_code_sequence up to escape_code_length, and on into the parameter
  overrun,     \* the fields behind them (the length, buffer, ops) were written over
  scrolled     \* history: the lines that left the screen, oldest first

vars == <<buffer, row, column, attrs, escape, overrun, scrolled>>

Cells == 0..rows * columns - 1

Cell(ch) == [ch |-> ch, attrs |-> attrs]

(* __console_initialize: light grey on black.                              *)
Init ==
  /\ attrs = [fg |-> 7, bg |-> 0]
  /\ buffer = [i \in Cells |-> Cell(Space)]
  /\ row = 0 /\ column = 0
  /\ escape = <<>>
  /\ overrun = FALSE
  /\ scrolled = <<>>

-----------------------------------------------------------------------------
console_ansi_to_vga(c) == <<0, 4, 2, 6, 1, 5, 3, 7>>[c + 1]

(* One parameter of an SGR sequence.                                       *)
console_sgr_consume_parameter(a, value) ==
  CASE value \in 30..37 -> [a EXCEPT !.fg = console_ansi_to_vga(value - 30)]
    [] value \in 40..47 -> [a EXCEPT !.bg = console_ansi_to_vga(value - 40)]
    [] value = 1        -> [a EXCEPT !.fg = IF @ < 8 THEN @ + 8 ELSE @]
    [] value = 22       -> [a EXCEPT !.fg = @ % 8]
    [] OTHER            -> a

console_parameter_terminator(sequence) == SelectInSeq(sequence, LAMBDA c : c \in {";", "m"})

(* atoi, one byte further: numbers wrap around as an int does.             *)
atoi(res, c) == ((10 * res + DigitValue(c) + IntMod \div 2) % IntMod) - IntMod \div 2

(* Parameters from left to right; atoi turns whatever stands between two   *)
(* separators into a number.                                               *)
Consumed(parameters) ==
  LET Read(s, c) ==
        IF c \notin {";", "m"} THEN [s EXCEPT !.value = atoi(@, c)]
        ELSE [attrs |-> console_sgr_consume_parameter(s.attrs, s.value), value |-> 0]
  IN  FoldLeft(Read, [attrs |-> attrs, value |-> 0], parameters).attrs

(* A parameter is copied to escape_code_parameter, which is cleared first: *)
(* of a sequence that reaches into it, what lies there is lost to all but  *)
(* the first parameter.  If that one reaches into it, the copy overlaps    *)
(* itself and its value is not defined, and if it is longer than there is  *)
(* room, the copy runs on over what lies behind.                           *)
console_sgr(sequence) ==
  LET first == console_parameter_terminator(sequence)
      last  == IF first > EscapeSize THEN first ELSE EscapeSize
  IN  /\ overrun' = (Len(sequence) > 2 * EscapeSize \/ first - 3 > EscapeSize)
      /\ IF first <= EscapeSize + 1
         THEN attrs' = Consumed(SubSeq(sequence, 3, IF Len(sequence) < last THEN Len(sequence) ELSE last))
         ELSE \E value \in Garbage : attrs' = console_sgr_consume_parameter(attrs, value)

Index(r, c) == r * columns + c

(* A bug in console_clear_to_end_of_line: no test for a cursor below the   *)
(* last line.                                                              *)
ClearBelow ==
  /\ buffer' = [i \in Cells |-> IF i \div columns = row /\ i % columns >= column
                                THEN Cell(Space) ELSE buffer[i]]
  /\ row' = row + 1
  /\ column' = 0

(* The rest of the line is cleared, and the cursor goes to the next one.   *)
console_clear_to_end_of_line ==
  IF row = rows THEN UNCHANGED <<buffer, row, column>>
  ELSE /\ buffer' = [i \in Cells |-> IF i \div columns = row /\ i % columns >= column
                                     THEN Cell(Space) ELSE buffer[i]]
       /\ row' = row + 1
       /\ column' = 0

Line(b, r) == [c \in 0..columns - 1 |-> b[Index(r, c)].ch]

(* A bug in __console_putch: the line that scrolls in is not cleared.      *)
ScrolledDirty ==
  IF row < rows THEN buffer
  ELSE [i \in Cells |-> IF i + columns \in Cells THEN buffer[i + columns] ELSE buffer[i]]

(* The screen moves up before a character that would fall below it.        *)
Scrolled ==
  IF row < rows THEN buffer
  ELSE [i \in Cells |-> IF i + columns \in Cells THEN buffer[i + columns] ELSE Cell(Space)]

RowNow == IF row = rows THEN row - 1 ELSE row

(* A character outside an escape sequence.                                 *)
WriteChar(c) ==
  /\ row = rows => Len(scrolled) < MaxScrolled
  /\ scrolled' = IF row = rows THEN Append(scrolled, Line(buffer, 0)) ELSE scrolled
  /\ IF c = NL
     THEN /\ buffer' = Scrolled
          /\ row' = RowNow + 1
          /\ column' = 0
     ELSE /\ buffer' = [Scrolled EXCEPT ![Index(RowNow, column)] = Cell(c)]
          /\ IF column + 1 = columns
             THEN row' = RowNow + 1 /\ column' = 0
             ELSE row' = RowNow /\ column' = column + 1
  /\ UNCHANGED <<attrs, escape, overrun>>

(* A character inside an escape sequence, stored without a test for room.  *)
(* One that is stored over the length ends the model, unless it also ends  *)
(* the sequence, which sets the length anew.                               *)
EscapeChar(c) ==
  /\ UNCHANGED scrolled
  /\ IF Len(escape) = 1
     THEN /\ escape' = IF c = "[" THEN Append(escape, c) ELSE <<>>
          /\ UNCHANGED <<buffer, row, column, attrs, overrun>>
     ELSE IF c \in Finals
     THEN /\ escape' = <<>>
          /\ IF c = "m" THEN console_sgr(Append(escape, c)) ELSE UNCHANGED <<attrs, overrun>>
          /\ IF c = "K" THEN console_clear_to_end_of_line
             ELSE UNCHANGED <<buffer, row, column>>
     ELSE /\ escape' = Append(escape, c)
          /\ overrun' = (Len(escape) = 2 * EscapeSize)
          /\ UNCHANGED <<buffer, row, column, attrs>>

__console_putch(c) ==
  IF c = ESC
  THEN escape' = <<ESC>> /\ UNCHANGED <<buffer, row, column, attrs, overrun, scrolled>>
  ELSE IF escape # <<>> THEN EscapeChar(c) ELSE WriteChar(c)

Colours(b, a) == {b[i].attrs : i \in Cells} \cup {a}

(* What is written: text, and escape sequences of any form.                *)
Next ==
  /\ ~overrun
  /\ \/ \E c \in Glyphs \cup {ESC, NL} : __console_putch(c)
     \/ \E c \in Digits \cup {"[", ";", "K", "m"} : escape # <<>> /\ __console_putch(c)
  /\ Len(escape') <= MaxEscape
  /\ Cardinality(Colours(buffer', attrs')) <= MaxColours

Spec == Init /\ [][Next]_vars

-----------------------------------------------------------------------------
(* The cursor is on the screen, or in the first column below it when a     *)
(* scroll is due, whatever was written: no character is stored outside the *)
(* buffer, until an escape sequence too long for its array has overwritten *)
(* the fields behind it, the pointer to the buffer among them.             *)
CursorInBounds ==
  /\ row \in 0..rows /\ column \in 0..columns - 1
  /\ row = rows => column = 0

(* The screen with what has left it is the roll of paper of Terminal.      *)
Paper ==
  scrolled
    \o [r \in 1..RowNow + 1 |-> Line(buffer, r - 1)]
    \o (IF row = rows THEN << [c \in 0..columns - 1 |-> Space] >> ELSE <<>>)

T == INSTANCE Terminal WITH paper <- Paper, position <- column

(* The console implements Terminal: scrolling and wrapping lose no line    *)
(* and leave no stale character on a new one, escape sequences write       *)
(* nothing, also when they are cut short by another or by garbage, or are  *)
(* longer than their array, until one overruns the fields behind it.       *)
ImplementsTerminal == T!Spec
=============================================================================
