---------------------------- MODULE ConsoleProofs ---------------------------
(***************************************************************************)
(* The way of a text to the screen.  For every screen size and every text: *)
(* the console stores characters inside its buffer only, and implements    *)
(* Terminal; for every font and framebuffer, the screen shows what is in   *)
(* the buffer.  For every format: printf and its variants store characters *)
(* inside the buffer they are given, and terminate it.                     *)
(***************************************************************************)
EXTENDS Display, Printf, SequenceTheorems, WellFoundedInduction, TLAPS

(* The step a character takes: the cursor moves on, to the next line, or   *)
(* stays; it leaves the screen through the bottom only, into column 0.     *)
LEMMA CursorMoves ==
  ASSUME CursorInBounds, NEW c, __console_putch(c)
  PROVE  CursorInBounds'
<1>1. columns \in Nat \ {0} /\ rows \in Nat \ {0}
  BY ConsoleAssumption
<1>2. row \in 0..rows /\ column \in 0..columns - 1 /\ (row = rows => column = 0)
  BY DEF CursorInBounds
<1>3. CASE UNCHANGED <<row, column>>
  BY <1>2, <1>3 DEF CursorInBounds
<1>4. CASE row # rows /\ row' = row + 1 /\ column' = 0
  BY <1>1, <1>2, <1>4 DEF CursorInBounds
<1>5. CASE WriteChar(c)
  <2>1. RowNow \in 0..rows - 1
    BY <1>1, <1>2 DEF RowNow
  <2>2. \/ row' = RowNow + 1 /\ column' = 0
        \/ row' = RowNow /\ column' = column + 1 /\ column + 1 # columns
    BY <1>5 DEF WriteChar
  <2> QED BY <1>1, <1>2, <2>1, <2>2 DEF CursorInBounds
<1>6. CASE EscapeChar(c)
  <2>1. UNCHANGED <<row, column>> \/ console_clear_to_end_of_line
    BY <1>6 DEF EscapeChar
  <2>2. ASSUME console_clear_to_end_of_line
        PROVE  UNCHANGED <<row, column>> \/ (row # rows /\ row' = row + 1 /\ column' = 0)
    BY <2>2 DEF console_clear_to_end_of_line
  <2> QED BY <1>3, <1>4, <2>1, <2>2
<1>7. UNCHANGED <<row, column>> \/ EscapeChar(c) \/ WriteChar(c)
  BY DEF __console_putch
<1> QED BY <1>3, <1>5, <1>6, <1>7

(* Whatever is written, the cursor stays on the screen or waits below it   *)
(* for a scroll, up to an escape sequence that overruns the fields behind  *)
(* its array (__console_putch of console.c).                               *)
THEOREM ConsoleCorrect == Spec => []CursorInBounds
<1>1. Init => CursorInBounds
  BY ConsoleAssumption DEF Init, CursorInBounds
<1>2. CursorInBounds /\ [Next]_vars => CursorInBounds'
  BY CursorMoves DEF Next, vars, CursorInBounds
<1> QED BY <1>1, <1>2, PTL DEF Spec

(* The cell __console_putch writes to exists.                              *)
THEOREM WritesInBuffer ==
  ASSUME CursorInBounds PROVE Index(RowNow, column) \in Cells
<1>1. columns \in Nat \ {0} /\ rows \in Nat \ {0}
  BY ConsoleAssumption
<1>2. RowNow \in 0..rows - 1 /\ column \in 0..columns - 1
  BY <1>1 DEF RowNow, CursorInBounds
<1> DEFINE r == RowNow
<1>3. r * columns \in Nat /\ r * columns <= (rows - 1) * columns
  BY <1>1, <1>2
<1>4. (rows - 1) * columns = rows * columns - columns /\ rows * columns \in Nat
  BY <1>1
<1> HIDE DEF r
<1>5. r * columns + column \in 0..rows * columns - 1
  BY <1>1, <1>2, <1>3, <1>4
<1> QED BY <1>5 DEF r, Index, Cells

-----------------------------------------------------------------------------
(* The paper.  The cells from the cursor on are blank: this is why a new   *)
(* line starts empty, and why clearing the rest of a line changes nothing  *)
(* but colours.                                                            *)

Text == Glyphs \cup {Space}
Lines == [0..columns - 1 -> Text]
BlankLine == [c \in 0..columns - 1 |-> Space]

BufferOK(b) == DOMAIN b = Cells /\ \A i \in Cells : b[i].ch \in Text

BlankFrom(b, n) == \A i \in Cells : i >= n => b[i].ch = Space

PaperInv ==
  /\ CursorInBounds
  /\ BufferOK(buffer) /\ scrolled \in Seq(Lines)
  /\ BlankFrom(buffer, Index(row, column))

(* The paper of Terminal when the lines s have left the screen, b is on it *)
(* and r is the current line; the line below the screen is blank.          *)
LineIn(s, b, k) ==
  IF k <= Len(s) THEN s[k]
  ELSE IF k <= Len(s) + rows THEN Line(b, k - Len(s) - 1) ELSE BlankLine

PaperOf(s, b, r) == [k \in 1..Len(s) + r + 1 |-> LineIn(s, b, k)]

LEMMA Size == columns \in Nat \ {0} /\ rows \in Nat \ {0} /\ rows * columns \in Nat
  BY ConsoleAssumption

LEMMA FunctionIsSeq ==
  ASSUME NEW S, NEW n \in Nat, NEW f \in [1..n -> S]
  PROVE  f \in Seq(S) /\ Len(f) = n
  OBVIOUS

(* Where the cells of a line lie.                                          *)
LEMMA CellOf ==
  ASSUME NEW r \in 0..rows - 1, NEW c \in 0..columns - 1
  PROVE  /\ Index(r, c) \in Cells /\ Index(r, c) < (r + 1) * columns
         /\ r * columns <= Index(r, c) /\ (r + 1) * columns <= rows * columns
         /\ Index(r + 1, c) = Index(r, c) + columns
  <1>1. columns \in Nat \ {0} /\ rows \in Nat \ {0}
    BY Size
  <1>2. r * columns \in Nat /\ (r + 1) * columns = r * columns + columns
    BY <1>1
  <1>3. (r + 1) * columns <= rows * columns /\ rows * columns \in Nat
    BY <1>1
  <1> DEFINE x == r * columns
             y == (r + 1) * columns
             z == rows * columns
  <1>4. /\ x + c \in 0..z - 1 /\ x + c < y /\ x <= x + c /\ y <= z /\ y + c = x + c + columns
    <2> HIDE DEF x, y, z
    <2>1. x \in Nat /\ z \in Nat /\ y = x + columns /\ y <= z
      BY <1>2, <1>3 DEF x, y, z
    <2> QED
      BY <1>1, <2>1
  <1> QED
    BY <1>4 DEF Index, Cells

LEMMA CellsDiffer ==
  ASSUME NEW r \in 0..rows - 1, NEW c \in 0..columns - 1,
         NEW s \in 0..rows - 1, NEW d \in 0..columns - 1, Index(r, c) = Index(s, d)
  PROVE  r = s /\ c = d
  <1>1. columns \in Nat \ {0} /\ rows \in Nat \ {0}
    BY Size
  <1>2. r * columns + c = s * columns + d
    BY DEF Index
  <1> QED
    BY <1>1, <1>2

LEMMA LineType ==
  ASSUME NEW b, BufferOK(b), NEW r \in 0..rows - 1
  PROVE  Line(b, r) \in Lines
  BY CellOf DEF BufferOK, Line, Lines

LEMMA BlankType == BlankLine \in Lines
  BY DEF BlankLine, Lines, Text

LEMMA PaperType ==
  ASSUME NEW s \in Seq(Lines), NEW b, BufferOK(b), NEW r \in 0..rows
  PROVE  PaperOf(s, b, r) \in Seq(Lines) /\ Len(PaperOf(s, b, r)) = Len(s) + r + 1
  <1>1. Len(s) \in Nat /\ \A k \in 1..Len(s) : s[k] \in Lines
    BY LenProperties, ElementOfSeq
  <1>2. rows \in Nat \ {0} /\ Len(s) + r + 1 \in Nat
    BY <1>1, Size
  <1>3. ASSUME NEW k \in 1..Len(s) + r + 1 PROVE LineIn(s, b, k) \in Lines
    <2>1. CASE k <= Len(s)
      BY <1>1, <2>1 DEF LineIn
    <2>2. CASE k > Len(s) /\ k <= Len(s) + rows
      <3>1. k - Len(s) - 1 \in 0..rows - 1
        BY <1>1, <1>2, <2>2
      <3> QED
        BY <1>1, <1>2, <2>2, <3>1, LineType DEF LineIn
    <2>3. CASE k > Len(s) + rows
      BY <1>1, <1>2, <2>3, BlankType DEF LineIn
    <2> QED
      BY <1>1, <1>2, <2>1, <2>2, <2>3
  <1>4. PaperOf(s, b, r) \in [1..Len(s) + r + 1 -> Lines]
    BY <1>3 DEF PaperOf
  <1> QED
    BY <1>2, <1>4, FunctionIsSeq

(* The paper of the refinement mapping, line by line.                      *)
LEMMA PaperLines ==
  ASSUME NEW s \in Seq(Lines), NEW b, BufferOK(b), NEW r \in 0..rows
  PROVE  s \o [k \in 1..(IF r = rows THEN r - 1 ELSE r) + 1 |-> Line(b, k - 1)]
           \o (IF r = rows THEN << [c \in 0..columns - 1 |-> Space] >> ELSE <<>>)
         = PaperOf(s, b, r)
  <1> DEFINE m == (IF r = rows THEN r - 1 ELSE r) + 1
             screen == [k \in 1..m |-> Line(b, k - 1)]
             below == IF r = rows THEN <<BlankLine>> ELSE <<>>
             n == Len(s)
  <1>1. n \in Nat /\ rows \in Nat \ {0} /\ r \in Nat /\ r <= rows
    BY LenProperties, Size
  <1>2. m \in 1..rows /\ (r = rows => m = rows) /\ (r # rows => m = r + 1)
    BY <1>1
  <1>3. screen \in Seq(Lines) /\ Len(screen) = m /\ \A k \in 1..m : screen[k] = Line(b, k - 1)
    <2> HIDE DEF m
    <2>1. \A k \in 1..m : Line(b, k - 1) \in Lines
      BY <1>1, <1>2, LineType
    <2>2. screen \in [1..m -> Lines] /\ m \in Nat
      BY <1>2, <2>1
    <2> QED
      BY <2>2, FunctionIsSeq
  <1>4. below \in Seq(Lines) /\ Len(below) = (IF r = rows THEN 1 ELSE 0)
        /\ (r = rows => below[1] = BlankLine)
    BY BlankType
  <1> HIDE DEF m, screen, below, n
  <1>5. /\ s \o screen \in Seq(Lines) /\ Len(s \o screen) = n + m
        /\ \A k \in 1..n + m : (s \o screen)[k] = IF k <= n THEN s[k] ELSE screen[k - n]
    BY <1>3, ConcatProperties DEF n
  <1>6. /\ (s \o screen) \o below \in Seq(Lines)
        /\ Len((s \o screen) \o below) = n + m + Len(below)
        /\ \A k \in 1..n + m + Len(below) :
             ((s \o screen) \o below)[k] =
               IF k <= n + m THEN (s \o screen)[k] ELSE below[k - (n + m)]
    <2> DEFINE u == s \o screen
    <2> HIDE DEF u
    <2>1. u \in Seq(Lines) /\ Len(u) = n + m
      BY <1>5 DEF u
    <2>2. /\ u \o below \in Seq(Lines) /\ Len(u \o below) = Len(u) + Len(below)
          /\ \A k \in 1..Len(u) + Len(below) :
               (u \o below)[k] = IF k <= Len(u) THEN u[k] ELSE below[k - Len(u)]
      BY <1>4, <2>1, ConcatProperties
    <2>3. /\ u \o below \in Seq(Lines) /\ Len(u \o below) = n + m + Len(below)
          /\ \A k \in 1..n + m + Len(below) :
               (u \o below)[k] = IF k <= n + m THEN u[k] ELSE below[k - (n + m)]
      BY <2>1, <2>2
    <2> QED
      BY <2>3 DEF u
  <1>7. n + m + Len(below) = n + r + 1
    BY <1>1, <1>2, <1>4
  <1>8. PaperOf(s, b, r) \in Seq(Lines) /\ Len(PaperOf(s, b, r)) = n + r + 1
    BY PaperType DEF n
  <1>9. ASSUME NEW k \in 1..n + r + 1
        PROVE  ((s \o screen) \o below)[k] = LineIn(s, b, k)
    <2>1. CASE k <= n
      <3>1. k \in 1..n + m /\ k \in 1..n + m + Len(below)
        BY <1>1, <1>2, <1>7, <2>1
      <3> QED
        BY <1>1, <1>2, <1>5, <1>6, <2>1, <3>1 DEF LineIn, n
    <2>2. CASE k > n /\ k <= n + m
      <3>1. k \in 1..n + m /\ k \in 1..n + m + Len(below) /\ k - n \in 1..m /\ k <= n + rows
        BY <1>1, <1>2, <1>7, <2>2
      <3>2. ((s \o screen) \o below)[k] = Line(b, k - n - 1)
        BY <1>1, <1>2, <1>3, <1>5, <1>6, <2>2, <3>1
      <3> QED
        BY <1>1, <2>2, <3>1, <3>2 DEF LineIn, n
    <2>3. CASE k > n + m
      <3>1. r = rows /\ k = n + rows + 1 /\ m = rows
        BY <1>1, <1>2, <2>3
      <3>2. ((s \o screen) \o below)[k] = below[1]
        BY <1>1, <1>6, <1>7, <2>3, <3>1
      <3>3. LineIn(s, b, k) = BlankLine
        BY <1>1, <3>1 DEF LineIn, n
      <3> QED
        BY <1>4, <3>1, <3>2, <3>3
    <2>4. n \in Nat /\ m \in Nat /\ k \in Nat
      BY <1>1, <1>2
    <2>5. k <= n \/ (k > n /\ k <= n + m) \/ k > n + m
      BY <2>4
    <2> QED
      BY <2>1, <2>2, <2>3, <2>5
  <1>10. \A k \in 1..n + r + 1 : PaperOf(s, b, r)[k] = LineIn(s, b, k)
    BY DEF PaperOf, n
  <1>11. (s \o screen) \o below = PaperOf(s, b, r)
    BY <1>6, <1>7, <1>8, <1>9, <1>10, SeqEqual
  <1> QED
    BY <1>11 DEF screen, below, m, BlankLine

(* A new line: the next one on the screen is blank, and so is the one      *)
(* below it.                                                               *)
LEMMA LineAdded ==
  ASSUME NEW s \in Seq(Lines), NEW b, BufferOK(b), NEW r \in 0..rows - 1,
         BlankFrom(b, Index(r + 1, 0))
  PROVE  PaperOf(s, b, r + 1) = Append(PaperOf(s, b, r), BlankLine)
  <1> DEFINE n == Len(s) + r + 1
             p == PaperOf(s, b, r)
             q == PaperOf(s, b, r + 1)
  <1>1. Len(s) \in Nat /\ rows \in Nat \ {0} /\ columns \in Nat \ {0} /\ r \in Nat /\ r < rows
    BY LenProperties, Size
  <1>2. p \in Seq(Lines) /\ Len(p) = n /\ q \in Seq(Lines) /\ Len(q) = n + 1
    <2>1. r \in 0..rows /\ r + 1 \in 0..rows /\ Len(s) + (r + 1) + 1 = n + 1
      BY <1>1
    <2> QED
      BY <2>1, PaperType
  <1>3. n \in Nat /\ \A k \in 1..n : p[k] = LineIn(s, b, k) /\ q[k] = LineIn(s, b, k)
    BY <1>1 DEF PaperOf
  <1>4. q[n + 1] = LineIn(s, b, n + 1)
    BY <1>1 DEF PaperOf
  <1>5. LineIn(s, b, n + 1) = BlankLine
    <2>1. CASE r + 1 = rows
      BY <1>1, <2>1 DEF LineIn
    <2>2. CASE r + 1 < rows
      <3>1. LineIn(s, b, n + 1) = Line(b, r + 1)
        BY <1>1, <2>2 DEF LineIn
      <3>2. ASSUME NEW c \in 0..columns - 1
            PROVE  b[Index(r + 1, c)].ch = Space
        <4>1. /\ Index(r + 1, c) \in Cells /\ (r + 1) * columns <= Index(r + 1, c)
          BY <1>1, <2>2, CellOf
        <4>2. Index(r + 1, 0) = (r + 1) * columns
          BY <1>1 DEF Index
        <4> QED
          BY <4>1, <4>2 DEF BlankFrom
      <3> QED
        BY <3>1, <3>2 DEF Line, BlankLine
    <2> QED
      BY <1>1, <2>1, <2>2
  <1> HIDE DEF n, p, q
  <1>6. /\ Append(p, BlankLine) \in Seq(Lines) /\ Len(Append(p, BlankLine)) = n + 1
        /\ \A k \in 1..n : Append(p, BlankLine)[k] = p[k]
        /\ Append(p, BlankLine)[n + 1] = BlankLine
    BY <1>2, BlankType, AppendProperties
  <1>7. \A k \in 1..n + 1 : k \in 1..n \/ k = n + 1
    BY <1>3
  <1>8. \A k \in 1..n + 1 : q[k] = Append(p, BlankLine)[k]
    BY <1>3, <1>4, <1>5, <1>6, <1>7
  <1>9. q = Append(p, BlankLine)
    BY <1>2, <1>6, <1>8, SeqEqual
  <1> QED
    BY <1>9 DEF p, q

(* The lines that have left the screen once __console_putch has made room. *)
Gone == IF row = rows THEN Append(scrolled, Line(buffer, 0)) ELSE scrolled

(* The screen moves up: every line but the first is where the next one     *)
(* was, and the last one is blank.                                         *)
LEMMA MovesUp ==
  ASSUME BufferOK(buffer), row = rows
  PROVE  /\ BufferOK(Scrolled)
         /\ \A r \in 0..rows - 1 : r + 1 < rows => Line(Scrolled, r) = Line(buffer, r + 1)
         /\ Line(Scrolled, rows - 1) = BlankLine
         /\ BlankFrom(Scrolled, Index(rows - 1, 0))
  <1> DEFINE z == rows * columns
             x == (rows - 1) * columns
  <1>1. columns \in Nat \ {0} /\ rows \in Nat \ {0} /\ z \in Nat /\ Cells = 0..z - 1
    BY Size DEF Cells
  <1>2. x \in Nat /\ x + columns = z
    BY <1>1
  <1> HIDE DEF x, z
  <1>3. /\ DOMAIN Scrolled = Cells
        /\ \A i \in Cells : i + columns \in Cells => Scrolled[i] = buffer[i + columns]
        /\ \A i \in Cells : i + columns \notin Cells => Scrolled[i].ch = Space
    BY <1>1 DEF Scrolled, Cell
  <1>4. BufferOK(Scrolled)
    BY <1>3 DEF BufferOK, Text
  <1>5. ASSUME NEW i \in Cells, i >= x PROVE Scrolled[i].ch = Space
    <2>1. i + columns \notin Cells
      BY <1>1, <1>2, <1>5
    <2> QED
      BY <1>3, <2>1
  <1>6. ASSUME NEW r \in 0..rows - 1, r + 1 < rows PROVE Line(Scrolled, r) = Line(buffer, r + 1)
    <2>1. ASSUME NEW c \in 0..columns - 1
          PROVE  Scrolled[Index(r, c)].ch = buffer[Index(r + 1, c)].ch
      <3>1. Index(r, c) \in Cells /\ Index(r + 1, c) = Index(r, c) + columns
        BY CellOf
      <3>2. r + 1 \in 0..rows - 1
        BY <1>1, <1>6
      <3>3. Index(r + 1, c) \in Cells
        BY <3>2, CellOf
      <3> QED
        BY <1>3, <3>1, <3>3
    <2> QED
      BY <2>1 DEF Line
  <1>7. Line(Scrolled, rows - 1) = BlankLine
    <2>1. rows - 1 \in 0..rows - 1
      BY <1>1
    <2>2. \A c \in 0..columns - 1 : Index(rows - 1, c) \in Cells /\ x <= Index(rows - 1, c)
      BY <2>1, CellOf DEF x
    <2>3. \A i \in Cells : i \in Nat
      BY <1>1
    <2>4. \A c \in 0..columns - 1 : Scrolled[Index(rows - 1, c)].ch = Space
      BY <1>2, <1>5, <2>2, <2>3
    <2> QED
      BY <2>4 DEF Line, BlankLine
  <1>8. BlankFrom(Scrolled, Index(rows - 1, 0))
    <2>1. Index(rows - 1, 0) = x
      BY <1>1, <1>2 DEF Index, x
    <2> QED
      BY <1>5, <2>1 DEF BlankFrom
  <1> QED
    BY <1>4, <1>6, <1>7, <1>8

(* Making room loses no line and changes none.                             *)
LEMMA RoomMade ==
  ASSUME PaperInv
  PROVE  /\ RowNow \in 0..rows - 1 /\ Gone \in Seq(Lines) /\ BufferOK(Scrolled)
         /\ BlankFrom(Scrolled, Index(RowNow, column))
         /\ PaperOf(Gone, Scrolled, RowNow) = PaperOf(scrolled, buffer, row)
  <1>1. /\ CursorInBounds /\ BufferOK(buffer) /\ scrolled \in Seq(Lines)
        /\ BlankFrom(buffer, Index(row, column))
        /\ row \in 0..rows /\ (row = rows => column = 0)
    BY DEF PaperInv, CursorInBounds
  <1>2. rows \in Nat \ {0} /\ columns \in Nat \ {0} /\ Len(scrolled) \in Nat
    BY <1>1, Size, LenProperties
  <1>3. CASE row # rows
    <2>1. Gone = scrolled /\ RowNow = row /\ Scrolled = buffer /\ row \in 0..rows - 1
      BY <1>1, <1>2, <1>3 DEF Gone, RowNow, Scrolled
    <2> QED
      BY <1>1, <2>1
  <1>4. CASE row = rows
    <2> DEFINE n == Len(scrolled)
               first == Line(buffer, 0)
               gone == Append(scrolled, first)
    <2>1. /\ Gone = gone /\ RowNow = rows - 1 /\ RowNow \in 0..rows - 1 /\ column = 0
      BY <1>1, <1>2, <1>4 DEF Gone, RowNow
    <2>2. first \in Lines
      BY <1>1, <1>2, LineType
    <2>3. /\ gone \in Seq(Lines) /\ Len(gone) = n + 1
          /\ (\A k \in 1..n : gone[k] = scrolled[k]) /\ gone[n + 1] = first
      BY <1>1, <2>2, AppendProperties
    <2>4. /\ BufferOK(Scrolled) /\ BlankFrom(Scrolled, Index(rows - 1, 0))
          /\ \A r \in 0..rows - 1 : r + 1 < rows => Line(Scrolled, r) = Line(buffer, r + 1)
          /\ Line(Scrolled, rows - 1) = BlankLine
      BY <1>1, <1>4, MovesUp
    <2>5. n \in Nat /\ Len(gone) + RowNow + 1 = n + row + 1
      BY <1>2, <1>4, <2>1, <2>3
    <2> HIDE DEF n, first, gone
    <2>6. ASSUME NEW k \in 1..n + row + 1
          PROVE  LineIn(gone, Scrolled, k) = LineIn(scrolled, buffer, k)
      <3>1. CASE k <= n
        BY <1>2, <2>3, <2>5, <3>1 DEF LineIn, n
      <3>2. CASE k = n + 1
        <4>1. LineIn(gone, Scrolled, k) = first
          BY <2>3, <2>5, <3>2 DEF LineIn
        <4>2. LineIn(scrolled, buffer, k) = first
          BY <1>2, <2>5, <3>2 DEF LineIn, n, first
        <4> QED
          BY <4>1, <4>2
      <3>3. CASE k > n + 1 /\ k <= n + rows
        <4> DEFINE r == k - n - 2
        <4>1. r \in 0..rows - 1 /\ r + 1 < rows /\ r + 1 = k - n - 1 /\ r = k - (n + 1) - 1
          BY <1>2, <2>5, <3>3
        <4>2. LineIn(gone, Scrolled, k) = Line(Scrolled, r)
          BY <1>2, <2>3, <2>5, <3>3, <4>1 DEF LineIn
        <4>3. LineIn(scrolled, buffer, k) = Line(buffer, r + 1)
          BY <1>2, <2>5, <3>3, <4>1 DEF LineIn, n
        <4> HIDE DEF r
        <4> QED
          BY <2>4, <4>1, <4>2, <4>3
      <3>4. CASE k = n + rows + 1
        <4>1. LineIn(gone, Scrolled, k) = Line(Scrolled, rows - 1)
          BY <1>2, <2>3, <2>5, <3>4 DEF LineIn
        <4>2. LineIn(scrolled, buffer, k) = BlankLine
          BY <1>2, <2>5, <3>4 DEF LineIn, n
        <4> QED
          BY <2>4, <4>1, <4>2
      <3> QED
        BY <1>2, <1>4, <2>5, <3>1, <3>2, <3>3, <3>4
    <2>7. PaperOf(Gone, Scrolled, RowNow) = PaperOf(scrolled, buffer, row)
      BY <2>1, <2>5, <2>6 DEF PaperOf, n
    <2> QED
      BY <2>1, <2>3, <2>4, <2>7
  <1> QED
    BY <1>3, <1>4

(* A character in the current line, which is the last one.                 *)
Written(p, col, g) == [p EXCEPT ![Len(p)][col] = g]

LEMMA CharPut ==
  ASSUME NEW s \in Seq(Lines), NEW b, BufferOK(b), NEW r \in 0..rows - 1,
         NEW col \in 0..columns - 1, BlankFrom(b, Index(r, col)), NEW g \in Glyphs,
         NEW b2, DOMAIN b2 = Cells, b2[Index(r, col)].ch = g,
         \A i \in Cells : i # Index(r, col) => b2[i] = b[i]
  PROVE  /\ BufferOK(b2) /\ BlankFrom(b2, Index(r, col) + 1)
         /\ PaperOf(s, b2, r) = Written(PaperOf(s, b, r), col, g)
  <1> DEFINE here == Index(r, col)
             n == Len(s) + r + 1
             p == PaperOf(s, b, r)
             q == PaperOf(s, b2, r)
  <1>1. rows \in Nat \ {0} /\ columns \in Nat \ {0} /\ Len(s) \in Nat /\ r \in Nat /\ r < rows
    BY Size, LenProperties
  <1>2. here \in Cells /\ Cells \subseteq Int
    BY CellOf, Size DEF Cells
  <1>3. /\ DOMAIN b2 = Cells /\ b2[here].ch = g
        /\ \A i \in Cells : i # here => b2[i] = b[i]
    BY <1>2 DEF BufferOK
  <1>4. BufferOK(b2)
    BY <1>3 DEF BufferOK, Text
  <1> HIDE DEF here
  <1>5. BlankFrom(b2, here + 1)
    <2> SUFFICES ASSUME NEW i \in Cells, i >= here + 1 PROVE b2[i].ch = Space
      BY DEF BlankFrom
    <2>1. i >= here /\ i # here
      BY <1>2
    <2> QED
      BY <1>3, <2>1 DEF BlankFrom, here
  <1>6. Line(b2, r) = [Line(b, r) EXCEPT ![col] = g]
    <2>1. ASSUME NEW c \in 0..columns - 1
          PROVE  b2[Index(r, c)].ch = IF c = col THEN g ELSE b[Index(r, c)].ch
      <3>1. CASE c = col
        BY <1>3, <3>1 DEF here
      <3>2. CASE c # col
        <4>1. Index(r, c) \in Cells /\ Index(r, c) # here
          BY <3>2, CellOf, CellsDiffer DEF here
        <4> QED
          BY <1>3, <3>2, <4>1
      <3> QED
        BY <3>1, <3>2
    <2> QED
      BY <2>1 DEF Line
  <1>7. ASSUME NEW t \in 0..rows - 1, t # r PROVE Line(b2, t) = Line(b, t)
    <2>1. ASSUME NEW c \in 0..columns - 1
          PROVE  b2[Index(t, c)].ch = b[Index(t, c)].ch
      <3>1. Index(t, c) \in Cells /\ Index(t, c) # here
        BY <1>7, CellOf, CellsDiffer DEF here
      <3> QED
        BY <1>3, <3>1
    <2> QED
      BY <2>1 DEF Line
  <1>8. /\ p \in Seq(Lines) /\ Len(p) = n /\ q \in Seq(Lines) /\ Len(q) = n
        /\ n \in Nat \ {0}
    <2>1. r \in 0..rows
      BY <1>1
    <2> QED
      BY <1>1, <1>4, <2>1, PaperType
  <1>9. /\ p = [k \in 1..n |-> LineIn(s, b, k)]
        /\ q = [k \in 1..n |-> LineIn(s, b2, k)]
    BY DEF PaperOf
  <1>10. LineIn(s, b, n) = Line(b, r) /\ LineIn(s, b2, n) = Line(b2, r)
    BY <1>1 DEF LineIn
  <1>11. ASSUME NEW k \in 1..n, k # n PROVE LineIn(s, b2, k) = LineIn(s, b, k)
    <2>1. CASE k <= Len(s)
      BY <2>1 DEF LineIn
    <2>2. CASE k > Len(s)
      <3> DEFINE t == k - Len(s) - 1
      <3>1. t \in 0..rows - 1 /\ t # r /\ k <= Len(s) + rows /\ ~(k <= Len(s))
        BY <1>1, <1>11, <2>2
      <3>2. LineIn(s, b, k) = Line(b, t) /\ LineIn(s, b2, k) = Line(b2, t)
        BY <3>1 DEF LineIn
      <3> HIDE DEF t
      <3> QED
        BY <1>7, <3>1, <3>2
    <2> QED
      BY <1>1, <2>1, <2>2
  <1> HIDE DEF n, p, q
  <1>12. q = [p EXCEPT ![n] = [p[n] EXCEPT ![col] = g]]
    <2>1. n \in 1..n /\ DOMAIN p = 1..n /\ p[n] = Line(b, r)
      BY <1>8, <1>9, <1>10
    <2>2. \A k \in 1..n : q[k] = IF k = n THEN [p[n] EXCEPT ![col] = g] ELSE p[k]
      BY <1>6, <1>9, <1>10, <1>11, <2>1
    <2>3. DOMAIN q = 1..n
      BY <1>9
    <2> QED
      BY <1>9, <2>1, <2>2, <2>3
  <1>13. q = Written(p, col, g)
    BY <1>8, <1>12 DEF Written
  <1> QED
    BY <1>4, <1>5, <1>13 DEF here, p, q

-----------------------------------------------------------------------------
(* What is written, as seen on the paper.                                  *)

LEMMA PaperNow ==
  ASSUME PaperInv
  PROVE  Paper = PaperOf(scrolled, buffer, row)
  <1>1. BufferOK(buffer) /\ scrolled \in Seq(Lines) /\ row \in 0..rows
    BY DEF PaperInv, CursorInBounds
  <1> QED
    BY <1>1, PaperLines DEF Paper, RowNow

LEMMA PaperNext ==
  ASSUME PaperInv'
  PROVE  Paper' = PaperOf(scrolled', buffer', row')
  <1>1. BufferOK(buffer') /\ scrolled' \in Seq(Lines) /\ row' \in 0..rows
    BY DEF PaperInv, CursorInBounds
  <1> QED
    BY <1>1, PaperLines DEF Paper, RowNow

LEMMA WriteStep ==
  ASSUME PaperInv, NEW c \in Glyphs \cup {NL}, WriteChar(c)
  PROVE  PaperInv' /\ [T!Next]_T!vars
  <1> DEFINE p == PaperOf(Gone, Scrolled, RowNow)
  <1>1. /\ RowNow \in 0..rows - 1 /\ Gone \in Seq(Lines) /\ BufferOK(Scrolled)
        /\ BlankFrom(Scrolled, Index(RowNow, column)) /\ Paper = p
    BY RoomMade, PaperNow
  <1>2. /\ rows \in Nat \ {0} /\ columns \in Nat \ {0} /\ scrolled' = Gone
        /\ CursorInBounds /\ column \in 0..columns - 1
    BY Size DEF WriteChar, Gone, PaperInv, CursorInBounds
  <1>3. /\ Index(RowNow, 0) = RowNow * columns /\ Index(RowNow, column) = RowNow * columns + column
        /\ Index(RowNow + 1, 0) = RowNow * columns + columns /\ RowNow * columns \in Nat
        /\ Cells \subseteq Int
    BY <1>1, <1>2, Size DEF Index, Cells
  <1>4. CASE c = NL
    <2>1. buffer' = Scrolled /\ row' = RowNow + 1 /\ column' = 0
      BY <1>4 DEF WriteChar
    <2>2. BlankFrom(Scrolled, Index(RowNow + 1, 0))
      BY <1>1, <1>2, <1>3 DEF BlankFrom
    <2>3. CursorInBounds'
      BY <1>1, <1>2, <2>1 DEF CursorInBounds
    <2>4. PaperInv'
      BY <1>1, <1>2, <2>1, <2>2, <2>3 DEF PaperInv
    <2>5. Paper' = Append(p, BlankLine)
      BY <1>1, <1>2, <2>1, <2>2, <2>4, LineAdded, PaperNext
    <2>6. T!Newline
      BY <1>1, <2>1, <2>5 DEF T!Newline, T!Blank, BlankLine
    <2> QED
      BY <2>4, <2>6 DEF T!Next
  <1>5. CASE c # NL
    <2> DEFINE marked == PaperOf(Gone, buffer', RowNow)
    <2>1. /\ buffer' = [Scrolled EXCEPT ![Index(RowNow, column)] = Cell(c)]
          /\ c \in Glyphs /\ Cell(c).ch = c
      BY <1>5 DEF WriteChar, Cell
    <2>2. /\ BufferOK(buffer') /\ BlankFrom(buffer', Index(RowNow, column) + 1)
          /\ marked = Written(p, column, c)
      <3>1. Index(RowNow, column) \in Cells /\ DOMAIN Scrolled = Cells
        BY <1>1, <1>2, CellOf DEF BufferOK
      <3>2. /\ DOMAIN buffer' = Cells /\ buffer'[Index(RowNow, column)].ch = c
            /\ \A i \in Cells : i # Index(RowNow, column) => buffer'[i] = Scrolled[i]
        BY <2>1, <3>1
      <3>3. PICK gone, b, r, col, b2 :
              gone = Gone /\ b = Scrolled /\ r = RowNow /\ col = column /\ b2 = buffer'
        OBVIOUS
      <3>4. /\ gone \in Seq(Lines) /\ BufferOK(b) /\ r \in 0..rows - 1 /\ col \in 0..columns - 1
            /\ BlankFrom(b, Index(r, col)) /\ c \in Glyphs
            /\ DOMAIN b2 = Cells /\ b2[Index(r, col)].ch = c
            /\ \A i \in Cells : i # Index(r, col) => b2[i] = b[i]
        BY <1>1, <1>2, <2>1, <3>2, <3>3
      <3>5. /\ BufferOK(b2) /\ BlankFrom(b2, Index(r, col) + 1)
            /\ PaperOf(gone, b2, r) = Written(PaperOf(gone, b, r), col, c)
        BY <3>4, CharPut
      <3> QED
        BY <3>3, <3>5
    <2>3. marked = [Paper EXCEPT ![Len(Paper)][column] = c]
      BY <1>1, <2>2 DEF Written
    <2> HIDE DEF marked, p
    <2>4. CASE column + 1 = columns
      <3>1. row' = RowNow + 1 /\ column' = 0
        BY <1>5, <2>4 DEF WriteChar
      <3>2. Index(RowNow + 1, 0) = Index(RowNow, column) + 1
        BY <1>2, <1>3, <2>4
      <3>3. BlankFrom(buffer', Index(RowNow + 1, 0))
        BY <2>2, <3>2
      <3>4. CursorInBounds'
        BY <1>1, <1>2, <3>1 DEF CursorInBounds
      <3>5. PaperInv'
        BY <1>1, <1>2, <2>2, <3>1, <3>3, <3>4 DEF PaperInv
      <3>6. Paper' = Append(marked, BlankLine)
        BY <1>1, <1>2, <2>2, <3>1, <3>3, <3>5, LineAdded, PaperNext DEF marked
      <3>7. T!Put(c)
        BY <2>3, <2>4, <3>1, <3>6 DEF T!Put, T!Blank, BlankLine
      <3> QED
        BY <2>1, <3>5, <3>7 DEF T!Next
    <2>5. CASE column + 1 # columns
      <3>1. row' = RowNow /\ column' = column + 1
        BY <1>5, <2>5 DEF WriteChar
      <3>2. Index(RowNow, column + 1) = Index(RowNow, column) + 1
        BY <1>1, <1>2, <1>3 DEF Index
      <3>3. BlankFrom(buffer', Index(RowNow, column + 1))
        BY <2>2, <3>2
      <3>4. CursorInBounds'
        BY <1>1, <1>2, <2>5, <3>1 DEF CursorInBounds
      <3>5. PaperInv'
        BY <1>1, <1>2, <2>2, <3>1, <3>3, <3>4 DEF PaperInv
      <3>6. Paper' = marked
        BY <1>2, <3>1, <3>5, PaperNext DEF marked
      <3>7. T!Put(c)
        BY <2>3, <2>5, <3>1, <3>6 DEF T!Put
      <3> QED
        BY <2>1, <3>5, <3>7 DEF T!Next
    <2> QED
      BY <2>4, <2>5
  <1> QED
    BY <1>4, <1>5

(* The cells console_clear_to_end_of_line picks lie behind the cursor.     *)
LEMMA RestOfLine ==
  ASSUME NEW a \in Nat, NEW b \in Nat \ {0}, NEW q \in Nat, NEW c \in Nat,
         a \div b = q, a % b >= c
  PROVE  a >= q * b + c
  <1>1. a % b = a - b * (a \div b)
    OBVIOUS
  <1>2. a % b = a - b * q
    BY <1>1
  <1>3. b * q = q * b /\ q * b \in Nat
    OBVIOUS
  <1> DEFINE x == a % b
             y == q * b
  <1>4. x = a - y /\ x >= c /\ y \in Nat
    BY <1>2, <1>3
  <1> HIDE DEF x, y
  <1>5. a >= y + c
    BY <1>4
  <1> QED
    BY <1>5 DEF y

(* Escape sequences: only the one for the rest of the line does anything   *)
(* to the paper, it starts a new line.                                     *)
LEMMA ClearStep ==
  ASSUME PaperInv, console_clear_to_end_of_line, UNCHANGED scrolled
  PROVE  PaperInv' /\ [T!Next]_T!vars
  <1>1. /\ CursorInBounds /\ BufferOK(buffer) /\ scrolled \in Seq(Lines)
        /\ BlankFrom(buffer, Index(row, column)) /\ row \in 0..rows /\ column \in 0..columns - 1
    BY DEF PaperInv, CursorInBounds
  <1>2. columns \in Nat \ {0} /\ rows \in Nat \ {0} /\ Cells = 0..rows * columns - 1
    BY Size DEF Cells
  <1>3. CASE row = rows
    <2>1. UNCHANGED <<buffer, row, column, scrolled>>
      BY <1>3 DEF console_clear_to_end_of_line
    <2>2. PaperInv'
      BY <2>1 DEF PaperInv, CursorInBounds
    <2>3. UNCHANGED T!vars
      BY <2>1, <2>2, PaperNow, PaperNext DEF T!vars
    <2> QED
      BY <2>2, <2>3
  <1>4. CASE row # rows
    <2>1. /\ buffer' = [i \in Cells |-> IF i \div columns = row /\ i % columns >= column
                                        THEN Cell(Space) ELSE buffer[i]]
          /\ row' = row + 1 /\ column' = 0 /\ row \in 0..rows - 1
      BY <1>1, <1>2, <1>4 DEF console_clear_to_end_of_line
    <2>2. ASSUME NEW i \in Cells PROVE buffer'[i].ch = buffer[i].ch
      <3>1. CASE i \div columns = row /\ i % columns >= column
        <4>1. i \in Nat
          BY <1>2
        <4>2. i >= Index(row, column)
          <5>1. row \in Nat /\ column \in Nat /\ columns \in Nat \ {0}
            BY <1>1, <1>2
          <5>2. i >= row * columns + column
            BY <3>1, <4>1, <5>1, RestOfLine
          <5> QED
            BY <5>2 DEF Index
        <4>3. buffer[i].ch = Space
          BY <1>1, <4>2 DEF BlankFrom
        <4> QED
          BY <2>1, <3>1, <4>3 DEF Cell
      <3>2. CASE ~(i \div columns = row /\ i % columns >= column)
        BY <2>1, <3>2
      <3> QED
        BY <3>1, <3>2
    <2>3. BufferOK(buffer')
      BY <1>1, <2>1, <2>2 DEF BufferOK
    <2>4. BlankFrom(buffer, Index(row + 1, 0)) /\ BlankFrom(buffer', Index(row + 1, 0))
      <3>1. /\ Index(row + 1, 0) = row * columns + columns /\ row * columns \in Nat
            /\ Index(row, column) = row * columns + column
        BY <1>1, <1>2 DEF Index
      <3>2. \A i \in Cells : i >= Index(row + 1, 0) => i >= Index(row, column)
        BY <1>1, <1>2, <3>1
      <3> QED
        BY <1>1, <2>2, <3>2 DEF BlankFrom
    <2>5. CursorInBounds'
      BY <1>1, <1>2, <2>1 DEF CursorInBounds
    <2>6. PaperInv'
      BY <1>1, <2>1, <2>3, <2>4, <2>5 DEF PaperInv
    <2>7. PaperOf(scrolled, buffer', row + 1) = PaperOf(scrolled, buffer, row + 1)
      <3>1. \A r \in 0..rows - 1 : Line(buffer', r) = Line(buffer, r)
        BY <2>2, CellOf DEF Line
      <3>2. Len(scrolled) \in Nat
        BY <1>1, LenProperties
      <3>3. ASSUME NEW k \in Nat PROVE LineIn(scrolled, buffer', k) = LineIn(scrolled, buffer, k)
        <4>1. (k > Len(scrolled) /\ k <= Len(scrolled) + rows) => k - Len(scrolled) - 1 \in 0..rows - 1
          BY <1>2, <3>2
        <4> QED
          BY <1>2, <3>1, <3>2, <4>1 DEF LineIn
      <3> QED
        BY <3>2, <3>3 DEF PaperOf
    <2>8. Paper' = Append(Paper, BlankLine)
      BY <1>1, <2>1, <2>4, <2>6, <2>7, LineAdded, PaperNow, PaperNext
    <2>9. T!Newline
      BY <2>1, <2>8 DEF T!Newline, T!Blank, BlankLine
    <2> QED
      BY <2>6, <2>9 DEF T!Next
  <1> QED
    BY <1>3, <1>4

LEMMA SilentStep ==
  ASSUME PaperInv, UNCHANGED <<buffer, row, column, scrolled>>
  PROVE  PaperInv' /\ [T!Next]_T!vars
  <1>1. PaperInv'
    BY DEF PaperInv, CursorInBounds
  <1>2. UNCHANGED T!vars
    BY <1>1, PaperNow, PaperNext DEF T!vars
  <1> QED
    BY <1>1, <1>2

LEMMA EscapeStep ==
  ASSUME PaperInv, NEW c, EscapeChar(c)
  PROVE  PaperInv' /\ [T!Next]_T!vars
  <1>1. \/ UNCHANGED <<buffer, row, column, scrolled>>
        \/ console_clear_to_end_of_line /\ UNCHANGED scrolled
    BY DEF EscapeChar
  <1> QED
    BY <1>1, ClearStep, SilentStep

LEMMA InitPaper == Init => PaperInv /\ T!Init
  <1> SUFFICES ASSUME Init PROVE PaperInv /\ T!Init
    OBVIOUS
  <1>1. /\ buffer = [i \in Cells |-> Cell(Space)] /\ row = 0 /\ column = 0 /\ scrolled = <<>>
        /\ rows \in Nat \ {0} /\ columns \in Nat \ {0}
    BY Size DEF Init
  <1>2. \A i \in Cells : buffer[i].ch = Space
    BY <1>1 DEF Cell
  <1>3. PaperInv
    BY <1>1, <1>2, EmptySeq DEF PaperInv, CursorInBounds, BufferOK, BlankFrom, Text
  <1>4. PaperOf(<<>>, buffer, 0) = <<BlankLine>>
    <2>1. Line(buffer, 0) = BlankLine
      BY <1>1, <1>2, CellOf DEF Line, BlankLine
    <2>2. LineIn(<<>>, buffer, 1) = BlankLine
      BY <1>1, <2>1 DEF LineIn
    <2>3. PaperOf(<<>>, buffer, 0) = [k \in 1..1 |-> LineIn(<<>>, buffer, k)]
      BY DEF PaperOf
    <2> QED
      BY <2>2, <2>3
  <1> QED
    BY <1>1, <1>3, <1>4, PaperNow DEF T!Init, T!Blank, BlankLine

LEMMA PaperStep ==
  ASSUME PaperInv, [Next]_vars
  PROVE  PaperInv' /\ [T!Next]_T!vars
  <1>1. ASSUME NEW c, c \in Glyphs \cup {NL} \/ escape # <<>> \/ c = ESC, __console_putch(c)
        PROVE  PaperInv' /\ [T!Next]_T!vars
    <2>1. CASE c = ESC
      BY <1>1, <2>1, SilentStep DEF __console_putch
    <2>2. CASE c # ESC /\ escape # <<>>
      BY <1>1, <2>2, EscapeStep DEF __console_putch
    <2>3. CASE c # ESC /\ escape = <<>>
      <3>1. WriteChar(c) /\ c \in Glyphs \cup {NL}
        BY <1>1, <2>3 DEF __console_putch
      <3> QED
        BY <3>1, WriteStep
    <2> QED
      BY <2>1, <2>2, <2>3
  <1>2. CASE UNCHANGED vars
    BY <1>2, SilentStep DEF vars
  <1> QED
    BY <1>1, <1>2 DEF Next

(* The console implements Terminal, for every screen size, every text and  *)
(* every escape sequence: scrolling and wrapping lose no line and leave no *)
(* stale character on a new one, up to an escape sequence that overruns    *)
(* the fields behind its array.                                            *)
THEOREM TerminalRefinement == Spec => ImplementsTerminal
  <1>1. Init => PaperInv /\ T!Init
    BY InitPaper
  <1>2. PaperInv /\ [Next]_vars => PaperInv' /\ [T!Next]_T!vars
    BY PaperStep
  <1> QED
    BY <1>1, <1>2, PTL DEF Spec, ImplementsTerminal, T!Spec

-----------------------------------------------------------------------------
(* The screen.  A pixel is the pair of its column and its line; it belongs *)
(* to one cell, and its place in the framebuffer to no other pixel.        *)
Screen    == (0..GlyphWidth * columns - 1) \X (0..GlyphHeight * rows - 1)
Place(p)  == At(p[1], p[2])
CellAt(p) == Index(p[2] \div GlyphHeight, p[1] \div GlyphWidth)

LEMMA Splits ==
  ASSUME NEW w \in Nat \ {0}, NEW q \in Nat, NEW j \in 0..w - 1
  PROVE  w * q + j \in Nat /\ (w * q + j) \div w = q /\ (w * q + j) % w = j
<1>1. w * q \in Nat
  OBVIOUS
<1> QED BY <1>1

LEMMA Joins ==
  ASSUME NEW w \in Nat \ {0}, NEW n \in Nat
  PROVE  n \div w \in Nat /\ n % w \in 0..w - 1 /\ n = w * (n \div w) + (n % w)
OBVIOUS

LEMMA Below ==
  ASSUME NEW w \in Nat \ {0}, NEW m \in Nat \ {0}
  PROVE  /\ w * m \in Nat
         /\ \A n \in 0..w * m - 1 : n \in Nat /\ n \div w \in 0..m - 1
         /\ \A q \in 0..m - 1, j \in 0..w - 1 : w * q + j \in 0..w * m - 1
<1>1. w * m \in Nat
  OBVIOUS
<1>2. ASSUME NEW n \in 0..w * m - 1 PROVE n \in Nat /\ n \div w \in 0..m - 1
  <2>1. PICK q \in Nat, j \in 0..w - 1 : q = n \div w /\ n = w * q + j
    BY <1>1, Joins
  <2>2. ASSUME q >= m PROVE FALSE
    <3>1. w * q >= w * m
      BY <2>2
    <3> QED BY <1>1, <2>1, <3>1
  <2> QED BY <1>1, <2>1, <2>2
<1>3. ASSUME NEW q \in 0..m - 1, NEW j \in 0..w - 1 PROVE w * q + j \in 0..w * m - 1
  <2>1. w * q \in Nat /\ w * (q + 1) = w * q + w /\ w * (q + 1) <= w * m
    OBVIOUS
  <2> QED BY <1>1, <2>1
<1> QED BY <1>1, <1>2, <1>3

(* The fields of a framebuffer tag.                                        *)
Framebuffer == tag \in DOMAIN Tags /\ fb.type = "rgb"

LEMMA GlyphSize == GlyphWidth \in Nat \ {0} /\ GlyphHeight \in Nat \ {0}
BY DisplayAssumption

LEMMA FramebufferIs ==
  ASSUME Framebuffer
  PROVE  \E pitch \in Nat, ps \in Nat \ {0} :
           /\ pitch = fb.pitch /\ ps = PixelSize(fb)
           /\ GlyphWidth * columns \in Nat /\ (GlyphWidth * columns) * ps <= pitch
<1>1. /\ {fb.width, fb.height, fb.pitch} \subseteq Nat /\ fb.bpp \in Nat \ {0}
      /\ fb.width \div GlyphWidth = columns /\ fb.pitch >= fb.width * PixelSize(fb)
  BY DisplayAssumption DEF Framebuffer, fb
<1>2. PICK ps \in Nat \ {0} : ps = PixelSize(fb)
  BY <1>1 DEF PixelSize
<1>3. PICK wd \in Nat : wd = fb.width
  BY <1>1
<1>4. wd = GlyphWidth * columns + (wd % GlyphWidth) /\ wd % GlyphWidth \in Nat /\ GlyphWidth * columns \in Nat
  <2>1. PICK g \in Nat \ {0} : g = GlyphWidth
    BY GlyphSize
  <2>2. wd \div g = columns /\ columns \in Nat \ {0}
    BY <1>1, <1>3, <2>1, Size
  <2>3. wd = g * (wd \div g) + (wd % g) /\ wd % g \in Nat
    BY Joins
  <2>4. g * columns \in Nat
    BY <2>2
  <2> QED BY <2>1, <2>2, <2>3, <2>4
<1>5. PICK x \in Nat : x = GlyphWidth * columns
  BY <1>4
<1>6. x <= wd
  BY <1>4, <1>5
<1>7. x * ps <= wd * ps /\ wd * ps \in Nat /\ x * ps \in Nat
  BY <1>6
<1> QED BY <1>1, <1>2, <1>3, <1>4, <1>5, <1>7

LEMMA PlacesDiffer ==
  ASSUME Framebuffer, NEW p \in Screen, NEW q \in Screen, Place(p) = Place(q)
  PROVE  p = q
<1>1. PICK pitch \in Nat, ps \in Nat \ {0} :
        /\ pitch = fb.pitch /\ ps = PixelSize(fb)
        /\ GlyphWidth * columns \in Nat /\ (GlyphWidth * columns) * ps <= pitch
  BY FramebufferIs
<1>2. PICK wide \in Nat : wide = GlyphWidth * columns /\ wide * ps <= pitch
  BY <1>1
<1>3. PICK x \in Nat, y \in Nat, u \in Nat, v \in Nat : p = <<x, y>> /\ q = <<u, v>> /\ x < wide /\ u < wide
  <2>1. GlyphHeight * rows \in Nat
    BY GlyphSize, Size
  <2> QED BY <1>2, <2>1 DEF Screen
<1>4. pitch * y + x * ps = pitch * v + u * ps
  BY <1>1, <1>3 DEF Place, At
<1>5. PICK a \in Nat, b \in Nat : a = x * ps /\ b = u * ps
  OBVIOUS
<1>6. a < pitch /\ b < pitch
  <2>1. (x + 1) * ps <= wide * ps /\ (u + 1) * ps <= wide * ps
    BY <1>3
  <2>2. (x + 1) * ps = a + ps /\ (u + 1) * ps = b + ps
    BY <1>5
  <2> QED BY <1>2, <1>5, <2>1, <2>2
<1>7. y = v
  <2>1. PICK c \in Nat, d \in Nat : c = pitch * y /\ d = pitch * v
    OBVIOUS
  <2>2. c + a = d + b
    BY <1>4, <1>5, <2>1
  <2>3. ASSUME y < v PROVE FALSE
    <3>1. pitch * (y + 1) <= pitch * v /\ pitch * (y + 1) = c + pitch
      BY <2>1, <2>3
    <3> QED BY <1>6, <2>1, <2>2, <3>1
  <2>4. ASSUME v < y PROVE FALSE
    <3>1. pitch * (v + 1) <= pitch * y /\ pitch * (v + 1) = d + pitch
      BY <2>1, <2>4
    <3> QED BY <1>6, <2>1, <2>2, <3>1
  <2> QED BY <2>3, <2>4
<1>8. x = u
  <2>1. PICK c \in Nat : c = pitch * y
    OBVIOUS
  <2>2. a = b
    BY <1>4, <1>5, <1>7, <2>1
  <2> QED BY <1>5, <2>2
<1> QED BY <1>3, <1>7, <1>8

(* The pixels of the glyph in cell k, by line i and column j of the glyph. *)
PixelOf(k, i, j) == <<GlyphWidth * (k % columns) + j, GlyphHeight * (k \div columns) + i>>

LEMMA GlyphPixel ==
  ASSUME NEW k \in Cells, NEW i \in 0..GlyphHeight - 1, NEW j \in 0..GlyphWidth - 1
  PROVE  /\ PixelOf(k, i, j) \in Screen /\ CellAt(PixelOf(k, i, j)) = k
         /\ PixelOf(k, i, j)[1] % GlyphWidth = j /\ PixelOf(k, i, j)[2] % GlyphHeight = i
<1>1. PICK w \in Nat \ {0}, h \in Nat \ {0}, n \in Nat \ {0}, m \in Nat \ {0} :
        w = GlyphWidth /\ h = GlyphHeight /\ n = columns /\ m = rows
  BY GlyphSize, Size
<1>2. k \in Nat /\ k \in 0..n * m - 1 /\ i \in 0..h - 1 /\ j \in 0..w - 1
  BY <1>1 DEF Cells
<1>3. PICK c \in Nat, r \in Nat : c = k % n /\ r = k \div n
  <2>1. k \in Nat
    BY <1>2
  <2>2. k % n \in 0..n - 1 /\ k \div n \in Nat
    BY <2>1, Joins, Zenon
  <2> QED BY <2>2
<1>4. c \in 0..n - 1 /\ r \in 0..m - 1 /\ k = n * r + c
  BY <1>2, <1>3, Joins, Below
<1>5. PICK x, y : x = w * c + j /\ y = h * r + i
  OBVIOUS
<1>6. PixelOf(k, i, j) = <<x, y>>
  BY <1>1, <1>3, <1>5 DEF PixelOf
<1>7. x \in 0..w * n - 1 /\ y \in 0..h * m - 1
  BY <1>2, <1>4, <1>5, Below
<1>8. x \div w = c /\ x % w = j /\ y \div h = r /\ y % h = i
  BY <1>2, <1>3, <1>5, Splits
<1>9. r * n + c = k
  BY <1>4
<1> QED BY <1>1, <1>6, <1>7, <1>8, <1>9 DEF Screen, CellAt, Index

LEMMA PixelInGlyph ==
  ASSUME NEW p \in Screen
  PROVE  /\ CellAt(p) \in Cells
         /\ p[2] % GlyphHeight \in 0..GlyphHeight - 1 /\ p[1] % GlyphWidth \in 0..GlyphWidth - 1
         /\ p = PixelOf(CellAt(p), p[2] % GlyphHeight, p[1] % GlyphWidth)
<1>1. PICK w \in Nat \ {0}, h \in Nat \ {0}, n \in Nat \ {0}, m \in Nat \ {0} :
        w = GlyphWidth /\ h = GlyphHeight /\ n = columns /\ m = rows
  BY GlyphSize, Size
<1>2. PICK x, y : p = <<x, y>> /\ x \in 0..w * n - 1 /\ y \in 0..h * m - 1
  BY <1>1 DEF Screen
<1>3. x \in Nat /\ y \in Nat /\ x \div w \in 0..n - 1 /\ y \div h \in 0..m - 1
  BY <1>2, Below
<1>4. PICK c \in 0..n - 1, r \in 0..m - 1, i \in Nat, j \in Nat :
        c = x \div w /\ r = y \div h /\ i = y % h /\ j = x % w
  <2>1. x % w \in Nat /\ y % h \in Nat
    BY <1>3, Joins
  <2> QED BY <1>3, <2>1
<1>5. i \in 0..h - 1 /\ j \in 0..w - 1 /\ x = w * c + j /\ y = h * r + i
  BY <1>3, <1>4, Joins
<1>6. PICK k : k = r * n + c
  OBVIOUS
<1>7. k = n * r + c
  BY <1>6
<1>8. k \in 0..n * m - 1
  BY <1>7, Below
<1>9. k % n = c /\ k \div n = r
  BY <1>7, Splits
<1>10. CellAt(p) = k
  BY <1>1, <1>2, <1>4, <1>6 DEF CellAt, Index
<1>11. n * m = m * n
  OBVIOUS
<1> QED BY <1>1, <1>2, <1>4, <1>5, <1>8, <1>9, <1>10, <1>11 DEF PixelOf, Cells

(* The colour of a pixel when the buffer is b, and the framebuffer d after *)
(* the first n cells have been drawn.                                      *)
Dark(b, p)  == Bit(Font[b[CellAt(p)].ch][(p[2] % GlyphHeight) + 1], GlyphWidth - (p[1] % GlyphWidth))
Shade(b, p) == IF Dark(b, p) THEN Pair(b[CellAt(p)].attrs)[1] ELSE Pair(b[CellAt(p)].attrs)[2]

Covered(n) == {Place(p) : p \in {q \in Screen : CellAt(q) < n}}
Owner(a)   == CHOOSE p \in Screen : Place(p) = a
Sketch(d, b, n) ==
  [a \in DOMAIN d \cup Covered(n) |-> IF a \in Covered(n) THEN Shade(b, Owner(a)) ELSE d[a]]

LEMMA OwnerIs ==
  ASSUME Framebuffer, NEW p \in Screen PROVE Owner(Place(p)) = p
<1>1. Owner(Place(p)) \in Screen /\ Place(Owner(Place(p))) = Place(p)
  BY Zenon DEF Owner
<1> QED BY <1>1, PlacesDiffer

Pixels(k) == {Place(p) : p \in {q \in Screen : CellAt(q) = k}}
Painted(d, b, k) ==
  [a \in DOMAIN d \cup Pixels(k) |-> IF a \in Pixels(k) THEN Shade(b, Owner(a)) ELSE d[a]]

(* What the drawing of one cell does, pixel by pixel.                      *)
LEMMA DrawsCell ==
  ASSUME Framebuffer, NEW d, NEW b, NEW k \in Cells
  PROVE  fb_console_draw_cell(d, b, k) = Painted(d, b, k)
<1> DEFINE Box == (0..GlyphHeight - 1) \X (0..GlyphWidth - 1)
           Spot(q) == At(GlyphWidth * (k % columns) + q[2], GlyphHeight * (k \div columns) + q[1])
           Inked == {q \in Box : Bit(Font[b[k].ch][q[1] + 1], GlyphWidth - q[2])}
           Ink == {Spot(q) : q \in Inked}
           Whole == {Spot(q) : q \in Box}
           pr == Pair(b[k].attrs)
<1>1. fb_console_draw_cell(d, b, k) =
        [a \in DOMAIN d \cup Whole |-> IF a \in Ink THEN pr[1] ELSE IF a \in Whole THEN pr[2] ELSE d[a]]
  BY Zenon DEF fb_console_draw_cell, fb_console_draw_glyph
<1>2. ASSUME NEW q \in Box
      PROVE  \E p \in Screen :
               /\ CellAt(p) = k /\ Place(p) = Spot(q)
               /\ p[2] % GlyphHeight = q[1] /\ p[1] % GlyphWidth = q[2]
  <2>1. PICK i \in 0..GlyphHeight - 1, j \in 0..GlyphWidth - 1 : q = <<i, j>>
    OBVIOUS
  <2>2. PICK p : p = PixelOf(k, i, j)
    OBVIOUS
  <2>3. /\ p \in Screen /\ CellAt(p) = k
        /\ p[1] % GlyphWidth = j /\ p[2] % GlyphHeight = i
    BY <2>2, GlyphPixel
  <2>4. Place(p) = Spot(q)
    BY <2>1, <2>2 DEF Place, PixelOf
  <2> QED BY <2>1, <2>3, <2>4
<1>3. ASSUME NEW p \in Screen, CellAt(p) = k
      PROVE  \E q \in Box : /\ Place(p) = Spot(q)
                            /\ p[2] % GlyphHeight = q[1] /\ p[1] % GlyphWidth = q[2]
  <2>1. PICK i \in 0..GlyphHeight - 1, j \in 0..GlyphWidth - 1 :
          i = p[2] % GlyphHeight /\ j = p[1] % GlyphWidth
    BY PixelInGlyph
  <2>2. p = PixelOf(k, i, j)
    BY <1>3, <2>1, PixelInGlyph
  <2>3. Place(p) = Spot(<<i, j>>) /\ <<i, j>> \in Box
    BY <2>2 DEF Place, PixelOf
  <2> QED BY <2>1, <2>3
<1>4. Whole = Pixels(k)
  <2> HIDE DEF Box, Spot
  <2> QED BY <1>2, <1>3 DEF Pixels
<1>5. ASSUME NEW a \in Pixels(k)
      PROVE  Shade(b, Owner(a)) = IF a \in Ink THEN pr[1] ELSE pr[2]
  <2>1. PICK p \in Screen : CellAt(p) = k /\ a = Place(p)
    BY DEF Pixels
  <2>2. Owner(a) = p
    BY <2>1, OwnerIs
  <2>3. PICK q \in Box : Place(p) = Spot(q) /\ p[2] % GlyphHeight = q[1] /\ p[1] % GlyphWidth = q[2]
    BY <1>3, <2>1
  <2>4. ASSUME NEW z \in Box, Spot(z) = a PROVE z = q
    <3>1. PICK u \in Screen : CellAt(u) = k /\ Place(u) = Spot(z)
                              /\ u[2] % GlyphHeight = z[1] /\ u[1] % GlyphWidth = z[2]
      BY <1>2
    <3>2. u = p
      BY <2>1, <2>4, <3>1, PlacesDiffer
    <3> HIDE DEF Spot
    <3> QED BY <2>3, <3>1, <3>2
  <2>5. a \in Ink <=> q \in Inked
    <3> HIDE DEF Box, Spot
    <3> QED BY <2>1, <2>3, <2>4
  <2>6. q \in Inked <=> Dark(b, p)
    BY <2>1, <2>3, Zenon DEF Dark
  <2>7. Shade(b, p) = IF Dark(b, p) THEN pr[1] ELSE pr[2]
    BY <2>1, Zenon DEF Shade
  <2> HIDE DEF Ink, Inked, pr
  <2> QED BY <2>2, <2>5, <2>6, <2>7
<1>6. [a \in DOMAIN d \cup Whole |-> IF a \in Ink THEN pr[1] ELSE IF a \in Whole THEN pr[2] ELSE d[a]]
      = [a \in DOMAIN d \cup Pixels(k) |-> IF a \in Pixels(k) THEN Shade(b, Owner(a)) ELSE d[a]]
  <2>1. Ink \subseteq Whole
    OBVIOUS
  <2> HIDE DEF Ink, Whole, pr
  <2> QED BY <1>4, <1>5, <2>1
<1> HIDE DEF Ink, Whole, pr
<1> QED BY <1>1, <1>6, Zenon DEF Painted

LEMMA SketchStep ==
  ASSUME Framebuffer, NEW d, NEW b, NEW k \in Cells
  PROVE  Sketch(d, b, k + 1) = fb_console_draw_cell(Sketch(d, b, k), b, k)
<1>1. PICK s : s = Sketch(d, b, k)
  OBVIOUS
<1>2. fb_console_draw_cell(s, b, k) = Painted(s, b, k)
  BY DrawsCell
<1>3. Painted(s, b, k) =
        [a \in DOMAIN s \cup Pixels(k) |-> IF a \in Pixels(k) THEN Shade(b, Owner(a)) ELSE s[a]]
  BY Zenon DEF Painted
<1>4. Covered(k + 1) = Covered(k) \cup Pixels(k)
  <2>1. \A p \in Screen : CellAt(p) < k + 1 <=> (CellAt(p) < k \/ CellAt(p) = k)
    <3>1. k \in Int /\ \A p \in Screen : CellAt(p) \in Int
      BY PixelInGlyph, Size DEF Cells
    <3> QED BY <3>1
  <2> QED BY <2>1 DEF Covered, Pixels
<1>5. DOMAIN s = DOMAIN d \cup Covered(k)
      /\ \A a \in DOMAIN s : s[a] = IF a \in Covered(k) THEN Shade(b, Owner(a)) ELSE d[a]
  BY <1>1 DEF Sketch
<1>6. [a \in DOMAIN s \cup Pixels(k) |-> IF a \in Pixels(k) THEN Shade(b, Owner(a)) ELSE s[a]]
      = [a \in DOMAIN d \cup (Covered(k) \cup Pixels(k)) |->
           IF a \in Covered(k) \cup Pixels(k) THEN Shade(b, Owner(a)) ELSE d[a]]
  BY <1>5
<1>7. Sketch(d, b, k + 1) = [a \in DOMAIN d \cup (Covered(k) \cup Pixels(k)) |->
                               IF a \in Covered(k) \cup Pixels(k) THEN Shade(b, Owner(a)) ELSE d[a]]
  BY <1>4 DEF Sketch
<1> QED BY <1>1, <1>2, <1>3, <1>6, <1>7

(* fb_console_redraw draws cell after cell.                                *)
RedrawBody(d, b, f) ==
  [n \in 0..rows * columns |-> IF n = 0 THEN d ELSE fb_console_draw_cell(f[n - 1], b, n - 1)]
Redrawn(d, b) == CHOOSE f : f = RedrawBody(d, b, f)

LEMMA RedrawLoop ==
  ASSUME NEW d, NEW b PROVE fb_console_redraw(d, b) = Redrawn(d, b)[rows * columns]
BY Zenon DEF fb_console_redraw, Redrawn, RedrawBody

LEMMA LeastOf ==
  ASSUME NEW S \in SUBSET Nat, S # {}
  PROVE  \E x \in S : \A y \in S : x <= y
<1> DEFINE R == OpToRel(<, Nat)
<1>1. IsWellFoundedOn(R, Nat)
  BY NatLessThanWellFounded
<1>2. \E x \in S : \A y \in S : <<y, x>> \notin R
  <2> HIDE DEF R
  <2> QED BY <1>1, WFMin
<1>3. PICK x \in S : \A y \in S : <<y, x>> \notin R
  BY <1>2
<1>4. ASSUME NEW y \in S PROVE x <= y
  <2>1. ~(y < x)
    BY <1>3 DEF OpToRel
  <2> QED BY <2>1
<1> QED BY <1>4

LEMMA RedrawUnique ==
  ASSUME NEW d, NEW b, NEW f, NEW g, f = RedrawBody(d, b, f), g = RedrawBody(d, b, g)
  PROVE  f = g
<1>1. \A n \in 0..rows * columns : f[n] = IF n = 0 THEN d ELSE fb_console_draw_cell(f[n - 1], b, n - 1)
  BY Zenon DEF RedrawBody
<1>2. \A n \in 0..rows * columns : g[n] = IF n = 0 THEN d ELSE fb_console_draw_cell(g[n - 1], b, n - 1)
  BY Zenon DEF RedrawBody
<1>3. PICK N \in Nat : N = rows * columns
  BY Size
<1>4. \A n \in 0..N : f[n] = g[n]
  <2> DEFINE D == {n \in 0..N : f[n] # g[n]}
  <2> SUFFICES ASSUME D # {} PROVE FALSE
    OBVIOUS
  <2>1. D \in SUBSET Nat
    OBVIOUS
  <2>2. PICK x \in D : \A y \in D : x <= y
    BY <2>1, LeastOf
  <2>3. x \in 0..N /\ f[x] # g[x]
    OBVIOUS
  <2>4. x # 0
    BY <1>1, <1>2, <1>3, <2>3
  <2>5. x - 1 \in 0..N /\ ~(x <= x - 1)
    BY <2>3, <2>4
  <2>6. x - 1 \notin D
    <3> HIDE DEF D
    <3> QED BY <2>2, <2>5
  <2>7. f[x - 1] = g[x - 1]
    BY <2>5, <2>6
  <2> QED BY <1>1, <1>2, <1>3, <2>3, <2>4, <2>7
<1> QED BY <1>3, <1>4, Zenon DEF RedrawBody

IsFunction(f) == f = [a \in DOMAIN f |-> f[a]]
Places == {Place(p) : p \in Screen}

(* After a redraw every pixel has the colour that the buffer gives it.     *)
LEMMA RedrawIs ==
  ASSUME Framebuffer, NEW d, IsFunction(d), NEW b
  PROVE  /\ DOMAIN fb_console_redraw(d, b) = DOMAIN d \cup Places
         /\ IsFunction(fb_console_redraw(d, b))
         /\ \A p \in Screen : fb_console_redraw(d, b)[Place(p)] = Shade(b, p)
<1>1. PICK N \in Nat : N = rows * columns /\ Cells = 0..N - 1
  BY Size DEF Cells
<1>2. PICK g : g = [n \in 0..N |-> Sketch(d, b, n)]
  OBVIOUS
<1>3. g[0] = d
  <2>1. \A p \in Screen : ~(CellAt(p) < 0)
    BY PixelInGlyph, <1>1
  <2>2. Covered(0) = {}
    BY <2>1 DEF Covered
  <2>3. Sketch(d, b, 0) = [a \in DOMAIN d |-> d[a]]
    BY <2>2, Zenon DEF Sketch
  <2>4. 0 \in 0..N
    OBVIOUS
  <2> QED BY <1>2, <2>3, <2>4 DEF IsFunction
<1>4. ASSUME NEW n \in 0..N, n # 0 PROVE g[n] = fb_console_draw_cell(g[n - 1], b, n - 1)
  <2>1. PICK k \in Cells : k = n - 1 /\ k + 1 = n /\ k \in 0..N
    BY <1>1, <1>4
  <2>2. g[n] = Sketch(d, b, k + 1) /\ g[k] = Sketch(d, b, k)
    BY <1>2, <2>1
  <2> QED BY <2>1, <2>2, SketchStep
<1>5. g = RedrawBody(d, b, g)
  <2>1. \A n \in 0..N : g[n] = IF n = 0 THEN d ELSE fb_console_draw_cell(g[n - 1], b, n - 1)
    BY <1>3, <1>4
  <2>2. g = [n \in 0..N |-> g[n]]
    BY <1>2
  <2> QED BY <1>1, <2>1, <2>2, Zenon DEF RedrawBody
<1>6. Redrawn(d, b) = RedrawBody(d, b, Redrawn(d, b))
  BY <1>5, Zenon DEF Redrawn
<1>7. fb_console_redraw(d, b) = Sketch(d, b, N)
  <2>1. Redrawn(d, b) = g
    BY <1>5, <1>6, RedrawUnique
  <2>2. N \in 0..N
    OBVIOUS
  <2> QED BY <1>1, <1>2, <2>1, <2>2, RedrawLoop
<1>8. Covered(N) = Places
  <2>1. \A p \in Screen : CellAt(p) < N
    BY <1>1, PixelInGlyph
  <2> QED BY <2>1 DEF Covered, Places
<1>9. ASSUME NEW p \in Screen PROVE Sketch(d, b, N)[Place(p)] = Shade(b, p)
  <2>1. Place(p) \in Covered(N) /\ Owner(Place(p)) = p
    BY <1>8, OwnerIs DEF Places
  <2> QED BY <2>1, Zenon DEF Sketch
<1>10. DOMAIN Sketch(d, b, N) = DOMAIN d \cup Places /\ IsFunction(Sketch(d, b, N))
  BY <1>8 DEF Sketch, IsFunction
<1> QED BY <1>7, <1>9, <1>10

(* What the drawing leaves at the left edge of a glyph: nothing, as the    *)
(* bit it tests there is the one past the byte.                            *)
LEMMA LeftEdge ==
  ASSUME NEW c \in Text, NEW i \in 0..GlyphHeight - 1
  PROVE  ~Bit(Font[c][i + 1], GlyphWidth - 0)
<1>1. PICK g \in 1..8 : g = GlyphWidth
  BY DisplayAssumption
<1>2. PICK m : m = Masks[g + 1]
  OBVIOUS
<1>3. m \in Nat \ {0}
  BY <1>2 DEF Masks
<1>4. Font[c] \in [1..GlyphHeight -> 0..m - 1]
  BY <1>1, <1>2, DisplayAssumption DEF Text
<1>5. i + 1 \in 1..GlyphHeight
  BY GlyphSize
<1>6. PICK v \in 0..m - 1 : v = Font[c][i + 1]
  BY <1>4, <1>5
<1>7. v \div m = 0
  BY <1>3
<1>8. g - 0 = g
  OBVIOUS
<1> QED BY <1>1, <1>2, <1>6, <1>7, <1>8 DEF Bit

LEMMA ShadeIsDrawn ==
  ASSUME Framebuffer, BufferOK(buffer), NEW x \in 0..GlyphWidth * columns - 1,
         NEW y \in 0..GlyphHeight * rows - 1
  PROVE  Shade(buffer, <<x, y>>) = Drawn(x, y)
<1>1. PICK p : p = <<x, y>> /\ p[1] = x /\ p[2] = y
  <2>1. PICK p : p = <<x, y>>
    OBVIOUS
  <2>2. p[1] = x /\ p[2] = y
    BY <2>1
  <2> QED BY <2>1, <2>2
<1>2. p \in Screen
  BY <1>1 DEF Screen
<1>3. PICK k, j, i, cell : k = CellAt(p) /\ j = x % GlyphWidth /\ i = y % GlyphHeight /\ cell = buffer[k]
  OBVIOUS
<1>4. k \in Cells /\ j \in 0..GlyphWidth - 1 /\ i \in 0..GlyphHeight - 1 /\ cell.ch \in Text
  BY <1>1, <1>2, <1>3, PixelInGlyph DEF BufferOK
<1>5. Dark(buffer, p) <=> Bit(Font[cell.ch][i + 1], GlyphWidth - j)
  BY <1>1, <1>3, Zenon DEF Dark
<1>6. j > 0 \/ j = 0
  BY <1>4, GlyphSize
<1>7. j = 0 => ~Bit(Font[cell.ch][i + 1], GlyphWidth - j)
  BY <1>4, LeftEdge
<1>8. Drawn(x, y) = Pair(cell.attrs)[IF j > 0 /\ Bit(Font[cell.ch][i + 1], GlyphWidth - j) THEN 1 ELSE 2]
  <2>1. cell = buffer[Index(y \div GlyphHeight, x \div GlyphWidth)]
    BY <1>1, <1>3, Zenon DEF CellAt
  <2> QED BY <1>3, <2>1, Zenon DEF Drawn
<1>9. Shade(buffer, p) = Pair(cell.attrs)[IF Dark(buffer, p) THEN 1 ELSE 2]
  BY <1>3, Zenon DEF Shade
<1> QED BY <1>1, <1>5, <1>6, <1>7, <1>8, <1>9

-----------------------------------------------------------------------------
(* The display.  Its inductive invariant: the framebuffer has the pixels   *)
(* of the screen at any time and shows the buffer between two writes; the  *)
(* driver knows where the hardware cursor is once it has moved it.         *)
Shown ==
  /\ DOMAIN data = Places /\ IsFunction(data)
  /\ written = 0 => \A p \in Screen : data[Place(p)] = Shade(buffer, p)
CursorShown ==
  /\ cursor # <<0, 0>> => crtc = cursor[2] * VgaColumns + cursor[1]
  /\ written = 0 => cursor = <<column, row>>

DisplayInv ==
  /\ PaperInv /\ tag \in DOMAIN Tags /\ written \in Nat
  /\ fb.type = "rgb" => Shown
  /\ fb.type = "text" => CursorShown

LEMMA DisplayStarts ==
  ASSUME DisplayInit PROVE DisplayInv
<1>1. Init /\ tag \in DOMAIN Tags /\ written = 0 /\ cursor = <<0, 0>>
  BY DEF DisplayInit
<1>2. PaperInv
  BY <1>1, InitPaper
<1>3. ASSUME fb.type = "rgb" PROVE Shown
  <2>1. PICK b : b = buffer
    OBVIOUS
  <2>2. data = fb_console_redraw(<<>>, b)
    BY <1>3, <2>1 DEF DisplayInit
  <2>3. PICK d : d = <<>>
    OBVIOUS
  <2>4. IsFunction(d) /\ DOMAIN d = {}
    BY <2>3 DEF IsFunction
  <2>5. Framebuffer
    BY <1>1, <1>3 DEF Framebuffer
  <2>6. /\ DOMAIN fb_console_redraw(d, b) = DOMAIN d \cup Places /\ IsFunction(fb_console_redraw(d, b))
        /\ \A p \in Screen : fb_console_redraw(d, b)[Place(p)] = Shade(b, p)
    BY <2>4, <2>5, RedrawIs
  <2> QED BY <2>1, <2>2, <2>3, <2>4, <2>6 DEF Shown
<1>4. CursorShown
  BY <1>1 DEF CursorShown, Init
<1> QED BY <1>1, <1>2, <1>3, <1>4 DEF DisplayInv

(* The tag, and with it the places and colours of the pixels, never        *)
(* changes.                                                                *)
LEMMA SameTag ==
  ASSUME tag' = tag
  PROVE  /\ fb' = fb /\ Places' = Places /\ \A p \in Screen : Place(p)' = Place(p)
         /\ \A b, p : Shade(b, p)' = Shade(b, p)
<1>1. fb' = fb
  BY DEF fb
<1>2. ASSUME NEW p PROVE Place(p)' = Place(p)
  BY <1>1 DEF Place, At
<1>3. Places' = Places
  BY <1>2 DEF Places
<1>4. ASSUME NEW b, NEW p PROVE Shade(b, p)' = Shade(b, p)
  BY DEF Shade, Dark, Pair
<1> QED BY <1>1, <1>2, <1>3, <1>4

LEMMA RedrawShows ==
  ASSUME DisplayInv, __console_redraw, written' = 0
  PROVE  (fb.type = "rgb" => Shown') /\ (fb.type = "text" => CursorShown') /\ fb' = fb
<1>1. tag' = tag /\ tag \in DOMAIN Tags
  BY DEF __console_redraw, DisplayInv
<1>2. ASSUME fb.type = "rgb" PROVE Shown'
  <2>1. PICK d, b, e : d = data /\ b = buffer' /\ e = data'
    OBVIOUS
  <2>2. e = fb_console_redraw(d, b)
    BY <1>2, <2>1 DEF __console_redraw
  <2>3. IsFunction(d) /\ DOMAIN d = Places /\ Framebuffer
    BY <1>1, <1>2, <2>1 DEF DisplayInv, Shown, Framebuffer
  <2>4. /\ DOMAIN fb_console_redraw(d, b) = DOMAIN d \cup Places /\ IsFunction(fb_console_redraw(d, b))
        /\ \A p \in Screen : fb_console_redraw(d, b)[Place(p)] = Shade(b, p)
    BY <2>3, RedrawIs
  <2>5. DOMAIN e = Places /\ IsFunction(e) /\ \A p \in Screen : e[Place(p)] = Shade(b, p)
    BY <2>2, <2>3, <2>4
  <2>6. DOMAIN data' = Places' /\ IsFunction(data')
    BY <1>1, <2>1, <2>5, SameTag
  <2>7. ASSUME NEW p \in Screen PROVE data'[Place(p)'] = Shade(buffer, p)'
    <3>1. data'[Place(p)'] = Shade(b, p)
      BY <1>1, <2>1, <2>5, SameTag
    <3>2. Shade(buffer, p)' = Shade(b, p)
      BY <1>1, <2>1 DEF Shade, Dark, Pair
    <3> QED BY <3>1, <3>2
  <2>8. IsFunction(data)'
    BY <2>6 DEF IsFunction
  <2> QED BY <2>6, <2>7, <2>8 DEF Shown
<1>3. ASSUME fb.type = "text" PROVE CursorShown'
  <2>1. CursorShown /\ vga_console_redraw
    BY <1>3 DEF DisplayInv, __console_redraw
  <2>2. CASE <<column', row'>> = cursor
    BY <2>1, <2>2 DEF CursorShown, vga_console_redraw
  <2>3. CASE <<column', row'>> # cursor
    <3>1. cursor' = <<column', row'>> /\ crtc' = row' * VgaColumns + column'
      BY <2>1, <2>3 DEF vga_console_redraw
    <3>2. crtc' = cursor'[2] * VgaColumns + cursor'[1]
      BY <3>1
    <3> QED BY <3>1, <3>2 DEF CursorShown
  <2> QED BY <2>2, <2>3
<1> QED BY <1>1, <1>2, <1>3, SameTag

LEMMA DisplayStep ==
  ASSUME DisplayInv, [DisplayNext]_displayVars PROVE DisplayInv' /\ [Next]_vars
<1>1. [Next]_vars
  BY DEF DisplayNext, console_putch, WriteChars, console_write, displayVars
<1>2. PaperInv'
  BY <1>1, PaperStep DEF DisplayInv
<1>3. CASE console_putch
  <2>1. __console_redraw /\ written = 0 /\ written' = 0
    BY <1>3 DEF console_putch
  <2> QED BY <1>1, <1>2, <2>1, RedrawShows DEF DisplayInv, __console_redraw
<1>4. CASE console_write
  <2>1. __console_redraw /\ written' = 0
    BY <1>4 DEF console_write
  <2> QED BY <1>1, <1>2, <2>1, RedrawShows DEF DisplayInv, __console_redraw
<1>5. CASE WriteChars
  <2>1. written' = written + 1 /\ written' # 0 /\ written' \in Nat /\ UNCHANGED <<tag, data, cursor, crtc>>
    BY <1>5 DEF WriteChars, DisplayInv
  <2>2. fb.type = "rgb" => Shown'
    <3>1. Places' = Places
      BY <2>1, SameTag
    <3>2. ASSUME fb.type = "rgb" PROVE DOMAIN data' = Places' /\ IsFunction(data)'
      BY <2>1, <3>1, <3>2 DEF DisplayInv, Shown, IsFunction
    <3> QED BY <2>1, <3>2 DEF Shown
  <2>3. fb.type = "text" => CursorShown'
    BY <2>1 DEF DisplayInv, CursorShown
  <2> QED BY <1>1, <1>2, <2>1, <2>2, <2>3, SameTag DEF DisplayInv
<1>6. CASE UNCHANGED displayVars
  <2>1. UNCHANGED <<buffer, row, column, tag, data, cursor, crtc, written>>
    BY <1>6 DEF displayVars, vars
  <2>2. fb.type = "rgb" => Shown'
    <3> SUFFICES ASSUME fb.type = "rgb" PROVE Shown'
      OBVIOUS
    <3>1. Shown
      BY DEF DisplayInv
    <3>2. Places' = Places /\ \A p \in Screen : Place(p)' = Place(p)
      BY <2>1, SameTag
    <3>3. \A p \in Screen : Shade(buffer, p)' = Shade(buffer, p)
      BY <2>1 DEF Shade, Dark, Pair
    <3> QED BY <2>1, <3>1, <3>2, <3>3 DEF Shown, IsFunction
  <2>3. fb.type = "text" => CursorShown'
    BY <2>1 DEF DisplayInv, CursorShown
  <2> QED BY <1>1, <1>2, <2>1, <2>2, <2>3, SameTag DEF DisplayInv
<1> QED BY <1>3, <1>4, <1>5, <1>6 DEF DisplayNext

LEMMA DisplayInvariant == DisplaySpec => []DisplayInv
<1>1. DisplayInit => DisplayInv
  BY DisplayStarts
<1>2. DisplayInv /\ [DisplayNext]_displayVars => DisplayInv'
  BY DisplayStep
<1> QED BY <1>1, <1>2, PTL DEF DisplaySpec

(* Drawing the console on any of its back ends leaves its text alone: the  *)
(* console with a display is the console of Console, so that it keeps its  *)
(* cursor in bounds and implements Terminal (console_write and the redraw  *)
(* functions of fbconsole.c and vga_console.c).                            *)
THEOREM DisplayIsConsole == DisplaySpec => Spec
<1>1. DisplayInit => Init
  BY DEF DisplayInit
<1>2. DisplayInv /\ [DisplayNext]_displayVars => [Next]_vars
  BY DisplayStep
<1> QED BY <1>1, <1>2, DisplayInvariant, PTL DEF DisplaySpec, Spec

(* For every font, screen size and framebuffer format and all text: when a *)
(* write has ended, each pixel has the colour its character and attributes *)
(* give it, nothing outside the text area was ever written to, and the     *)
(* hardware cursor of a text screen is where the next character goes       *)
(* (fb_console_redraw, vga_console_redraw).                                *)
THEOREM ScreenCorrect == DisplaySpec => []ScreenShows
<1>1. DisplayInv => ScreenShows
  <2> SUFFICES ASSUME DisplayInv, written = 0 PROVE ScreenShows
    BY DEF ScreenShows
  <2>1. ASSUME fb.type = "rgb"
        PROVE  /\ DOMAIN data = {At(x, y) : x \in 0..GlyphWidth * columns - 1, y \in 0..GlyphHeight * rows - 1}
               /\ \A x \in 0..GlyphWidth * columns - 1, y \in 0..GlyphHeight * rows - 1 :
                    data[At(x, y)] = Drawn(x, y)
    <3>1. Shown /\ Framebuffer /\ BufferOK(buffer)
      BY <2>1 DEF DisplayInv, Framebuffer, PaperInv
    <3>2. Places = {At(x, y) : x \in 0..GlyphWidth * columns - 1, y \in 0..GlyphHeight * rows - 1}
      <4> DEFINE Spots == {At(x, y) : x \in 0..GlyphWidth * columns - 1, y \in 0..GlyphHeight * rows - 1}
      <4>1. ASSUME NEW p \in Screen PROVE Place(p) \in Spots
        <5>1. p[1] \in 0..GlyphWidth * columns - 1 /\ p[2] \in 0..GlyphHeight * rows - 1
          BY DEF Screen
        <5> QED BY <5>1 DEF Place
      <4>2. ASSUME NEW x \in 0..GlyphWidth * columns - 1, NEW y \in 0..GlyphHeight * rows - 1
            PROVE  At(x, y) \in Places
        <5>1. PICK p : p = <<x, y>>
          OBVIOUS
        <5>2. p \in Screen /\ Place(p) = At(x, y)
          BY <5>1 DEF Screen, Place
        <5> QED BY <5>2 DEF Places
      <4>3. ASSUME NEW q \in Places PROVE q \in Spots
        <5>1. PICK p \in Screen : q = Place(p)
          BY DEF Places
        <5> HIDE DEF Spots
        <5> QED BY <4>1, <5>1
      <4>4. ASSUME NEW q \in Spots PROVE q \in Places
        <5>1. PICK x \in 0..GlyphWidth * columns - 1, y \in 0..GlyphHeight * rows - 1 : q = At(x, y)
          OBVIOUS
        <5> QED BY <4>2, <5>1
      <4> SUFFICES Places = Spots
        OBVIOUS
      <4> HIDE DEF Spots
      <4> QED BY <4>3, <4>4
    <3>3. ASSUME NEW x \in 0..GlyphWidth * columns - 1, NEW y \in 0..GlyphHeight * rows - 1
          PROVE  data[At(x, y)] = Drawn(x, y)
      <4>1. PICK p : p = <<x, y>>
        OBVIOUS
      <4>2. p \in Screen
        BY <4>1 DEF Screen
      <4>3. data[Place(p)] = Shade(buffer, p)
        BY <3>1, <4>2 DEF Shown
      <4>4. Place(p) = At(x, y)
        BY <4>1 DEF Place
      <4>5. Shade(buffer, <<x, y>>) = Drawn(x, y)
        BY <3>1, ShadeIsDrawn
      <4> QED BY <4>1, <4>3, <4>4, <4>5
    <3> QED BY <3>1, <3>2, <3>3 DEF Shown
  <2>2. ASSUME fb.type = "text", <<column, row>> # <<0, 0>> PROVE crtc = VgaColumns * row + column
    <3>1. cursor = <<column, row>> /\ crtc = cursor[2] * VgaColumns + cursor[1]
      BY <2>2 DEF DisplayInv, CursorShown
    <3>2. crtc = row * VgaColumns + column
      BY <3>1
    <3>3. row \in Nat /\ VgaColumns \in Nat
      BY DisplayAssumption DEF DisplayInv, PaperInv, CursorInBounds
    <3>4. row * VgaColumns = VgaColumns * row
      BY <3>3
    <3> QED BY <3>2, <3>4
  <2> QED BY <2>1, <2>2 DEF ScreenShows
<1> QED BY <1>1, DisplayInvariant, PTL

-----------------------------------------------------------------------------
(* Formatted output.  A buffer that is being filled holds a character at   *)
(* every place up to the length of the output or its own end, whichever    *)
(* comes first, and none behind its end.                                   *)
Room(n, m) == {i \in Nat : i < n /\ i < m}

Filled(o, m) ==
  /\ o = [len |-> o.len, data |-> o.data, nul |-> o.nul]
  /\ o.len \in 0..SizeMax /\ o.nul \in BOOLEAN
  /\ Room(o.len, m) \subseteq DOMAIN o.data
  /\ \A i \in DOMAIN o.data : i \in Nat /\ i < m
  /\ ~o.nul => \A i \in DOMAIN o.data : o.data[i] \in Chars

LEMMA OutchFills ==
  ASSUME maxlen \in Nat, NEW o, Filled(o, maxlen), NEW c \in Octets
  PROVE  Filled(dopr_outch(o, c), maxlen)
<1>1. PICK m \in Nat : m = maxlen
  OBVIOUS
<1>2. PICK n \in Nat, d \in {o.data}, z \in BOOLEAN : n = o.len /\ d = o.data /\ z = o.nul
  BY PrintfAssumption DEF Filled
<1>3. /\ n \in 0..SizeMax /\ Room(n, m) \subseteq DOMAIN d
      /\ \A i \in DOMAIN d : i \in Nat /\ i < m
      /\ ~z => \A i \in DOMAIN d : d[i] \in Chars
  BY <1>1, <1>2 DEF Filled
<1>4. PICK e : e = IF n < m THEN Stored(d, n, c) ELSE d
  OBVIOUS
<1>5. PICK k \in 0..SizeMax : k = (IF n = SizeMax THEN 0 ELSE n + 1) /\ (k = 0 \/ k = n + 1)
  BY <1>3, PrintfAssumption
<1>6. PICK y \in BOOLEAN : y = (z \/ c = NUL)
  OBVIOUS
<1>7. dopr_outch(o, c) = [len |-> k, data |-> e, nul |-> y]
  BY <1>1, <1>2, <1>4, <1>5, <1>6, Zenon DEF dopr_outch
<1>8. \A i \in Room(k, m) : i \in Room(n, m) \/ (i = n /\ n < m)
  BY <1>5 DEF Room
<1>9. ~y => c \in Chars /\ ~z
  BY <1>6 DEF Octets
<1>10. /\ Room(k, m) \subseteq DOMAIN e
       /\ \A i \in DOMAIN e : i \in Nat /\ i < m
       /\ ~y => \A i \in DOMAIN e : e[i] \in Chars
  <2>1. CASE n < m
    <3>1. e = [i \in DOMAIN d \cup {n} |-> IF i = n THEN c ELSE d[i]]
      BY <1>4, <2>1 DEF Stored
    <3> QED BY <1>3, <1>8, <1>9, <2>1, <3>1
  <2>2. CASE ~(n < m)
    <3>1. e = d
      BY <1>4, <2>2
    <3> QED BY <1>3, <1>8, <1>9, <2>2, <3>1
  <2> QED BY <2>1, <2>2
<1> QED BY <1>1, <1>5, <1>6, <1>7, <1>10 DEF Filled

(* Printed prints character after character.                               *)
PrintedBody(s, f) == [n \in 0..Len(s) |-> IF n = 0 THEN out ELSE dopr_outch(f[n - 1], s[n])]
PrintedLoop(s) == CHOOSE f : f = PrintedBody(s, f)

LEMMA PrintedIs ==
  ASSUME NEW s PROVE Printed(s) = PrintedLoop(s)[Len(s)]
BY Zenon DEF Printed, PrintedLoop, PrintedBody

(* What Printed has after every character.                                 *)
Rounds(s, f, n) ==
  DOMAIN f = 0..n /\ f[0] = out /\ \A k \in 1..n : f[k] = dopr_outch(f[k - 1], s[k])

LEMMA RoundsExist ==
  ASSUME NEW s, NEW N \in Nat PROVE \E f : Rounds(s, f, N)
<1> DEFINE D == {n \in Nat : ~\E f : Rounds(s, f, n)}
<1> SUFFICES ASSUME D # {} PROVE FALSE
  OBVIOUS
<1>1. D \in SUBSET Nat
  OBVIOUS
<1>2. PICK x \in D : \A y \in D : x <= y
  BY <1>1, LeastOf
<1>3. x \in Nat /\ ~\E f : Rounds(s, f, x)
  OBVIOUS
<1>4. x # 0
  <2>1. PICK f : f = [n \in 0..0 |-> out]
    OBVIOUS
  <2>2. Rounds(s, f, 0)
    BY <2>1 DEF Rounds
  <2> QED BY <1>3, <2>2
<1>5. PICK y \in Nat : x = y + 1 /\ ~(x <= y)
  BY <1>3, <1>4
<1>6. y \notin D
  <2> HIDE DEF D
  <2> QED BY <1>2, <1>5
<1>7. PICK f : Rounds(s, f, y)
  BY <1>6
<1>8. PICK g : g = [n \in 0..x |-> IF n = x THEN dopr_outch(f[y], s[x]) ELSE f[n]]
  OBVIOUS
<1>9. Rounds(s, g, x)
  <2>1. DOMAIN g = 0..x /\ g[0] = out
    BY <1>5, <1>7, <1>8 DEF Rounds
  <2>2. ASSUME NEW k \in 1..x PROVE g[k] = dopr_outch(g[k - 1], s[k])
    <3>1. CASE k = x
      <4>1. g[k] = dopr_outch(f[y], s[k])
        BY <1>8, <3>1
      <4>2. k - 1 = y /\ k - 1 \in 0..x /\ k - 1 # x
        BY <1>5, <3>1
      <4>3. g[k - 1] = f[y]
        BY <1>8, <4>2
      <4> QED BY <4>1, <4>3
    <3>2. CASE k # x
      <4>1. k \in 1..y /\ k \in 0..x /\ k - 1 \in 0..x /\ k - 1 # x
        BY <1>5, <3>2
      <4>2. g[k] = f[k] /\ g[k - 1] = f[k - 1]
        BY <1>8, <3>2, <4>1
      <4> QED BY <1>7, <4>1, <4>2 DEF Rounds
    <3> QED BY <3>1, <3>2
  <2> QED BY <2>1, <2>2 DEF Rounds
<1> QED BY <1>3, <1>9

LEMMA PrintedRounds ==
  ASSUME NEW s, Len(s) \in Nat PROVE Rounds(s, PrintedLoop(s), Len(s))
<1>1. PICK N \in Nat : N = Len(s)
  OBVIOUS
<1>2. PICK f : Rounds(s, f, N)
  BY RoundsExist
<1>3. PICK g : g = [n \in 0..N |-> f[n]]
  OBVIOUS
<1>4. g = PrintedBody(s, g)
  <2>1. \A n \in 0..N : g[n] = IF n = 0 THEN out ELSE dopr_outch(g[n - 1], s[n])
    <3> TAKE n \in 0..N
    <3>1. CASE n = 0
      BY <1>2, <1>3, <3>1 DEF Rounds
    <3>2. CASE n # 0
      <4>1. n \in 1..N /\ n - 1 \in 0..N
        BY <3>2
      <4>2. g[n] = f[n] /\ g[n - 1] = f[n - 1]
        BY <1>3, <4>1
      <4>3. f[n] = dopr_outch(f[n - 1], s[n])
        BY <1>2, <4>1 DEF Rounds
      <4> QED BY <3>2, <4>2, <4>3
    <3> QED BY <3>1, <3>2
  <2>2. g = [n \in 0..N |-> g[n]]
    BY <1>3
  <2> QED BY <1>1, <2>1, <2>2, Zenon DEF PrintedBody
<1>5. PICK h : h = PrintedLoop(s) /\ h = PrintedBody(s, h)
  BY <1>4, Zenon DEF PrintedLoop
<1>6. h = [n \in 0..N |-> IF n = 0 THEN out ELSE dopr_outch(h[n - 1], s[n])]
  BY <1>1, <1>5, Zenon DEF PrintedBody
<1>7. DOMAIN h = 0..N /\ \A n \in 0..N : h[n] = IF n = 0 THEN out ELSE dopr_outch(h[n - 1], s[n])
  BY <1>6, Zenon
<1>8. 0 \in 0..N /\ \A k \in 1..N : k \in 0..N /\ k # 0
  OBVIOUS
<1>9. h[0] = out /\ \A k \in 1..N : h[k] = dopr_outch(h[k - 1], s[k])
  BY <1>7, <1>8, Zenon
<1> QED BY <1>1, <1>5, <1>7, <1>9 DEF Rounds

LEMMA PrintedFills ==
  ASSUME maxlen \in Nat, Filled(out, maxlen), NEW s \in Seq(Octets)
  PROVE  Filled(Printed(s), maxlen)
<1>1. PICK N \in Nat : N = Len(s)
  OBVIOUS
<1>2. PICK f : f = PrintedLoop(s) /\ Rounds(s, f, N)
  BY <1>1, PrintedRounds
<1> DEFINE D == {n \in 0..N : ~Filled(f[n], maxlen)}
<1>3. D = {}
  <2> SUFFICES ASSUME D # {} PROVE FALSE
    OBVIOUS
  <2>1. D \in SUBSET Nat
    OBVIOUS
  <2>2. PICK x \in D : \A y \in D : x <= y
    BY <2>1, LeastOf
  <2>3. x \in 0..N /\ ~Filled(f[x], maxlen)
    OBVIOUS
  <2>4. x # 0
    BY <1>2, <2>3 DEF Rounds
  <2>5. x \in 1..N /\ x - 1 \in 0..N /\ ~(x <= x - 1)
    BY <2>3, <2>4
  <2>6. x - 1 \notin D
    <3> HIDE DEF D
    <3> QED BY <2>2, <2>5
  <2>7. Filled(f[x - 1], maxlen)
    BY <2>5, <2>6
  <2>8. f[x] = dopr_outch(f[x - 1], s[x])
    BY <1>2, <2>5 DEF Rounds
  <2>9. s[x] \in Octets
    BY <1>1, <2>5
  <2> QED BY <2>3, <2>7, <2>8, <2>9, OutchFills
<1>4. Filled(f[N], maxlen)
  BY <1>3
<1> QED BY <1>1, <1>2, <1>4, PrintedIs

-----------------------------------------------------------------------------
(* The conversions print bytes.                                            *)
LEMMA RepeatType ==
  ASSUME NEW c \in Octets, NEW n \in Nat PROVE Repeat(c, n) \in Seq(Octets) /\ Len(Repeat(c, n)) = n
BY DEF Repeat

LEMMA AtLeast0Type == ASSUME NEW n \in Int PROVE AtLeast0(n) \in Nat
BY DEF AtLeast0

LEMMA ReverseType == ASSUME NEW s \in Seq(Octets) PROVE Reverse(s) \in Seq(Octets)
BY DEF Reverse

LEMMA JoinType == ASSUME NEW s \in Seq(Octets), NEW t \in Seq(Octets) PROVE s \o t \in Seq(Octets)
OBVIOUS

LEMMA FrontType ==
  ASSUME NEW s \in Seq(Octets), NEW n \in 0..Len(s) PROVE SubSeq(s, 1, n) \in Seq(Octets)
OBVIOUS

LEMMA Literals ==
  /\ \A i \in 1..10 : DigitChars[i] \in Octets
  /\ \A i \in 1..6 : Lower[i] \in Octets /\ Upper[i] \in Octets
  /\ Blank \in Octets /\ "-" \in Octets /\ "+" \in Octets /\ "." \in Octets /\ "0" \in Octets
  /\ Null \in Seq(Octets)
<1>1. /\ Range(DigitChars) \subseteq Chars /\ Range(Lower) \subseteq Chars
      /\ Range(Upper) \subseteq Chars /\ Range(Null) \subseteq Chars
      /\ Blank \in Chars /\ "-" \in Chars /\ "+" \in Chars /\ "." \in Chars
  BY PrintfAssumption
<1>2. \A i \in 1..10 : DigitChars[i] \in Chars
  BY <1>1 DEF DigitChars, Range
<1>3. \A i \in 1..6 : Lower[i] \in Chars /\ Upper[i] \in Chars
  BY <1>1 DEF Lower, Upper, Range
<1>4. DigitChars[1] = "0"
  BY DEF DigitChars
<1>5. "0" \in Chars
  BY <1>2, <1>4
<1>6. Null \in Seq(Octets)
  <2>1. "<" \in Chars /\ "N" \in Chars /\ "U" \in Chars /\ "L" \in Chars /\ ">" \in Chars
    <3>1. Null[1] \in Chars /\ Null[2] \in Chars /\ Null[3] \in Chars /\ Null[4] \in Chars
          /\ Null[6] \in Chars
      BY <1>1 DEF Null, Range
    <3> QED BY <3>1 DEF Null
  <2>2. \A a, b, c, d, e, f \in Octets : <<a, b, c, d, e, f>> \in Seq(Octets)
    OBVIOUS
  <2> QED BY <2>1, <2>2, Zenon DEF Null, Octets
<1> QED BY <1>1, <1>2, <1>3, <1>5, <1>6 DEF Octets

LEMMA SignedType ==
  ASSUME NEW neg, NEW fl
  PROVE  Signed(neg, fl) \in Seq(Octets) /\ Len(Signed(neg, fl)) \in 0..1
<1>1. \/ Signed(neg, fl) = <<>>
      \/ \E c \in Octets : Signed(neg, fl) = <<c>>
  BY Literals, Zenon DEF Signed
<1>2. CASE Signed(neg, fl) = <<>>
  BY <1>2
<1>3. ASSUME NEW c \in Octets, Signed(neg, fl) = <<c>>
      PROVE  Signed(neg, fl) \in Seq(Octets) /\ Len(Signed(neg, fl)) \in 0..1
  <2>1. <<c>> \in Seq(Octets) /\ Len(<<c>>) = 1
    OBVIOUS
  <2> QED BY <1>3, <2>1
<1> QED BY <1>1, <1>2, <1>3

(* The digits of a number, from the last one on.                           *)
Longer(base, glyphs, f, v) == <<glyphs[(v % base) + 1]>> \o (IF v \div base = 0 THEN <<>> ELSE f[v \div base])

DigitsBody(u, base, glyphs, f) == [v \in 0..u |-> Longer(base, glyphs, f, v)]
AllDigits(u, base, glyphs) == CHOOSE f : f = DigitsBody(u, base, glyphs, f)

LEMMA ConvertIs ==
  ASSUME NEW u, NEW base, NEW size, NEW glyphs
  PROVE  LET s == AllDigits(u, base, glyphs)[u]
         IN  Convert(u, base, size, glyphs) = SubSeq(s, 1, IF Len(s) < size THEN Len(s) ELSE size - 1)
BY Zenon DEF Convert, AllDigits, DigitsBody, Longer

(* Enough glyphs for the digits of a base.                                 *)
Glyphic(base, glyphs) == \A i \in 1..base : glyphs[i] \in Octets

LEMMA Shrinks ==
  ASSUME NEW base \in {8, 10, 16}, NEW v \in Nat
  PROVE  (v % base) + 1 \in 1..base /\ v \div base \in 0..v /\ (v \div base # 0 => v \div base < v)
OBVIOUS

LEMMA LongerType ==
  ASSUME NEW base \in {8, 10, 16}, NEW glyphs, Glyphic(base, glyphs), NEW v \in Nat, NEW f,
         v \div base # 0 => f[v \div base] \in Seq(Octets)
  PROVE  Longer(base, glyphs, f, v) \in Seq(Octets)
<1>1. PICK d : d = glyphs[(v % base) + 1] /\ d \in Octets
  BY Shrinks DEF Glyphic
<1>2. PICK t : t = (IF v \div base = 0 THEN <<>> ELSE f[v \div base]) /\ t \in Seq(Octets)
  <2>1. CASE v \div base = 0
    BY <2>1, <<>> \in Seq(Octets)
  <2>2. CASE v \div base # 0
    BY <2>2, Zenon
  <2> QED BY <2>1, <2>2
<1>3. <<d>> \o t \in Seq(Octets)
  BY <1>1, <1>2
<1> QED BY <1>1, <1>2, <1>3 DEF Longer

Counts(base, glyphs, f, n) ==
  DOMAIN f = 0..n /\ \A v \in 0..n : f[v] = Longer(base, glyphs, f, v)

LEMMA CountsExist ==
  ASSUME NEW base \in {8, 10, 16}, NEW glyphs, NEW u \in Nat PROVE \E f : Counts(base, glyphs, f, u)
<1> DEFINE D == {n \in Nat : ~\E f : Counts(base, glyphs, f, n)}
<1> SUFFICES ASSUME D # {} PROVE FALSE
  OBVIOUS
<1>1. D \in SUBSET Nat
  OBVIOUS
<1>2. PICK x \in D : \A y \in D : x <= y
  BY <1>1, LeastOf
<1>3. x \in Nat /\ ~\E f : Counts(base, glyphs, f, x)
  OBVIOUS
<1>4. PICK h : \A v \in 0..x - 1 : h[v] = Longer(base, glyphs, h, v)
  <2>1. CASE x = 0
    BY <2>1
  <2>2. CASE x # 0
    <3>1. PICK y \in Nat : y = x - 1 /\ ~(x <= y)
      BY <1>3, <2>2
    <3>2. y \notin D
      <4> HIDE DEF D
      <4> QED BY <1>2, <3>1
    <3> QED BY <3>1, <3>2 DEF Counts
  <2> QED BY <2>1, <2>2
<1>5. PICK g : g = [v \in 0..x |-> IF v = x THEN Longer(base, glyphs, h, x) ELSE h[v]]
  OBVIOUS
<1>6. ASSUME NEW v \in 0..x PROVE g[v] = Longer(base, glyphs, h, v)
  <2>1. CASE v = x
    BY <1>5, <2>1
  <2>2. CASE v # x
    <3>1. v \in 0..x - 1
      BY <1>3, <2>2
    <3> QED BY <1>4, <1>5, <2>2, <3>1
  <2> QED BY <2>1, <2>2
<1>7. ASSUME NEW v \in 0..x PROVE Longer(base, glyphs, h, v) = Longer(base, glyphs, g, v)
  <2>1. CASE v \div base = 0
    BY <2>1 DEF Longer
  <2>2. CASE v \div base # 0
    <3>1. PICK w : w = v \div base /\ w \in 0..x /\ w # x
      BY <2>2, Shrinks
    <3>2. g[w] = h[w]
      BY <1>5, <3>1
    <3> QED BY <3>1, <3>2 DEF Longer
  <2> QED BY <2>1, <2>2
<1>8. Counts(base, glyphs, g, x)
  BY <1>5, <1>6, <1>7 DEF Counts
<1> QED BY <1>3, <1>8

LEMMA DigitsType ==
  ASSUME NEW base \in {8, 10, 16}, NEW glyphs, Glyphic(base, glyphs), NEW u \in Nat
  PROVE  AllDigits(u, base, glyphs)[u] \in Seq(Octets)
<1>1. PICK f : Counts(base, glyphs, f, u)
  BY CountsExist
<1>2. PICK e : e = [v \in 0..u |-> f[v]]
  OBVIOUS
<1>3. e = DigitsBody(u, base, glyphs, e)
  <2>1. ASSUME NEW v \in 0..u PROVE e[v] = Longer(base, glyphs, e, v)
    <3>1. e[v] = Longer(base, glyphs, f, v)
      BY <1>1, <1>2 DEF Counts
    <3>2. PICK w : w = v \div base /\ w \in 0..u
      BY Shrinks
    <3>3. e[w] = f[w]
      BY <1>2, <3>2
    <3>4. Longer(base, glyphs, f, v) = Longer(base, glyphs, e, v)
      BY <3>2, <3>3, Zenon DEF Longer
    <3> QED BY <3>1, <3>4
  <2>2. e = [v \in 0..u |-> e[v]]
    BY <1>2
  <2> QED BY <2>1, <2>2, Zenon DEF DigitsBody
<1>4. PICK g : g = AllDigits(u, base, glyphs) /\ g = DigitsBody(u, base, glyphs, g)
  BY <1>3, Zenon DEF AllDigits
<1>5. \A v \in 0..u : g[v] = Longer(base, glyphs, g, v)
  BY <1>4, Zenon DEF DigitsBody
<1> DEFINE D == {v \in 0..u : g[v] \notin Seq(Octets)}
<1>6. D = {}
  <2> SUFFICES ASSUME D # {} PROVE FALSE
    OBVIOUS
  <2>1. D \in SUBSET Nat
    OBVIOUS
  <2>2. PICK x \in D : \A y \in D : x <= y
    BY <2>1, LeastOf
  <2>3. x \in 0..u /\ g[x] \notin Seq(Octets)
    OBVIOUS
  <2>4. PICK w : w = x \div base /\ w \in 0..x /\ (w # 0 => w < x)
    BY <2>3, Shrinks
  <2>5. w # 0 => g[w] \in Seq(Octets)
    <3> SUFFICES ASSUME w # 0 PROVE g[w] \in Seq(Octets)
      OBVIOUS
    <3>1. w \in 0..u /\ ~(x <= w)
      BY <2>3, <2>4
    <3>2. w \notin D
      <4> HIDE DEF D
      <4> QED BY <2>2, <3>1
    <3> QED BY <3>1, <3>2
  <2>6. Longer(base, glyphs, g, x) \in Seq(Octets)
    <3>1. x \in Nat /\ (x \div base # 0 => g[x \div base] \in Seq(Octets))
      BY <2>3, <2>4, <2>5
    <3> QED BY <3>1, LongerType, Zenon
  <2> QED BY <1>5, <2>3, <2>6
<1>7. g[u] \in Seq(Octets)
  BY <1>6
<1> QED BY <1>4, <1>7

LEMMA ConvertType ==
  ASSUME NEW base \in {8, 10, 16}, NEW glyphs, Glyphic(base, glyphs), NEW u \in Nat, NEW size \in Nat \ {0}
  PROVE  Convert(u, base, size, glyphs) \in Seq(Octets)
<1>1. PICK s \in Seq(Octets) : s = AllDigits(u, base, glyphs)[u]
  BY DigitsType
<1>2. PICK n : n = IF Len(s) < size THEN Len(s) ELSE size - 1
  OBVIOUS
<1>3. n \in 0..Len(s)
  BY <1>2
<1>4. Convert(u, base, size, glyphs) = SubSeq(s, 1, n)
  BY <1>1, <1>2, ConvertIs
<1> QED BY <1>3, <1>4, FrontType

LEMMA LongMaxType == LongMax \in Int
<1>1. PICK m \in Nat \ {0} : m = LongMod
  BY PrintfAssumption
<1>2. m \div 2 \in Nat
  OBVIOUS
<1> QED BY <1>1, <1>2 DEF LongMax

LEMMA WrapType == ASSUME NEW n \in Int PROVE Wrap(n) \in Int
<1>1. PICK m \in Nat \ {0}, k \in Int : m = LongMod /\ k = LongMax + 1
  BY PrintfAssumption, LongMaxType
<1>2. PICK x \in Int : x = n + LongMax + 1
  BY LongMaxType
<1>3. x % m \in Nat
  OBVIOUS
<1>4. Wrap(n) = (x % m) - k
  BY <1>1, <1>2 DEF Wrap
<1> QED BY <1>3, <1>4

LEMMA JoinedLength ==
  ASSUME NEW S, NEW s \in Seq(S), NEW t \in Seq(S)
  PROVE  s \o t \in Seq(S) /\ Len(s \o t) = Len(s) + Len(t)
OBVIOUS

LEMMA ElementType ==
  ASSUME NEW S, NEW s \in Seq(S), NEW i \in 1..Len(s) PROVE s[i] \in S
OBVIOUS

LEMMA DigitGlyphs == Glyphic(10, DigitChars) /\ Glyphic(10, Negative)
<1>1. Glyphic(10, DigitChars)
  BY Literals DEF Glyphic
<1>2. PICK f \in [1..8 -> Octets] : f = BeforeDigits
  BY PrintfAssumption
<1>3. PICK z \in Octets : z = "0"
  BY Literals
<1>4. PICK t : t = <<z, z>>
  OBVIOUS
<1>5. t \in Seq(Octets) /\ Len(t) = 2
  BY <1>4
<1>6. PICK n \in Nat : n = 8 /\ f \in [1..n -> Octets]
  OBVIOUS
<1>7. f \in Seq(Octets) /\ Len(f) = n
  BY <1>6, FunctionIsSeq, Zenon
<1>8. PICK g \in Seq(Octets) : g = t \o f /\ Len(g) = Len(t) + Len(f)
  BY <1>5, <1>7, JoinedLength
<1>9. \A i \in 1..10 : g[i] \in Octets
  <2>1. Len(g) = 10
    BY <1>5, <1>6, <1>7, <1>8
  <2> QED BY <2>1, ElementType, Zenon
<1>10. Negative = t \o f
  BY <1>2, <1>3, <1>4 DEF Negative
<1> QED BY <1>1, <1>8, <1>9, <1>10 DEF Glyphic

LEMMA BaseGlyphs ==
  ASSUME NEW base \in {8, 10, 16}, NEW up
  PROVE  Glyphic(base, DigitChars \o (IF up THEN Upper ELSE Lower))
<1>1. DigitChars \in Seq(Octets) /\ Len(DigitChars) = 10
  <2>1. Len(DigitChars) = 10 /\ DigitChars = [i \in 1..10 |-> DigitChars[i]]
    BY DEF DigitChars
  <2> QED BY <2>1, Literals
<1>2. PICK t : t = IF up THEN Upper ELSE Lower
  OBVIOUS
<1>3. t \in Seq(Octets) /\ Len(t) = 6
  <2>1. Len(Upper) = 6 /\ Upper = [i \in 1..6 |-> Upper[i]]
    BY DEF Upper
  <2>2. Len(Lower) = 6 /\ Lower = [i \in 1..6 |-> Lower[i]]
    BY DEF Lower
  <2>3. Upper \in Seq(Octets)
    BY <2>1, Literals
  <2>4. Lower \in Seq(Octets)
    BY <2>2, Literals
  <2> QED BY <1>2, <2>1, <2>2, <2>3, <2>4, Zenon
<1>4. PICK g \in Seq(Octets) : g = DigitChars \o t /\ Len(g) = Len(DigitChars) + Len(t)
  BY <1>1, <1>3, JoinedLength
<1>5. \A i \in 1..16 : g[i] \in Octets
  <2>1. Len(g) = 16
    BY <1>1, <1>3, <1>4
  <2> QED BY <2>1, ElementType, Zenon
<1>6. \A i \in 1..base : i \in 1..16
  OBVIOUS
<1> QED BY <1>2, <1>4, <1>5, <1>6, Zenon DEF Glyphic

LEMMA fmtstrType ==
  ASSUME NEW value \in Seq(Octets) \cup {NUL}, NEW fl, NEW lo \in Int, NEW hi \in Int
  PROVE  fmtstr(value, fl, lo, hi) \in Seq(Octets)
<1>1. PICK text \in Seq(Octets) : text = IF value = NUL THEN Null ELSE value
  <2>1. CASE value = NUL
    BY <2>1, Literals
  <2>2. CASE value # NUL
    BY <2>2
  <2> QED BY <2>1, <2>2
<1>2. Wrap(lo - Len(text)) \in Int
  <2>1. lo - Len(text) \in Int
    OBVIOUS
  <2> QED BY <2>1, WrapType
<1>3. PICK pad \in Seq(Octets) : pad = Repeat(Blank, AtLeast0(Wrap(lo - Len(text))))
  BY <1>2, AtLeast0Type, RepeatType, Literals
<1>4. PICK all \in Seq(Octets) : all = IF "-" \in fl THEN text \o pad ELSE pad \o text
  BY JoinType
<1>5. PICK n : n = IF Len(all) < hi THEN Len(all) ELSE AtLeast0(hi)
  OBVIOUS
<1>6. n \in 0..Len(all)
  BY <1>5 DEF AtLeast0
<1>7. fmtstr(value, fl, lo, hi) = SubSeq(all, 1, n)
  BY <1>1, <1>3, <1>4, <1>5, Zenon DEF fmtstr
<1> QED BY <1>6, <1>7, FrontType

LEMMA fmtintType ==
  ASSUME NEW value \in Int, NEW base \in {8, 10, 16}, NEW lo \in Int, NEW hi \in Int, NEW fl
  PROVE  fmtint(value, base, lo, hi, fl) \in Seq(Octets)
<1>1. PICK negative : negative = ("unsigned" \notin fl /\ value < 0)
  OBVIOUS
<1>2. PICK uvalue \in Nat : uvalue = IF negative THEN -value ELSE value % LongMod
  <2>1. LongMod \in Nat \ {0}
    BY PrintfAssumption
  <2>2. value % LongMod \in Nat
    BY <2>1
  <2>3. CASE negative
    <3>1. value < 0
      BY <1>1, <2>3, Zenon
    <3>2. -value \in Nat
      BY <3>1
    <3> QED BY <2>3, <3>2
  <2>4. CASE ~negative
    BY <2>2, <2>4
  <2> QED BY <2>3, <2>4
<1>3. PICK sign \in Seq(Octets) : sign = IF "unsigned" \in fl THEN <<>> ELSE Signed(negative, fl)
  <2>1. CASE "unsigned" \in fl
    BY <2>1, <<>> \in Seq(Octets)
  <2>2. CASE "unsigned" \notin fl
    BY <2>2, SignedType
  <2> QED BY <2>1, <2>2
<1>4. PICK convert \in Seq(Octets) :
        convert = Convert(uvalue, base, 20, DigitChars \o (IF "up" \in fl THEN Upper ELSE Lower))
  BY ConvertType, BaseGlyphs, 20 \in Nat \ {0}
<1>5. PICK c \in Nat, g \in Nat : c = Len(convert) /\ g = Len(sign)
  OBVIOUS
<1>6. PICK z \in Nat : z = AtLeast0(AtLeast0(hi) - Len(convert))
  BY <1>5 DEF AtLeast0
<1>7. PICK s \in Nat : s = AtLeast0(Wrap(lo - Larger(AtLeast0(hi), Len(convert)) - Len(sign)))
  <2>1. lo - Larger(AtLeast0(hi), c) - g \in Int
    BY DEF AtLeast0, Larger
  <2> QED BY <1>5, <2>1, AtLeast0Type, WrapType
<1>8. PICK zpadlen \in Nat : zpadlen = IF "0" \in fl THEN Larger(z, s) ELSE z
  BY DEF Larger
<1>9. PICK spadlen \in Nat : spadlen = IF "0" \in fl THEN 0 ELSE s
  OBVIOUS
<1>10. PICK spaces \in Seq(Octets) : spaces = Repeat(Blank, spadlen)
  BY RepeatType, Literals
<1>11. PICK number \in Seq(Octets) : number = sign \o Repeat("0", zpadlen) \o Reverse(convert)
  <2>1. PICK a \in Seq(Octets), b \in Seq(Octets) : a = Repeat("0", zpadlen) /\ b = Reverse(convert)
    BY RepeatType, ReverseType, Literals
  <2>2. sign \o a \o b \in Seq(Octets)
    BY JoinType
  <2> QED BY <2>1, <2>2
<1>12. fmtint(value, base, lo, hi, fl) = IF "-" \in fl THEN number \o spaces ELSE spaces \o number
  BY <1>1, <1>2, <1>3, <1>4, <1>6, <1>7, <1>8, <1>9, <1>10, <1>11, Zenon DEF fmtint
<1> QED BY <1>12, JoinType

(* The powers of ten exist, and are positive.                              *)
Powers(f, n) == f \in [0..n -> Nat \ {0}] /\ f[0] = 1 /\ \A k \in 1..n : f[k] = 10 * f[k - 1]

LEMMA PowersExist == ASSUME NEW N \in Nat PROVE \E f : Powers(f, N)
<1> DEFINE D == {n \in Nat : ~\E f : Powers(f, n)}
<1> SUFFICES ASSUME D # {} PROVE FALSE
  OBVIOUS
<1>1. D \in SUBSET Nat
  OBVIOUS
<1>2. PICK x \in D : \A y \in D : x <= y
  BY <1>1, LeastOf
<1>3. x \in Nat /\ ~\E f : Powers(f, x)
  OBVIOUS
<1>4. x # 0
  <2>1. PICK f : f = [n \in 0..0 |-> 1]
    OBVIOUS
  <2>2. Powers(f, 0)
    BY <2>1 DEF Powers
  <2> QED BY <1>3, <2>2
<1>5. PICK y \in Nat : x = y + 1 /\ ~(x <= y)
  BY <1>3, <1>4
<1>6. y \notin D
  <2> HIDE DEF D
  <2> QED BY <1>2, <1>5
<1>7. PICK f : Powers(f, y)
  BY <1>6
<1>8. PICK a \in Nat \ {0} : a = 10 * f[y]
  BY <1>7 DEF Powers
<1>9. PICK g : g = [n \in 0..x |-> IF n = x THEN a ELSE f[n]]
  OBVIOUS
<1>10. g \in [0..x -> Nat \ {0}] /\ g[0] = 1
  BY <1>5, <1>7, <1>8, <1>9 DEF Powers
<1>11. ASSUME NEW k \in 1..x PROVE g[k] = 10 * g[k - 1]
  <2>1. CASE k = x
    <3>1. k - 1 = y /\ k - 1 \in 0..x /\ k - 1 # x
      BY <1>5, <2>1
    <3>2. g[k - 1] = f[y] /\ g[k] = a
      BY <1>9, <2>1, <3>1
    <3> QED BY <1>8, <3>2
  <2>2. CASE k # x
    <3>1. k \in 1..y /\ k \in 0..x /\ k - 1 \in 0..x /\ k - 1 # x
      BY <1>5, <2>2
    <3>2. g[k] = f[k] /\ g[k - 1] = f[k - 1]
      BY <1>9, <2>2, <3>1
    <3> QED BY <1>7, <3>1, <3>2 DEF Powers
  <2> QED BY <2>1, <2>2
<1> QED BY <1>3, <1>10, <1>11 DEF Powers

PowersBody(f) == [exp \in 0..16 |-> IF exp = 0 THEN 1 ELSE 10 * f[exp - 1]]

LEMMA POW10Type == \A n \in 0..16 : POW10[n] \in Nat \ {0}
<1>1. PICK N \in Nat : N = 16
  OBVIOUS
<1>2. PICK f : Powers(f, N)
  BY PowersExist
<1>3. f = PowersBody(f)
  <2>1. \A n \in 0..N : f[n] = IF n = 0 THEN 1 ELSE 10 * f[n - 1]
    BY <1>2 DEF Powers
  <2>2. f = [n \in 0..N |-> f[n]]
    BY <1>2 DEF Powers
  <2> QED BY <1>1, <2>1, <2>2, Zenon DEF PowersBody
<1>4. PICK g : g = POW10 /\ g = PowersBody(g)
  BY <1>3, Zenon DEF POW10, PowersBody
<1>5. g[0] = 1 /\ \A n \in 0..N : n # 0 => g[n] = 10 * g[n - 1]
  <2>1. \A n \in 0..N : g[n] = IF n = 0 THEN 1 ELSE 10 * g[n - 1]
    BY <1>1, <1>4, Zenon DEF PowersBody
  <2>2. 0 \in 0..N
    OBVIOUS
  <2> QED BY <2>1, <2>2, Zenon
<1> DEFINE D == {n \in 0..N : g[n] \notin Nat \ {0}}
<1>6. D = {}
  <2> SUFFICES ASSUME D # {} PROVE FALSE
    OBVIOUS
  <2>1. D \in SUBSET Nat
    OBVIOUS
  <2>2. PICK x \in D : \A y \in D : x <= y
    BY <2>1, LeastOf
  <2>3. x \in 0..N /\ g[x] \notin Nat \ {0}
    OBVIOUS
  <2>4. x # 0
    BY <1>5, <2>3
  <2>5. x - 1 \in 0..N /\ ~(x <= x - 1)
    BY <2>3, <2>4
  <2>6. x - 1 \notin D
    <3> HIDE DEF D
    <3> QED BY <2>2, <2>5
  <2>7. PICK a \in Nat \ {0} : a = g[x - 1]
    BY <2>5, <2>6
  <2>8. g[x] = 10 * a
    BY <1>5, <2>3, <2>4, <2>7
  <2> QED BY <2>3, <2>8
<1> QED BY <1>1, <1>4, <1>6

LEMMA ROUNDType == ASSUME NEW value \in Nat PROVE ROUND(value) \in Int
<1>1. PICK s \in Nat \ {0} : s = FScale
  BY PrintfAssumption
<1>2. PICK q \in Nat : q = value \div s
  OBVIOUS
<1>3. PICK intpart \in Int : intpart = IF value \div FScale > LongMax THEN -(LongMax + 1)
                                      ELSE value \div FScale
  BY <1>1, <1>2, LongMaxType
<1>4. PICK up \in 0..1 :
        up = IF value - intpart * FScale >= (FScale + 1) \div 2 THEN 1 ELSE 0
  OBVIOUS
<1>5. ROUND(value) = Wrap(intpart + up)
  BY <1>3, <1>4, Zenon DEF ROUND
<1>6. intpart + up \in Int
  OBVIOUS
<1> QED BY <1>5, <1>6, WrapType

(* The whole part of a number is not more than the number.                 *)
LEMMA my_modfType ==
  ASSUME NEW x \in Nat PROVE my_modf(x) \in Nat /\ x - my_modf(x) * FScale \in Nat
<1>1. PICK s \in Nat \ {0} : s = FScale
  BY PrintfAssumption
<1>2. PICK q \in Nat : q = x \div s /\ x - q * s \in Nat
  OBVIOUS
<1>3. my_modf(x) = q \/ my_modf(x) = 0
  BY <1>1, <1>2 DEF my_modf
<1>4. CASE my_modf(x) = q
  BY <1>1, <1>2, <1>4
<1>5. CASE my_modf(x) = 0
  <2>1. 0 * s = 0
    OBVIOUS
  <2> QED BY <1>1, <1>5, <2>1
<1> QED BY <1>3, <1>4, <1>5

LEMMA PrintFpType ==
  ASSUME NEW sign \in Seq(Octets), Len(sign) \in 0..1, NEW iconvert \in Seq(Octets),
         NEW fconvert \in Seq(Octets), NEW prec \in 0..16, NEW lo \in Int, NEW fl
  PROVE  PrintFp(sign, iconvert, fconvert, prec, lo, fl) \in Seq(Octets)
<1>1. PICK padlen \in Nat : padlen = AtLeast0(Wrap(lo - Len(iconvert) - prec - 1 - Len(sign)))
  <2>1. lo - Len(iconvert) - prec - 1 - Len(sign) \in Int
    OBVIOUS
  <2> QED BY <2>1, AtLeast0Type, WrapType
<1>2. PICK zeros : zeros = ("0" \in fl /\ "-" \notin fl /\ padlen > 0)
  OBVIOUS
<1>3. PICK padding \in Seq(Octets) : padding = Repeat(Blank, padlen)
  BY RepeatType, Literals
<1>4. PICK front \in Seq(Octets) :
         front = IF "-" \in fl THEN sign
                 ELSE IF zeros THEN sign \o Repeat("0", padlen - Len(sign))
                 ELSE Repeat(Blank, padlen) \o sign
  <2>1. CASE "-" \in fl
    BY <2>1, Zenon
  <2>2. CASE "-" \notin fl /\ zeros
    <3>1. padlen > 0
      BY <1>2, <2>2, Zenon
    <3>2. padlen - Len(sign) \in Nat
      <4>1. PICK g \in 0..1 : g = Len(sign)
        OBVIOUS
      <4>2. padlen - g \in Nat
        BY <3>1
      <4> QED BY <4>1, <4>2
    <3>3. PICK z \in Seq(Octets) : z = Repeat("0", padlen - Len(sign))
      BY <3>2, RepeatType, Literals
    <3>4. sign \o z \in Seq(Octets)
      BY JoinType
    <3> QED BY <2>2, <3>3, <3>4, Zenon
  <2>3. CASE "-" \notin fl /\ ~zeros
    <3>1. padding \o sign \in Seq(Octets)
      BY JoinType
    <3> QED BY <1>3, <2>3, <3>1, Zenon
  <2> QED BY <2>1, <2>2, <2>3, Zenon
<1>5. PICK point \in Seq(Octets) : point = IF prec > 0 THEN <<".">> \o Reverse(fconvert) ELSE <<>>
  <2>1. PICK r \in Seq(Octets) : r = Reverse(fconvert)
    BY ReverseType
  <2>2. <<".">> \in Seq(Octets)
    BY Literals
  <2>3. <<".">> \o r \in Seq(Octets) /\ <<>> \in Seq(Octets)
    BY <2>2, JoinType
  <2> QED BY <2>1, <2>3, Zenon
<1>6. PICK back \in Seq(Octets) :
         back = Repeat("0", AtLeast0(prec - Len(fconvert)))
                \o (IF "-" \in fl THEN Repeat(Blank, padlen) ELSE <<>>)
  <2>1. prec - Len(fconvert) \in Int
    OBVIOUS
  <2>2. PICK z \in Seq(Octets) : z = Repeat("0", AtLeast0(prec - Len(fconvert)))
    BY <2>1, AtLeast0Type, RepeatType, Literals
  <2>3. PICK t \in Seq(Octets) : t = IF "-" \in fl THEN Repeat(Blank, padlen) ELSE <<>>
    BY <1>3, <<>> \in Seq(Octets), Zenon
  <2>4. z \o t \in Seq(Octets)
    BY JoinType
  <2> QED BY <2>2, <2>3, <2>4, Zenon
<1>7. PICK whole \in Seq(Octets) : whole = Reverse(iconvert)
  BY ReverseType
<1>8. PrintFp(sign, iconvert, fconvert, prec, lo, fl) = front \o whole \o point \o back
  BY <1>1, <1>2, <1>4, <1>5, <1>6, <1>7, Zenon DEF PrintFp
<1>9. front \o whole \in Seq(Octets)
  BY JoinType
<1>10. front \o whole \o point \in Seq(Octets)
  BY <1>9, JoinType
<1> QED BY <1>8, <1>10, JoinType

LEMMA fmtfpType ==
  ASSUME NEW fvalue \in Int, NEW lo \in Int, NEW hi \in Int, NEW fl
  PROVE  fmtfp(fvalue, lo, hi, fl) \in Seq(Octets)
<1>0. FpSize \in Nat \ {0}
  BY SMT DEF FpSize
<1>1. PICK prec \in 0..16 : prec = IF hi < 0 THEN 6 ELSE IF hi > 16 THEN 16 ELSE hi
  OBVIOUS
<1>2. PICK ufvalue \in Nat : ufvalue = IF fvalue < 0 THEN -fvalue ELSE fvalue
  OBVIOUS
<1>3. PICK sign \in Seq(Octets) : sign = Signed(fvalue < 0, fl) /\ Len(sign) \in 0..1
  BY SignedType
<1>4. PICK ten \in Nat \ {0} : ten = POW10[prec]
  BY POW10Type
<1>5. PICK intpart \in Nat : intpart = my_modf(ufvalue) /\ ufvalue - intpart * FScale \in Nat
  BY my_modfType
<1>6. PICK rounded \in Int : rounded = ROUND(POW10[prec] * (ufvalue - intpart * FScale))
  <2>1. PICK f \in Nat : f = ufvalue - intpart * FScale
    BY <1>5
  <2>2. ten * f \in Nat
    OBVIOUS
  <2> QED BY <1>4, <2>1, <2>2, ROUNDType
<1>7. PICK carry \in 0..1, fracpart \in Int :
        /\ carry = IF rounded >= POW10[prec] THEN 1 ELSE 0
        /\ fracpart = rounded - carry * POW10[prec]
  <2>1. PICK carry \in 0..1 : carry = IF rounded >= POW10[prec] THEN 1 ELSE 0
    BY <1>4
  <2>2. carry * ten \in Int
    OBVIOUS
  <2>3. rounded - carry * ten \in Int
    BY <2>2
  <2> QED BY <1>4, <2>1, <2>3
<1>8. PICK iconvert \in Seq(Octets) : iconvert = Convert(intpart + carry, 10, FpSize, DigitChars)
  <2>1. intpart + carry \in Nat
    OBVIOUS
  <2> QED BY <2>1, <1>0, ConvertType, DigitGlyphs, 10 \in {8, 10, 16}
<1>9. PICK fconvert \in Seq(Octets) :
        fconvert = IF fracpart = 0 THEN <<>>
                   ELSE IF fracpart > 0 THEN Convert(fracpart, 10, FpSize, DigitChars)
                   ELSE Convert(-fracpart, 10, FpSize, Negative)
  <2>1. CASE fracpart = 0
    BY <2>1, <<>> \in Seq(Octets)
  <2>2. CASE fracpart > 0
    <3>1. fracpart \in Nat
      BY <2>2
    <3>2. Convert(fracpart, 10, FpSize, DigitChars) \in Seq(Octets)
      BY <3>1, <1>0, ConvertType, DigitGlyphs, 10 \in {8, 10, 16}
    <3> QED BY <2>2, <3>2
  <2>3. CASE fracpart < 0
    <3>1. -fracpart \in Nat
      BY <2>3
    <3>2. Convert(-fracpart, 10, FpSize, Negative) \in Seq(Octets)
      BY <3>1, <1>0, ConvertType, DigitGlyphs, 10 \in {8, 10, 16}
    <3> QED BY <2>3, <3>2
  <2> QED BY <2>1, <2>2, <2>3
<1>10. fmtfp(fvalue, lo, hi, fl) = PrintFp(sign, iconvert, fconvert, prec, lo, fl)
  BY <1>1, <1>2, <1>3, <1>5, <1>6, <1>7, <1>8, <1>9, Zenon DEF fmtfp
<1> QED BY <1>3, <1>10, PrintFpType

-----------------------------------------------------------------------------
(* The inductive invariant of dopr.  When it is done, the terminator is    *)
(* behind the last character that fits.                                    *)
EndOf(n, m) == IF n < m THEN n ELSE m - 1

Ended(o, m) ==
  /\ o.len \in 0..SizeMax
  /\ \A i \in DOMAIN o.data : i \in Nat /\ i < m
  /\ m > 0 => /\ 0..EndOf(o.len, m) \subseteq DOMAIN o.data
              /\ o.data[EndOf(o.len, m)] = NUL
              /\ ~o.nul => \A i \in 0..EndOf(o.len, m) - 1 : o.data[i] \in Chars

PrintfInv ==
  /\ call \in Calls /\ args \in Seq(Passed) /\ pos \in Nat \ {0}
  /\ maxlen \in Nat /\ min \in Int /\ max \in Int
  /\ state # "DONE" => Filled(out, maxlen)
  /\ state = "DONE" => Ended(out, maxlen)

LEMMA CallType ==
  ASSUME NEW c \in Calls
  PROVE  c.format \in Seq(Octets) /\ c.args \in Seq(Passed) /\ FirstSize(c) \in Nat
BY PrintfAssumption DEF FirstSize

LEMMA NothingFilled == ASSUME NEW m \in Nat PROVE Filled(Nothing, m)
<1>1. /\ Nothing = [len |-> 0, data |-> <<>>, nul |-> FALSE]
      /\ Nothing.len = 0 /\ Nothing.data = <<>> /\ Nothing.nul = FALSE
  BY DEF Nothing
<1>2. Room(0, m) = {} /\ 0 \in 0..SizeMax
  BY PrintfAssumption DEF Room
<1>3. DOMAIN <<>> = {}
  OBVIOUS
<1> QED BY <1>1, <1>2, <1>3 DEF Filled

LEMMA PrintfStarts == PrintfInit => PrintfInv
<1> SUFFICES ASSUME PrintfInit PROVE PrintfInv
  OBVIOUS
<1>1. /\ call \in Calls /\ args = call.args /\ maxlen = FirstSize(call) /\ out = Nothing
      /\ state = "DEFAULT" /\ pos = 1 /\ min = 0 /\ max = -1
  BY DEF PrintfInit
<1>2. args \in Seq(Passed) /\ maxlen \in Nat
  BY <1>1, CallType
<1>3. Filled(out, maxlen)
  BY <1>1, <1>2, NothingFilled
<1> QED BY <1>1, <1>2, <1>3 DEF PrintfInv

LEMMA ChType == ASSUME PrintfInv, Ch # NUL PROVE Ch \in Octets
<1>1. PICK s \in Seq(Octets), p \in Nat \ {0} : s = call.format /\ p = pos
  BY CallType DEF PrintfInv
<1>2. p <= Len(s) /\ Ch = s[p]
  BY <1>1 DEF Ch
<1> QED BY <1>1, <1>2

LEMMA OneChar == ASSUME NEW c \in Octets PROVE <<c>> \in Seq(Octets)
OBVIOUS

(* The argument is of the type its conversion asks for.                    *)
LEMMA ArgType ==
  ASSUME PrintfInv, NEW k, Passes(k)
  PROVE  /\ Tail(args) \in Seq(Passed)
         /\ k \notin {"c", "s"} => Arg \in Int
         /\ k = "c" => Arg \in Octets
         /\ k = "s" => Arg \in Seq(Octets) \cup {NUL}
<1>1. PICK s \in Seq(Passed) : s = args /\ s # <<>> /\ Head(s)[1] = k
  BY DEF PrintfInv, Passes
<1>2. PICK a \in Passed : a = Head(s) /\ a[1] = k
  BY <1>1
<1>3. Tail(s) \in Seq(Passed)
  BY <1>1
<1>4. /\ k \notin {"c", "s"} => a[2] \in Int
      /\ k = "c" => a[2] \in Octets
      /\ k = "s" => a[2] \in Seq(Octets) \cup {NUL}
  <2>1. Longs \subseteq Int
    BY LongMaxType DEF Longs
  <2>2. Seq(Chars) \subseteq Seq(Octets)
    <3>1. Chars \subseteq Octets
      BY DEF Octets
    <3> QED BY <3>1
  <2> QED BY <1>2, <2>1, <2>2 DEF Passed
<1> QED BY <1>1, <1>2, <1>3, <1>4 DEF Arg

LEMMA DigitValues == ASSUME NEW c, IsDigit(c) PROVE char_to_int(c) \in 0..9
<1>1. \E i \in 1..10 : DigitChars[i] = c
  BY DEF IsDigit, Range, DigitChars
<1>2. PICK i \in 1..10 : i = (CHOOSE j \in 1..10 : DigitChars[j] = c)
  BY <1>1, Zenon
<1>3. char_to_int(c) = i - 1
  BY <1>2, Zenon DEF char_to_int
<1> QED BY <1>3

(* A step that prints s, or nothing, and leaves the state of a directive.  *)
LEMMA Prints ==
  ASSUME PrintfInv, state # "DONE", state' # "DONE", UNCHANGED <<call, maxlen>>,
         pos' \in Nat \ {0}, min' \in Int, max' \in Int, args' \in Seq(Passed),
         out' = out \/ \E s \in Seq(Octets) : out' = Printed(s)
  PROVE  PrintfInv'
<1>1. maxlen \in Nat /\ Filled(out, maxlen)
  BY DEF PrintfInv
<1>2. Filled(out', maxlen)
  BY <1>1, PrintedFills
<1>3. Filled(out, maxlen)'
  BY <1>2 DEF Filled, Room
<1> QED BY <1>3 DEF PrintfInv

LEMMA ReadingStep ==
  ASSUME PrintfInv, Default \/ Flags \/ Width \/ Dot \/ Precision \/ Modifier PROVE PrintfInv'
<1>1. call \in Calls /\ args \in Seq(Passed) /\ pos \in Nat \ {0} /\ min \in Int /\ max \in Int
  BY DEF PrintfInv
<1>2. CASE Default
  <2>1. /\ state # "DONE" /\ state' # "DONE" /\ Ch # NUL
        /\ UNCHANGED <<call, maxlen, args, min, max>> /\ pos' = pos + 1
    BY <1>2 DEF Default, Reading, Next1
  <2>2. out' = out \/ out' = Printed(<<Ch>>)
    BY <1>2 DEF Default
  <2>3. \E s \in Seq(Octets) : s = <<Ch>>
    BY <2>1, ChType, OneChar
  <2>4. out' = out \/ \E s \in Seq(Octets) : out' = Printed(s)
    BY <2>2, <2>3, Zenon
  <2>5. pos' \in Nat \ {0}
    BY <1>1, <2>1
  <2> QED BY <1>1, <2>1, <2>4, <2>5, Prints
<1>3. CASE Flags
  <2>1. /\ state # "DONE" /\ state' # "DONE" /\ UNCHANGED <<call, maxlen, args, min, max, out>>
        /\ pos' \in Nat \ {0}
    BY <1>1, <1>3 DEF Flags, Reading, Next1
  <2> QED BY <1>1, <2>1, Prints
<1>4. CASE Width
  <2>1. /\ state # "DONE" /\ state' # "DONE" /\ UNCHANGED <<call, maxlen, max, out>>
        /\ pos' \in Nat \ {0}
    BY <1>1, <1>4 DEF Width, Reading, Next1
  <2>2. \/ IsDigit(Ch) /\ min' = Wrap(10 * min + char_to_int(Ch)) /\ args' = args
        \/ Passes("*") /\ min' = Arg /\ args' = Tail(args)
        \/ min' = min /\ args' = args
    BY <1>4 DEF Width
  <2>3. min' \in Int /\ args' \in Seq(Passed)
    <3>1. ASSUME IsDigit(Ch) PROVE Wrap(10 * min + char_to_int(Ch)) \in Int
      <4>1. char_to_int(Ch) \in 0..9
        BY <3>1, DigitValues
      <4>2. 10 * min + char_to_int(Ch) \in Int
        BY <1>1, <4>1
      <4> QED BY <4>2, WrapType
    <3>2. ASSUME Passes("*") PROVE Arg \in Int /\ Tail(args) \in Seq(Passed)
      <4>1. "*" \notin {"c", "s"}
        OBVIOUS
      <4> QED BY <3>2, <4>1, ArgType
    <3> QED BY <1>1, <2>2, <3>1, <3>2
  <2> QED BY <1>1, <2>1, <2>3, Prints
<1>5. CASE Dot
  <2>1. /\ state # "DONE" /\ state' # "DONE" /\ UNCHANGED <<call, maxlen, args, min, max, out>>
        /\ pos' \in Nat \ {0}
    BY <1>1, <1>5 DEF Dot, Reading, Next1
  <2> QED BY <1>1, <2>1, Prints
<1>6. CASE Precision
  <2>1. /\ state # "DONE" /\ state' # "DONE" /\ UNCHANGED <<call, maxlen, min, out>>
        /\ pos' \in Nat \ {0}
    BY <1>1, <1>6 DEF Precision, Reading, Next1
  <2>2. \/ IsDigit(Ch) /\ max' = Wrap(10 * AtLeast0(max) + char_to_int(Ch)) /\ args' = args
        \/ Passes("*") /\ max' = Arg /\ args' = Tail(args)
        \/ max' = max /\ args' = args
    BY <1>6 DEF Precision
  <2>3. max' \in Int /\ args' \in Seq(Passed)
    <3>1. ASSUME IsDigit(Ch) PROVE Wrap(10 * AtLeast0(max) + char_to_int(Ch)) \in Int
      <4>1. char_to_int(Ch) \in 0..9 /\ AtLeast0(max) \in Nat
        BY <1>1, <3>1, DigitValues, AtLeast0Type
      <4>2. 10 * AtLeast0(max) + char_to_int(Ch) \in Int
        BY <4>1
      <4> QED BY <4>2, WrapType
    <3>2. ASSUME Passes("*") PROVE Arg \in Int /\ Tail(args) \in Seq(Passed)
      <4>1. "*" \notin {"c", "s"}
        OBVIOUS
      <4> QED BY <3>2, <4>1, ArgType
    <3> QED BY <1>1, <2>2, <3>1, <3>2
  <2> QED BY <1>1, <2>1, <2>3, Prints
<1>7. CASE Modifier
  <2>1. /\ state # "DONE" /\ state' # "DONE" /\ UNCHANGED <<call, maxlen, args, min, max, out>>
        /\ pos' \in Nat \ {0}
    BY <1>1, <1>7 DEF Modifier, Reading
  <2> QED BY <1>1, <2>1, Prints
<1> QED BY <1>2, <1>3, <1>4, <1>5, <1>6, <1>7

(* A conversion prints characters, if anything, and reads one argument at  *)
(* the most.                                                               *)
LEMMA Converts ==
  ASSUME PrintfInv, Ch # NUL,
         \/ ConvInt \/ ConvFloat \/ ConvExponent \/ ConvChar \/ ConvString
         \/ ConvPointer \/ ConvCount \/ ConvPercent \/ ConvOther
  PROVE  /\ args' \in Seq(Passed)
         /\ out' = out \/ \E s \in Seq(Octets) : out' = Printed(s)
<1>1. args \in Seq(Passed) /\ min \in Int /\ max \in Int
  BY DEF PrintfInv
<1>2. ASSUME Passes(Ch), args' = Tail(args) PROVE args' \in Seq(Passed)
  BY <1>2, ArgType
<1>3. CASE ConvInt
  <2>1. Passes(Ch) /\ args' = Tail(args) /\ Ch \notin {"c", "s"}
    BY <1>3 DEF ConvInt
  <2>2. Arg \in Int
    BY <2>1, ArgType
  <2>3. PICK fl, base : out' = Printed(fmtint(Arg, base, min, max, fl)) /\ base \in {8, 10, 16}
    BY <1>3 DEF ConvInt
  <2>4. fmtint(Arg, base, min, max, fl) \in Seq(Octets)
    BY <1>1, <2>2, <2>3, fmtintType
  <2> QED BY <1>2, <2>1, <2>3, <2>4
<1>4. CASE ConvFloat
  <2>1. Passes(Ch) /\ args' = Tail(args) /\ Ch \notin {"c", "s"}
        /\ out' = Printed(fmtfp(Arg, min, max, flags))
    BY <1>4 DEF ConvFloat
  <2>2. Arg \in Int
    BY <2>1, ArgType
  <2>3. fmtfp(Arg, min, max, flags) \in Seq(Octets)
    BY <1>1, <2>2, fmtfpType
  <2> QED BY <1>2, <2>1, <2>3
<1>5. CASE ConvExponent \/ ConvCount
  BY <1>2, <1>5 DEF ConvExponent, ConvCount
<1>6. CASE ConvChar
  <2>1. Passes(Ch) /\ args' = Tail(args) /\ Ch = "c" /\ out' = Printed(<<Arg>>)
    BY <1>6 DEF ConvChar
  <2>2. Arg \in Octets
    BY <2>1, ArgType
  <2>3. <<Arg>> \in Seq(Octets)
    BY <2>2, OneChar
  <2> QED BY <1>2, <2>1, <2>3
<1>7. CASE ConvString
  <2>1. Passes(Ch) /\ args' = Tail(args) /\ Ch = "s" /\ (max = -1 => Arg # NUL)
    BY <1>7 DEF ConvString
  <2>2. PICK v \in Seq(Octets) \cup {NUL} : v = Arg
    BY <2>1, ArgType
  <2>3. PICK hi : hi = IF max = -1 THEN Len(v) ELSE max
    OBVIOUS
  <2>4. hi \in Int
    BY <1>1, <2>1, <2>2, <2>3
  <2>5. PICK h : h = IF min > 0 /\ hi >= 0 /\ min > hi THEN min ELSE hi
    OBVIOUS
  <2>6. h \in Int
    BY <1>1, <2>4, <2>5
  <2>7. out' = Printed(fmtstr(v, flags, min, h))
    BY <1>7, <2>2, <2>3, <2>5, Zenon DEF ConvString
  <2>8. fmtstr(v, flags, min, h) \in Seq(Octets)
    BY <1>1, <2>6, fmtstrType
  <2> QED BY <1>2, <2>1, <2>7, <2>8
<1>8. CASE ConvPointer
  <2>1. Passes(Ch) /\ args' = Tail(args) /\ Ch \notin {"c", "s"}
        /\ out' = Printed(fmtint(Arg, 16, min, max, flags))
    BY <1>8 DEF ConvPointer
  <2>2. Arg \in Int
    BY <2>1, ArgType
  <2>3. fmtint(Arg, 16, min, max, flags) \in Seq(Octets)
    BY <1>1, <2>2, fmtintType, 16 \in {8, 10, 16}
  <2> QED BY <1>2, <2>1, <2>3
<1>9. CASE ConvPercent
  <2>1. out' = Printed(<<Ch>>) /\ args' = args
    BY <1>9 DEF ConvPercent
  <2>2. <<Ch>> \in Seq(Octets)
    BY ChType, OneChar
  <2> QED BY <1>1, <2>1, <2>2
<1>10. CASE ConvOther
  BY <1>1, <1>10 DEF ConvOther
<1> QED BY <1>3, <1>4, <1>5, <1>6, <1>7, <1>8, <1>9, <1>10

LEMMA ConvStep == ASSUME PrintfInv, Conv PROVE PrintfInv'
<1>1. /\ state # "DONE" /\ state' # "DONE" /\ Ch # NUL /\ UNCHANGED <<call, maxlen>>
      /\ min' = 0 /\ max' = -1 /\ pos' = pos + (IF Ch = "w" THEN 2 ELSE 1)
  BY DEF Conv, Reading
<1>2. pos' \in Nat \ {0} /\ min' \in Int /\ max' \in Int
  BY <1>1 DEF PrintfInv
<1>3. \/ ConvInt \/ ConvFloat \/ ConvExponent \/ ConvChar \/ ConvString
      \/ ConvPointer \/ ConvCount \/ ConvPercent \/ ConvOther
  BY DEF Conv
<1>4. args' \in Seq(Passed) /\ (out' = out \/ \E s \in Seq(Octets) : out' = Printed(s))
  BY <1>1, <1>3, Converts
<1> QED BY <1>1, <1>2, <1>4, Prints

LEMMA DoneStep == ASSUME PrintfInv, Done PROVE PrintfInv'
<1>1. /\ state # "DONE" /\ state' = "DONE" /\ UNCHANGED <<call, maxlen, args, pos, min, max>>
      /\ Filled(out, maxlen)
  BY DEF Done, PrintfInv
<1>2. PICK m \in Nat, n \in Nat, d \in {out.data}, z \in BOOLEAN :
        m = maxlen /\ n = out.len /\ d = out.data /\ z = out.nul
  BY <1>1, PrintfAssumption DEF PrintfInv, Filled
<1>3. /\ n \in 0..SizeMax /\ Room(n, m) \subseteq DOMAIN d
      /\ \A i \in DOMAIN d : i \in Nat /\ i < m
      /\ ~z => \A i \in DOMAIN d : d[i] \in Chars
      /\ out = [len |-> n, data |-> d, nul |-> z]
  BY <1>1, <1>2 DEF Filled
<1>4. Ended(out', m)
  <2>1. CASE m = 0
    <3>1. out' = out
      BY <1>2, <2>1 DEF Done
    <3> QED BY <1>2, <1>3, <2>1, <3>1 DEF Ended
  <2>2. CASE m > 0
    <3>1. PICK k \in Nat : k = EndOf(n, m)
      BY <2>2 DEF EndOf
    <3>2. k = (IF n < m - 1 THEN n ELSE m - 1) /\ k < m
      BY <2>2, <3>1 DEF EndOf
    <3>3. PICK e : e = Stored(d, k, NUL)
      OBVIOUS
    <3>4. out' = [len |-> n, data |-> e, nul |-> z]
      BY <1>2, <1>3, <2>2, <3>2, <3>3 DEF Done
    <3>5. \A i \in 0..k - 1 : i \in Room(n, m) /\ i # k
      BY <2>2, <3>2 DEF Room
    <3>6. e = [i \in DOMAIN d \cup {k} |-> IF i = k THEN NUL ELSE d[i]]
      BY <3>3 DEF Stored
    <3>7. /\ \A i \in DOMAIN e : i \in Nat /\ i < m
          /\ \A i \in 0..k : i \in DOMAIN e
          /\ e[k] = NUL
          /\ ~z => \A i \in 0..k - 1 : e[i] \in Chars
      <4>1. \A i \in 0..k : i = k \/ i \in 0..k - 1
        OBVIOUS
      <4> QED BY <1>3, <3>2, <3>5, <3>6, <4>1
    <3> QED BY <1>3, <2>2, <3>1, <3>4, <3>7 DEF Ended
  <2> QED BY <2>1, <2>2
<1>5. Ended(out, maxlen)'
  BY <1>1, <1>2, <1>4
<1> QED BY <1>1, <1>5 DEF PrintfInv

LEMMA AgainStep == ASSUME PrintfInv, vasprintf PROVE PrintfInv'
<1>1. /\ state = "DONE" /\ state' = "DEFAULT" /\ maxlen' = out.len + 1 /\ args' = call.args
      /\ pos' = 1 /\ min' = 0 /\ max' = -1 /\ out' = Nothing /\ call' = call
  BY DEF vasprintf
<1>2. PICK m \in Nat : m = maxlen'
  BY <1>1, PrintfAssumption DEF PrintfInv, Ended
<1>3. call \in Calls /\ call.args \in Seq(Passed)
  BY CallType DEF PrintfInv
<1>4. Filled(Nothing, m)
  BY NothingFilled
<1>5. Filled(out, maxlen)'
  BY <1>1, <1>2, <1>4
<1> QED BY <1>1, <1>2, <1>3, <1>5 DEF PrintfInv

(* For every format, whatever follows it in memory, all arguments that fit *)
(* it and every buffer: snprintf, sprintf, printf and asprintf store no    *)
(* byte outside the buffer, and leave a terminated string in it that is as *)
(* long as the output or, if that does not fit, as the buffer permits,     *)
(* unless a '\0' was itself printed (dopr and all it calls).  Widths,      *)
(* precisions and the digits of a fraction wrap around as an int does.     *)
THEOREM OutputInBuffer == PrintfSpec => []StaysInBuffer
<1>1. PrintfInit => PrintfInv
  BY PrintfStarts
<1>2. PrintfInv /\ [PrintfNext]_printfVars => PrintfInv'
  <2> SUFFICES ASSUME PrintfInv, [PrintfNext]_printfVars PROVE PrintfInv'
    OBVIOUS
  <2>1. CASE UNCHANGED printfVars
    BY <2>1 DEF printfVars, PrintfInv, Filled, Ended
  <2> QED BY <2>1, ReadingStep, ConvStep, DoneStep, AgainStep DEF PrintfNext
<1>3. PrintfInv => StaysInBuffer
  <2> SUFFICES ASSUME PrintfInv PROVE StaysInBuffer
    OBVIOUS
  <2>1. PICK m \in Nat, n \in {out.len}, d \in {out.data} : m = maxlen /\ n = out.len /\ d = out.data
    BY DEF PrintfInv
  <2>2. n \in Nat
    BY <2>1, PrintfAssumption DEF PrintfInv, Filled, Ended
  <2>3. CASE state # "DONE"
    <3>1. \A i \in DOMAIN d : i \in Nat /\ i < m
      BY <2>1, <2>3 DEF PrintfInv, Filled
    <3>2. \A i \in DOMAIN d : i \in 0..m - 1
      BY <3>1
    <3> QED BY <2>1, <2>3, <3>2 DEF StaysInBuffer
  <2>4. CASE state = "DONE" /\ m = 0
    <3>1. DOMAIN d = {}
      BY <2>1, <2>4 DEF PrintfInv, Ended
    <3> QED BY <2>1, <2>4, <3>1 DEF StaysInBuffer
  <2>5. CASE state = "DONE" /\ m > 0
    <3>1. PICK k \in 0..m - 1 : k = EndOf(n, m)
      BY <2>2, <2>5 DEF EndOf
    <3>2. /\ \A i \in DOMAIN d : i \in Nat /\ i < m
          /\ d[k] = NUL /\ (~out.nul => \A i \in 0..k - 1 : d[i] \in Chars)
      BY <2>1, <2>5, <3>1 DEF PrintfInv, Ended
    <3>3. \A i \in DOMAIN d : i \in 0..m - 1
      BY <3>2
    <3>4. ~out.nul => \A i \in 0..k - 1 : d[i] # NUL
      BY <3>2, PrintfAssumption
    <3>5. k = IF n < m THEN n ELSE m - 1
      BY <3>1 DEF EndOf
    <3> QED BY <2>1, <3>2, <3>3, <3>4, <3>5, Zenon DEF StaysInBuffer
  <2> QED BY <2>3, <2>4, <2>5
<1> QED BY <1>1, <1>2, <1>3, PTL DEF PrintfSpec
=============================================================================
