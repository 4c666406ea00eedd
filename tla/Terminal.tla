------------------------------ MODULE Terminal ------------------------------
(***************************************************************************)
(* What the console shows: an endless roll of paper.  Characters go to the *)
(* end of the last line, which is as wide as the screen; nothing that was  *)
(* written is ever changed.                                                *)
(***************************************************************************)
EXTENDS Naturals, Sequences

CONSTANTS
  columns,
  Glyphs,     \* the characters that can be written
  Space       \* what an empty cell shows

VARIABLES
  paper,      \* the lines written so far; the last one is the current one
  position    \* the column of the next character

vars == <<paper, position>>

Blank == [c \in 0..columns - 1 |-> Space]

Init == paper = <<Blank>> /\ position = 0

Newline == paper' = Append(paper, Blank) /\ position' = 0

Put(g) ==
  LET written == [paper EXCEPT ![Len(paper)][position] = g]
  IN  IF position + 1 = columns
      THEN paper' = Append(written, Blank) /\ position' = 0
      ELSE paper' = written /\ position' = position + 1

Next == Newline \/ \E g \in Glyphs : Put(g)

Spec == Init /\ [][Next]_vars
=============================================================================
