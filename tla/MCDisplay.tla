----------------------------- MODULE MCDisplay ------------------------------
(***************************************************************************)
(* A framebuffer, a text screen and no screen.                             *)
(***************************************************************************)
EXTENDS Display

Field(size, position) == [size |-> size, position |-> position]

(* 16 bits in 5, 6 and 5, with margins and padding.                        *)
HighColour ==
  [type |-> "rgb", width |-> 5, height |-> 5, pitch |-> 12, bpp |-> 16,
   format |-> [red |-> Field(5, 11), green |-> Field(6, 5), blue |-> Field(5, 0)]]

MCTags == <<HighColour, [type |-> "text", width |-> 2, height |-> 2], [type |-> "none"]>>
MCFont == [c \in {"x", Space} |-> IF c = "x" THEN <<2, 3>> ELSE <<0, 0>>]
=============================================================================
