---------------------------- MODULE MCScancodes -----------------------------
(* Keyboards for module Scancodes (external): what is sent for each key.   *)
EXTENDS Scancodes

Stroke(bs, c) == [bytes |-> bs, code |-> c]

(* The set 2 codes of the AT keyboard, by key number: 1 to 83, 87, 88.     *)
(* The numbers follow the rows of the keyboard.                            *)
Keys1to83 ==
  <<118, 22, 30, 38, 37, 46, 54, 61, 62, 70, 69, 78, 85, 102,
    13, 21, 29, 36, 45, 44, 53, 60, 67, 68, 77, 84, 91, 90,
    20, 28, 27, 35, 43, 52, 51, 59, 66, 75, 76, 82, 14,
    18, 93, 26, 34, 33, 42, 50, 49, 58, 65, 73, 74, 89,
    124, 17, 41, 88, 5, 6, 4, 12, 3, 11, 131, 10, 1, 9,
    119, 126, 108, 117, 125, 123, 107, 115, 116, 121, 105, 114, 122, 112, 113>>
Keys2 == {<<Keys1to83[k], k>> : k \in 1..83} \cup {<<120, 87>>, <<7, 88>>}

(* Set 2: presses, some releases, the extended keys (which have no key     *)
(* code here) and Pause.                                                   *)
Set2 ==
  {Stroke(<<k[1]>>, k[2]) : k \in Keys2}
    \cup {Stroke(<<240, k[1]>>, k[2] + 256) : k \in {e \in Keys2 : e[2] \in {29, 42, 65}}}
    \cup {Stroke(<<224, 20>>, 0), Stroke(<<224, 240, 20>>, 256)}
    \cup {Stroke(<<225, 20, 119, 225, 240, 20, 240, 119>>, 0)}

(* Set 1: press, release, Pause; cursor up, right Alt, Print Screen.       *)
Set1 ==
  {Stroke(<<k[2]>>, k[2]) : k \in Keys2}
    \cup {Stroke(<<k[2] + 128>>, k[2] + 256) : k \in Keys2}
    \cup {Stroke(<<225, 29, 69, 225, 157, 197>>, 119)}
    \cup {Stroke(<<224, 72>>, 0), Stroke(<<224, 56>>, 0), Stroke(<<224, 42, 224, 55>>, 99)}

(* Any bytes in any order: prefixes and a plain code.                      *)
Noise == {Stroke(<<b>>, 0) : b \in {42, 224, 225, 240}}

AllKeyboards == [set : {0, 1}, clean : BOOLEAN]
AllStrokes ==
  [k \in AllKeyboards |-> IF ~k.clean THEN Noise ELSE IF k.set = 0 THEN Set1 ELSE Set2]

(* These keyboards are of the kind KeyboardProofs is about.               *)
ASSUME StrokesAssumption == ProperStrokes
=============================================================================
