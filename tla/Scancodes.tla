------------------------------ MODULE Scancodes -----------------------------
(***************************************************************************)
(* The scan code decoder of drivers/keyboard/at_keyboard.c: bytes read     *)
(* from port 0x60 are collected in a buffer until they form a sequence of  *)
(* scan code set 1 (scancode_set = 0) or set 2 (scancode_set = 1), which   *)
(* is then translated to a key code and emitted.                           *)
(*                                                                         *)
(* keyboard_handler runs with interrupts off, so one byte is one step.     *)
(***************************************************************************)
EXTENDS Naturals, Sequences

CONSTANTS
  MAX_SCANCODE_SEQUENCE,   \* size of scancode_buffer
  Keyboards,               \* kinds of keyboards, by the set they use and whether
                           \* the line to them is clean (no byte lost or garbled)
  Strokes                  \* Strokes[k]: key presses and releases of keyboard k, with
                           \* the bytes that are sent and the key code they stand for

Byte == 0..255

ASSUME ScancodeAssumption ==
  /\ MAX_SCANCODE_SEQUENCE \in Nat /\ MAX_SCANCODE_SEQUENCE >= 8
  /\ Keyboards \subseteq [set : {0, 1}, clean : BOOLEAN]
  /\ \A k \in Keyboards : \A s \in Strokes[k] : s.bytes \in Seq(Byte) /\ s.bytes # <<>>

VARIABLES
  scancode_set, scancode_buffer, scancode_index,   \* fields of ps2_keyboard_t
  keyboard,   \* the keyboard that is attached
  stroke,     \* what the keyboard is sending
  sent,       \* how many of its bytes have been read
  emitted     \* history: the key codes emitted during this stroke

scanVars == <<scancode_set, scancode_buffer, scancode_index, keyboard, stroke, sent, emitted>>

Released == 256   \* the bit 1 << 8 of keycode_t

(* init_ps2_keyboard: memset to 0.  Nothing sets scancode_set to 1 yet;    *)
(* both values are allowed here.                                           *)
ScanInit ==
  /\ keyboard \in Keyboards
  /\ scancode_set = keyboard.set
  /\ scancode_buffer = [i \in 0..MAX_SCANCODE_SEQUENCE - 1 |-> 0]
  /\ scancode_index = 0
  /\ stroke \in Strokes[keyboard]
  /\ sent = 0
  /\ emitted = <<>>

-----------------------------------------------------------------------------
(* The table as pairs, scan code by scan code; all other entries are 0.    *)
basemap_at2_entries ==
  { <<1, 67>>, <<3, 63>>, <<4, 61>>, <<5, 59>>, <<6, 60>>, <<7, 88>>, <<9, 68>>,
    <<10, 66>>, <<11, 64>>, <<12, 62>>, <<13, 15>>, <<14, 41>>, <<17, 56>>, <<18, 42>>,
    <<20, 29>>, <<21, 16>>, <<22, 2>>, <<26, 44>>, <<27, 31>>, <<28, 30>>, <<29, 17>>,
    <<30, 3>>, <<33, 46>>, <<34, 45>>, <<35, 32>>, <<36, 18>>, <<37, 5>>, <<38, 4>>,
    <<41, 57>>, <<42, 47>>, <<43, 33>>, <<44, 20>>, <<45, 19>>, <<46, 6>>, <<49, 49>>,
    <<50, 48>>, <<51, 35>>, <<52, 34>>, <<53, 21>>, <<54, 7>>, <<58, 50>>, <<59, 36>>,
    <<60, 22>>, <<61, 8>>, <<62, 9>>, <<65, 51>>, <<66, 37>>, <<67, 23>>, <<68, 24>>,
    <<69, 11>>, <<70, 10>>, <<73, 52>>, <<74, 53>>, <<75, 38>>, <<76, 39>>, <<77, 25>>,
    <<78, 12>>, <<82, 40>>, <<84, 26>>, <<85, 13>>, <<88, 58>>, <<89, 54>>, <<90, 28>>,
    <<91, 27>>, <<93, 43>>, <<102, 14>>, <<105, 79>>, <<107, 75>>, <<108, 71>>,
    <<112, 82>>, <<113, 83>>, <<114, 80>>, <<115, 76>>, <<116, 77>>, <<117, 72>>,
    <<118, 1>>, <<119, 69>>, <<120, 87>>, <<121, 78>>, <<122, 81>>, <<123, 74>>,
    <<124, 55>>, <<125, 73>>, <<126, 70>>, <<131, 65>> }

basemap_at2 ==
  [b \in Byte |-> IF \E e \in basemap_at2_entries : e[1] = b
                  THEN (CHOOSE e \in basemap_at2_entries : e[1] = b)[2] ELSE 0]

(* The tables of the extended keys are empty.                              *)
exmap_at2 == [b \in Byte |-> 0]
exmap_at1 == [b \in Byte |-> 0]

(* 224 is 0xE0, 225 0xE1, 240 0xF0, 42 0x2A, 183 0xB7.                     *)
kb_map_scancode_at2(s) ==
  CASE s[0] = 225 -> 0
    [] s[0] = 224 -> IF s[1] = 240 THEN exmap_at2[s[2]] + Released ELSE exmap_at2[s[1]]
    [] s[0] = 240 -> basemap_at2[s[1]] + Released
    [] OTHER      -> basemap_at2[s[0]]

(* A bug in kb_scancode_sequence_complete_at2: Pause taken for 9 bytes.    *)
PauseOneMore(s, len) ==
  CASE s[0] = 225 -> len = 9
    [] s[0] = 224 -> len # 1 /\ len = IF s[1] = 240 THEN 3 ELSE 2
    [] s[0] = 240 -> len = 2
    [] OTHER      -> len = 1

kb_scancode_sequence_complete_at2(s, len) ==
  CASE s[0] = 225 -> len = 8
    [] s[0] = 224 -> len # 1 /\ len = IF s[1] = 240 THEN 3 ELSE 2
    [] s[0] = 240 -> len = 2
    [] OTHER      -> len = 1

kb_map_scancode_at1(s) ==
  CASE s[0] = 225 -> 119
    [] s[0] = 224 -> IF s[1] = 42 THEN 99
                     ELSE IF s[1] = 183 THEN 99 + Released ELSE exmap_at1[s[1]]
    [] OTHER      -> IF s[0] > 128 THEN s[0] - 128 + Released ELSE s[0]

(* A bug in kb_scancode_sequence_complete_at1: Pause taken for 8 bytes, as *)
(* in set 2.                                                               *)
PauseTooLong(s, len) == len = IF s[0] = 225 THEN 8 ELSE 1

kb_scancode_sequence_complete_at1(s, len) ==
  CASE s[0] = 225             -> len = 6
    [] s[0] = 224 /\ len > 1  -> len = IF s[1] \in {42, 183} THEN 4 ELSE 2
    [] OTHER                  -> len = 1

Complete(s, len) ==
  IF scancode_set = 0 THEN kb_scancode_sequence_complete_at1(s, len)
                      ELSE kb_scancode_sequence_complete_at2(s, len)

Mapped(s) ==
  IF scancode_set = 0 THEN kb_map_scancode_at1(s) ELSE kb_map_scancode_at2(s)

kb_add_scancode_seq(b) ==
  /\ scancode_buffer' = [scancode_buffer EXCEPT ![scancode_index] = b]
  /\ LET len == (scancode_index + 1) % 256
     IN  IF Complete(scancode_buffer', len)
         THEN /\ emitted' = Append(emitted, Mapped(scancode_buffer'))
              /\ scancode_index' = 0
         ELSE /\ scancode_index' = len
              /\ UNCHANGED emitted

(* One turn of the loop of keyboard_handler.                               *)
keyboard_handler ==
  /\ sent < Len(stroke.bytes)
  /\ kb_add_scancode_seq(stroke.bytes[sent + 1])
  /\ sent' = sent + 1
  /\ UNCHANGED <<scancode_set, keyboard, stroke>>

(* The next key on the keyboard (external).                                *)
NextStroke ==
  /\ sent = Len(stroke.bytes)
  /\ stroke' \in Strokes[keyboard]
  /\ sent' = 0
  /\ emitted' = <<>>
  /\ UNCHANGED <<scancode_set, scancode_buffer, scancode_index, keyboard>>

ScanNext == keyboard_handler \/ NextStroke

ScanSpec == ScanInit /\ [][ScanNext]_scanVars

-----------------------------------------------------------------------------
(* The buffer is never overrun, whatever bytes arrive: noise, half a       *)
(* sequence, or the codes of the other scan code set.  A sequence that     *)
(* missed its length test would be collected for ever.                     *)
BufferInBounds == scancode_index < MAX_SCANCODE_SEQUENCE

(* What kb_add_scancode_seq has collected is always the proper beginning   *)
(* of a sequence whose end is still ahead.                                 *)
Unfinished ==
  \/ scancode_index = 0
  \/ scancode_set = 0 /\ scancode_buffer[0] = 225 /\ scancode_index \in 1..5
  \/ scancode_set = 1 /\ scancode_buffer[0] = 225 /\ scancode_index \in 1..7
  \/ scancode_set = 1 /\ scancode_buffer[0] \in {224, 240} /\ scancode_index = 1
  \/ /\ scancode_set = 1 /\ scancode_buffer[0] = 224
     /\ scancode_buffer[1] = 240 /\ scancode_index = 2

(* Keys with the prefix E0.  Set 1 takes the lone prefix for a complete    *)
(* sequence (see kb_scancode_sequence_complete_at1).                       *)
SplitByPrefix == scancode_set = 0 /\ stroke.bytes[1] = 224

(* A key press or release is one sequence of its set, with the key code    *)
(* the tables above have for it; behind the prefix E0, set 1 sends no E1.  *)
OneSequence(set, s) ==
  LET b == s.bytes
      n == Len(b)
  IN  IF set = 0
      THEN \/ b[1] = 224 /\ \A i \in 2..n : b[i] # 225
           \/ b[1] = 225 /\ n = 6 /\ s.code = 119
           \/ b[1] \notin {224, 225} /\ n = 1
                /\ s.code = IF b[1] > 128 THEN b[1] - 128 + Released ELSE b[1]
      ELSE \/ b[1] = 225 /\ n = 8 /\ s.code = 0
           \/ b[1] = 224 /\ n = 2 /\ b[2] # 240 /\ s.code = 0
           \/ b[1] = 224 /\ n = 3 /\ b[2] = 240 /\ s.code = Released
           \/ b[1] = 240 /\ n = 2 /\ s.code = basemap_at2[b[2]] + Released
           \/ b[1] \notin {224, 225, 240} /\ n = 1 /\ s.code = basemap_at2[b[1]]

ProperStrokes == \A k \in Keyboards : k.clean => \A s \in Strokes[k] : OneSequence(k.set, s)

(* On a clean line every key press or release emits one key code, the      *)
(* right one, with the last byte of its sequence and not before, whatever  *)
(* keys came before it; only keys with a prefix do not in set 1.           *)
OneCodePerStroke ==
  (keyboard.clean /\ ~SplitByPrefix) =>
    emitted = IF sent = Len(stroke.bytes) THEN <<stroke.code>> ELSE <<>>
=============================================================================
