------------------------------ MODULE Display -------------------------------
(***************************************************************************)
(* The console with its back ends: the linear framebuffer of fbconsole.c,  *)
(* the text memory and hardware cursor of vga_console.c, and none at all   *)
(* (null_console.c).  boot/main.c chooses by the framebuffer tag.          *)
(*                                                                         *)
(* A glyph is a sequence of rows of bits.  A pixel in the framebuffer is   *)
(* the tuple of its bytes, at the address of the first.                    *)
(***************************************************************************)
EXTENDS Console

CONSTANTS
  Tags,           \* a sequence of framebuffer tags; type "none" where there is none
  Font,           \* the rows of the glyph of each character
  GlyphWidth,     \* 8
  GlyphHeight,    \* 16
  VgaColumns,     \* 80
  MaxWritten,     \* bound: characters that console_write writes
  MaxDrawn        \* bound: bytes of an escape sequence on a screen

(* The bits of a byte, and the one past it.                                *)
Masks == <<1, 2, 4, 8, 16, 32, 64, 128, 256>>

PixelSize(tag) == (tag.bpp + 7) \div 8

(* The screen has the size of the console, but for margins, and the        *)
(* fields of a pixel are in disjoint bits of it.                           *)
ASSUME DisplayAssumption ==
  /\ GlyphWidth \in 1..8 /\ GlyphHeight \in 1..16 /\ VgaColumns \in Nat
  /\ {MaxWritten, MaxDrawn} \subseteq Nat
  /\ \A c \in Glyphs \cup {Space} : Font[c] \in [1..GlyphHeight -> 0..Masks[GlyphWidth + 1] - 1]
  /\ \A n \in DOMAIN Tags : Tags[n].type = "rgb" =>
       /\ {Tags[n].width, Tags[n].height, Tags[n].pitch} \subseteq Nat /\ Tags[n].bpp \in Nat \ {0}
       /\ Tags[n].width \div GlyphWidth = columns /\ Tags[n].height \div GlyphHeight = rows
       /\ Tags[n].pitch >= Tags[n].width * PixelSize(Tags[n])
       /\ \A f, g \in DOMAIN Tags[n].format :
            f # g => \/ Tags[n].format[f].position + Tags[n].format[f].size <= Tags[n].format[g].position
                     \/ Tags[n].format[g].position + Tags[n].format[g].size <= Tags[n].format[f].position
  /\ \A n \in DOMAIN Tags : Tags[n].type = "text" => Tags[n].width = columns /\ columns <= VgaColumns

VARIABLES
  tag,       \* the framebuffer tag, by its place in Tags
  data,      \* external: the framebuffer
  cursor,    \* cursor_column and cursor_row
  crtc,      \* external: the position of the hardware cursor
  written    \* characters that console_write has written and not yet drawn

displayVars == <<vars, tag, data, cursor, crtc, written>>

fb == Tags[tag]

-----------------------------------------------------------------------------
(* The colours of __init_font; yellow is white.                            *)
vga_palette_colors ==
  << <<0, 0, 0>>, <<0, 0, 170>>, <<0, 170, 0>>, <<0, 170, 170>>, <<170, 0, 0>>, <<170, 0, 170>>,
     <<170, 85, 0>>, <<170, 170, 170>>, <<85, 85, 85>>, <<85, 85, 255>>, <<85, 255, 85>>,
     <<85, 255, 255>>, <<255, 85, 85>>, <<255, 85, 255>>, <<255, 255, 255>>, <<255, 255, 255>> >>

(* fb_console_lut_rgb keeps the low bits of each part of a colour, as many *)
(* as the pixel has for it, and puts them in their place.                  *)
Part(field, value) == (value % 2^field.size) * 2^field.position
fb_console_lut_rgb(t, colour) ==
  LET c   == vga_palette_colors[colour + 1]
      clr == Part(t.format.red, c[1]) + Part(t.format.green, c[2]) + Part(t.format.blue, c[3])
  IN  [k \in 1..PixelSize(t) |-> (clr \div 256^(k - 1)) % 256]

(* The pairs of foreground and background of every attribute.  The palette *)
(* of an indexed framebuffer is never used, as main.c compares the type of *)
(* the tag instead of the framebuffer's.                                   *)
fb_console_create_lut ==
  [n \in {m \in DOMAIN Tags : Tags[m].type = "rgb"} |-> [c \in 0..15 |-> fb_console_lut_rgb(Tags[n], c)]]
Pair(a) == <<fb_console_create_lut[tag][a.fg], fb_console_create_lut[tag][a.bg]>>

Bit(v, n) == (v \div Masks[n + 1]) % 2 = 1
At(x, y) == fb.pitch * y + x * PixelSize(fb)

(* The bit tested for column j is 8 - j: the glyph is drawn one column to  *)
(* the right of its place.                                                 *)
fb_console_draw_glyph(d, ch, x, y, pair) ==
  LET Box == (0..GlyphHeight - 1) \X (0..GlyphWidth - 1)
      Spot(p) == At(GlyphWidth * x + p[2], GlyphHeight * y + p[1])
      Ink == {Spot(p) : p \in {q \in Box : Bit(Font[ch][q[1] + 1], GlyphWidth - q[2])}}
      All == {Spot(p) : p \in Box}
  IN  [a \in DOMAIN d \cup All |->
         IF a \in Ink THEN pair[1] ELSE IF a \in All THEN pair[2] ELSE d[a]]

(* Every cell is drawn, row by row.                                        *)
fb_console_draw_cell(d, b, n) ==
  fb_console_draw_glyph(d, b[n].ch, n % columns, n \div columns, Pair(b[n].attrs))

fb_console_redraw(d, b) ==
  LET drawn[n \in 0..rows * columns] ==
        IF n = 0 THEN d ELSE fb_console_draw_cell(drawn[n - 1], b, n - 1)
  IN  drawn[rows * columns]

(* vga_console_redraw moves the hardware cursor if it believes it to be    *)
(* elsewhere.  The cursor is never hidden.                                 *)
vga_console_redraw ==
  IF <<column', row'>> = cursor THEN UNCHANGED <<cursor, crtc>>
  ELSE cursor' = <<column', row'>> /\ crtc' = row' * VgaColumns + column'

(* A bug in the redraw: the cells above the line of the cursor are left.   *)
RedrawBelow ==
  /\ data' = IF fb.type = "rgb"
             THEN [a \in DOMAIN data |-> IF a < At(0, GlyphHeight * (row' - 1)) THEN data[a]
                                         ELSE fb_console_redraw(data, buffer')[a]]
             ELSE data
  /\ IF fb.type = "text" THEN vga_console_redraw ELSE UNCHANGED <<cursor, crtc>>
  /\ UNCHANGED tag

(* The screen is drawn from what the step leaves in the console.           *)
__console_redraw ==
  /\ data' = IF fb.type = "rgb" THEN fb_console_redraw(data, buffer') ELSE data
  /\ IF fb.type = "text" THEN vga_console_redraw ELSE UNCHANGED <<cursor, crtc>>
  /\ UNCHANGED tag

-----------------------------------------------------------------------------
(* __init_fb_console, __init_vga_console and __init_null_console; the boot *)
(* loader has left the hardware cursor somewhere.                          *)
DisplayInit ==
  /\ Init
  /\ tag \in DOMAIN Tags
  /\ data = IF fb.type = "rgb" THEN fb_console_redraw(<<>>, buffer) ELSE <<>>
  /\ cursor = <<0, 0>>
  /\ crtc \in IF fb.type = "text" THEN {0, VgaColumns + 1} ELSE {0}
  /\ written = 0

console_putch ==
  /\ written = 0 /\ UNCHANGED written
  /\ Next /\ __console_redraw

(* console_write draws once, when all its characters have been written.    *)
WriteChars ==
  /\ written < MaxWritten /\ written' = written + 1
  /\ Next /\ UNCHANGED <<tag, data, cursor, crtc>>

console_write ==
  /\ written > 0 /\ written' = 0
  /\ UNCHANGED vars /\ __console_redraw

DisplayNext ==
  /\ console_putch \/ WriteChars \/ console_write
  /\ fb.type # "none" => Len(escape') <= MaxDrawn
DisplaySpec == DisplayInit /\ [][DisplayNext]_displayVars

-----------------------------------------------------------------------------
(* What a pixel of the text should look like.                              *)
Drawn(x, y) ==
  LET cell == buffer[Index(y \div GlyphHeight, x \div GlyphWidth)]
      j    == x % GlyphWidth
  IN  Pair(cell.attrs)[IF j > 0 /\ Bit(Font[cell.ch][(y % GlyphHeight) + 1], GlyphWidth - j) THEN 1 ELSE 2]

(* Whenever a write has ended, the screen shows the console: every pixel   *)
(* has the colour its character and its attributes give it, also after     *)
(* scrolling and after the clearing of lines, nothing is drawn in the      *)
(* margins or past the last line, and the cursor of a text screen is where *)
(* the next character goes, from the first move on.                        *)
ScreenShows ==
  written = 0 =>
    /\ fb.type = "rgb" =>
         /\ DOMAIN data = {At(x, y) : x \in 0..GlyphWidth * columns - 1, y \in 0..GlyphHeight * rows - 1}
         /\ \A x \in 0..GlyphWidth * columns - 1, y \in 0..GlyphHeight * rows - 1 :
              data[At(x, y)] = Drawn(x, y)
    /\ fb.type = "text" /\ <<column, row>> # <<0, 0>> => crtc = VgaColumns * row + column
=============================================================================
