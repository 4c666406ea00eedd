\* Two lines of two characters of two by two pixels; one line may scroll off.  Escape
\* sequences go on, where there is no screen to draw, until they overwrite the fields
\* behind their array and the model stops.
CONSTANTS
  columns = 2
  rows = 2
  Glyphs = {"x"}
  Digits = {"4"}
  EscapeSize = 4
  IntMod = 400
  Garbage = {44}
  MaxEscape = 9
  MaxScrolled = 1
  MaxColours = 2
  Tags <- MCTags
  Font <- MCFont
  GlyphWidth = 2
  GlyphHeight = 2
  VgaColumns = 3
  MaxWritten = 1
  MaxDrawn = 4
SPECIFICATION DisplaySpec
INVARIANTS CursorInBounds ScreenShows
PROPERTY ImplementsTerminal
CHECK_DEADLOCK FALSE
