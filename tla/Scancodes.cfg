\* Scan code sets 1 and 2: every key, some extended keys and Pause on a clean
\* line; prefix and plain bytes in any order on a noisy one.  The buffer just
\* holds the longest sequence.
CONSTANTS
  MAX_SCANCODE_SEQUENCE = 8
  Keyboards <- AllKeyboards
  Strokes <- AllStrokes
SPECIFICATION ScanSpec
INVARIANTS BufferInBounds OneCodePerStroke
