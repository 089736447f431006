SPECIFICATION MCSpec
CONSTANTS
  Index = {0, 1, 2, 3, 4, 5, 6, 7, 8}
  WinSize = 4
  Unset = Unset
  SnMod = 16
  AICWF_REORDER_WINSIZE = 4
  MAX_REORD_RXFRAME = 4
  NoSn = NoSn
  First = 13
  MaxFrame = 34
  MaxGap = 3
  Allows <- MCAllows
INVARIANTS WindowBound BufferConsistent
PROPERTIES OrderedRelease WindowRefined HeldServed
