\* A failed transmission whose error flag stays set.
CONSTANTS
  f1 = f1 f2 = f2 b1 = b1
  Frame = {f1, f2, b1} Bad = {b1} NoFrame = none
  Size <- MCSize RxSize = 4 MaxPkt = 2
SPECIFICATION LiveSpec
PROPERTIES AbortsOnlyFailed
