CONSTANTS
  VIDEO_WIDTH = 4
  VIDEO_HEIGHT = 2
  NUM_TERMINALS = 2
  Writers = {t1, t2}
  t1 = t1
  t2 = t2
  MaxChars = 2
  MaxIrqs = 1
SPECIFICATION Spec
INVARIANTS TypeOK PrintingStaysInside ScreenShowsTerminal
CHECK_DEADLOCK FALSE
SYMMETRY WriterSymmetry
CONSTRAINT StillClaimed
