SPECIFICATION ProbeSpec
CONSTANTS
  Probers = {p1, p2}
  Free = Free
  OpenAfter = 2
  ResolveAfter = 2
  Lookback = 2
  MaxMinute = 4
PROPERTIES AdminNotOverridden
SYMMETRY Symmetry
CHECK_DEADLOCK FALSE
