SPECIFICATION ColourSpec
CONSTANTS
  Length = {1, 1587}
  Scale = {1, 2, 5}
  Before = {0, 3}
  Behind = {0, 95}
INVARIANT FindersServe
CHECK_DEADLOCK FALSE
