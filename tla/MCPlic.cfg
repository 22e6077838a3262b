SPECIFICATION PlicSpec
CONSTANTS
  Lines = {1, 2}
  Uses <- MCUses
  MaxOps = 4
  MaxRaises = 3
INVARIANTS EntryWhole OffStaysOff
PROPERTIES LineServed
CHECK_DEADLOCK FALSE
