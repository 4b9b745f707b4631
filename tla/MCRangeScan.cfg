SPECIFICATION RangeSpec
CONSTANTS
    Wrap = 64
    Values <- ValuesOfSeven
INVARIANTS
    ListExtracted
CHECK_DEADLOCK FALSE
