\* The thresholds of the code, on counters that wrap earlier.
SPECIFICATION LogSpec
CONSTANTS
    Width = 1000
INVARIANTS
    LogTypeOK
    HeaderOnce
PROPERTIES
    TestsEnd
    SweepIsSmooth
    FreshFromStop
    RowsAreFresh
