SPECIFICATION Spec
CONSTANTS
    Readers = {"web1"}
    Settings <- MCSettings
    Duration = 2
    NoMetric = NoMetric
INVARIANT IntervalCountedOnce
 
INVARIANT WindowsDisjoint
CHECK_DEADLOCK FALSE
