CONSTANTS
    MaxLen = 2
    MaxRuns = 1
    MaxClock = 2
    reload_interval = 2
    Absent = Absent
SPECIFICATION FairSpec
CHECK_DEADLOCK FALSE
PROPERTIES
    NeverGoesBack
    EventuallyCurrent
