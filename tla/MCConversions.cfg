CONSTANTS
    MaxDay = 146097
    Nano = 3
    Micro = 2
    Resolutions <- MCResolutions
    MaxTicks = 2100
    Width = 4
    BufferLen = 6
    MaxUint = 3
    Base = 16
    None = None
SPECIFICATION Spec
CHECK_DEADLOCK FALSE
INVARIANTS
    DateIsGregorian
    TimeIsExact
    RangesReadOwnBytes
