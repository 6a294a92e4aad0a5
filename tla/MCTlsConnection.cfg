CONSTANTS
    MaxRecords = 3
    Sessions <- MCSessions
    None = None
SPECIFICATION Spec
CHECK_DEADLOCK FALSE
INVARIANTS
    StaysInSync
    FirstRecordOpens
    OpensOnlyInSequence
