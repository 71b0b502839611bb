SPECIFICATION Spec
CONSTANTS
    MaxEvent = 3
    MaxQueryPool = 2
    QueryCounts = {0, 1, 2}
    Absent = Absent
PROPERTIES
    HandlesNeverReused
CHECK_DEADLOCK FALSE
