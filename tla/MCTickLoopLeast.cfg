SPECIFICATION Spec
CONSTANTS
    Quarter = 2
    Absent = Absent
    Bad = Bad
    Invalid = Invalid
    Files <- LeastTTL
    PollBound = 6
CHECK_DEADLOCK FALSE
INVARIANTS OneMissedTickIsHarmless
