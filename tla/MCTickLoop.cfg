SPECIFICATION Spec
CONSTANTS
    Quarter = 2
    Absent = Absent
    Bad = Bad
    Invalid = Invalid
    Files <- SomeFiles
    PollBound = 6
CHECK_DEADLOCK FALSE
INVARIANTS HealthyAlive PromptAlive OneMissAlive RetriesInTime
