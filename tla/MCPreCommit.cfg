SPECIFICATION Spec
CONSTANTS
    Docs <- SomeDocs
    SchemaViolations <- ValidateFixture
    Stageable <- StagedLists
    Captures <- SomeCaptures
    OddCaptures <- SomeOddCaptures
CHECK_DEADLOCK FALSE
INVARIANTS FailClosed NamesEveryBadFile NothingUnreviewedPasses LinesNameTheUnreviewed RecaptureIsCommitted NothingLiveIsCommitted
