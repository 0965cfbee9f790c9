SPECIFICATION RecordedSpec
CONSTANTS
    Functions <- SomeFunctions
    References = {"a"}
INVARIANTS
    AnswerExact
    CacheTrusted
PROPERTIES
    FollowedOnce
    ComparatorTermination
