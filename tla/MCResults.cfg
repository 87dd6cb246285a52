SPECIFICATION Spec
CONSTANTS
    Result = {1, 2}
    None = None
    RowCount <- MCRowCount
    Size = {1, 2}
    Span <- MCSpan
    MaxBack = 1
INVARIANTS TypeOK ReadsKeepContract WritesHaveCause
PROPERTIES KeepsContract
CHECK_DEADLOCK FALSE
