SPECIFICATION Spec
CONSTANTS
    ParamCount = 1
    MaxRow = 3
    Type <- AllTypes
    Null = Null
    Outside = Outside
INVARIANTS AlignedIsSent ValuesAreTheLast FreedNeedsNoBatch OldRowsArePast
CHECK_DEADLOCK FALSE
