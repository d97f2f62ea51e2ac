SPECIFICATION Spec
CHECK_DEADLOCK FALSE
CONSTANTS
    Commands <- MCCommands
    Files <- MCFiles
    Contents <- MCContents
    Temporary <- MCTemporary
    MaxArguments = 3
INVARIANTS
    ChildHasEnded
    CommandAsMeant
    SuccessTells
    OldObjectKept
PROPERTY
    FrontEndReturns
