SPECIFICATION Spec
CHECK_DEADLOCK FALSE
CONSTANTS
    Half = 8
    Ports = 4
    HeaderSize = 3
    SectionNames <- MCSectionNames
    Sources <- MCSources
    MaxLayout = 5
INVARIANTS
    InstructionsInPlace
    NearJumpsArrive
    DecodedAsEmitted
    DroppedLinesReported
