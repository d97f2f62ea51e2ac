SPECIFICATION ConverterSpec
CHECK_DEADLOCK FALSE
CONSTANTS
    Sources <- MCSources
    Units <- MCUnits
    MaxTokens = 3
    MaxWords = 2
    MaxCharacters = 3
    MaxLines = 2
    MaxDepth = 30
INVARIANTS
    ValuesUsedOnce
    OperationsWithinLines
    CurlyBracketsMatch
    ReadAsMeant
PROPERTIES
    TextAccountedFor
    UnitAccountedFor
    ConversionsEnd
