SPECIFICATION AlikeSpec
CONSTANTS
    h1 = h1
    h2 = h2
    Handles <- TwoHandles
    Items = 3
    Singles <- SecondHandle
    BatchSize = 2
    MaxTimeouts = 1
    MaxDeaths = 1
INVARIANTS
    TypeOK
    OwnItems
    ItemsInOrderAndComplete
    StreamsReleased
PROPERTIES
    LoopsEnd
CHECK_DEADLOCK FALSE
