CONSTANTS
    MaxChars = 6
    MaxLines = 3
    MaxLine = 2
    MaxSize = 5
SPECIFICATION ChunkSpec
INVARIANTS
    ChunksSound
PROPERTIES
    ChunkingEnds
CHECK_DEADLOCK FALSE
