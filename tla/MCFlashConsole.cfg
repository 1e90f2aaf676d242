CONSTANTS
    Size = 8
    Chunk = 2
    Page = 3
    LINE_BUFFER_SIZE = 4
SPECIFICATION ConsoleSpec
INVARIANTS ProtectionRestored
PROPERTIES KeptForever
