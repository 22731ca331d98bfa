SPECIFICATION Spec
CONSTANTS
    Parses <- MCParses
    Texts <- MCTexts
    Pictures <- MCPictures
    BufferSize = 42
    MaxSent = 3
INVARIANTS
    TypeOK
    AloneHandled
