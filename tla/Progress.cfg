SPECIFICATION PartSpec
CONSTANTS
    MaxChunks = 3
    Parts = 2
INVARIANTS
    WritesEndWhole
PROPERTIES
    CondemnedGoes
    NobodyWaitsForEver
