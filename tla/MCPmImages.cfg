SPECIFICATION Spec
CONSTANTS
    Client = {c1, c2}
    Reader = {c1}
    TotalImages = 3
    FreezeFrames = 1
    ClientIds = 64
    IntBits = 32
    MaxFills = 4
    MaxFreezes = 2
    MaxTurns = 1
INVARIANTS
    TypeOK
    ReadsOneSweep
    
    FrozenIsKept
    HeldHasSlot
    LastIsReadable
