SPECIFICATION FairSpec
CONSTANTS
    Names = {n1, n2}
    Sockets = {s1, s2}
    None = None
INVARIANTS
    TypeOK
    SamplerStaysInItsSession
    OnlyUploadsAreCut
    PartsAreBeingWritten
PROPERTIES
    TapEndsTheSession
