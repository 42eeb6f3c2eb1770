SPECIFICATION Spec
CONSTANTS
    Missing = Missing
    Torn = Torn
    MaxWrites = 5
INVARIANTS
    TypeOK
    WrittenIsKept
PROPERTIES
    ImplementsAtomicSnapshot
