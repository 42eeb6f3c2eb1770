SPECIFICATION Spec
CONSTANTS
    Missing = Missing
    Torn = Torn
    MaxName = 2
    MaxWrites = 5
INVARIANTS
    CutKeepsTheShelf
PROPERTIES
    NoNameEmptied
