SPECIFICATION Spec
CONSTANTS
    Books = {b1, b2}
    NoBook = NoBook
    NoFile = NoFile
    MaxUnits = 2
    MaxEpoch = 1
    BookReadsFail = TRUE
SYMMETRY Symmetry
INVARIANTS
    DaysAreInBooks
