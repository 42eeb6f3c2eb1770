SPECIFICATION Spec
CONSTANTS
    Missing = Missing
    Torn = Torn
    MaxName = 2
    MaxWrites = 4
INVARIANT SaveSparesStaged
