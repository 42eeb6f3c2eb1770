SPECIFICATION FairSpec
CONSTANTS
    MaxSeq = 6
INVARIANTS
    ChosenIsWhole
    StartsWhatWasReported
PROPERTIES
    FaultyIsUndone
