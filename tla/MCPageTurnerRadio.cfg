SPECIFICATION FairSpec
CONSTANTS
    RetryLimit = 1
    RefusalLimit = 2
INVARIANTS
    TypeOK
    HeapHasOneUser
    RestartsAreSafe
    HoldHasItsLifter
PROPERTIES
    ImplementsScreenRadio
    TransitionIsServed
