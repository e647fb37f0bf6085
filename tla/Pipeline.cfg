CONSTANTS
    None = None
    Layouts <- AllLayouts
SPECIFICATION FairSpec
INVARIANTS
    GradientsReducedOnce
    OutstandingBackprops
PROPERTY ImplementsDataflow
