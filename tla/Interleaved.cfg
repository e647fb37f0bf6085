CONSTANTS
    None = None
    Layouts <- AllLayouts
SPECIFICATION FairSpec
INVARIANTS
    GradientsReducedOnce
    ParamsSyncedBeforeUse
PROPERTY ImplementsDataflow
