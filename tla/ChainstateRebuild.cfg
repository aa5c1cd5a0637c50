SPECIFICATION FairSpec
CONSTANT MAX_TIP = 3
INVARIANTS
    SourcesSurvive
    NoManualRecovery
    CommitmentIsStable
PROPERTIES
    RollbackRestores
    RebuildIsResolved
