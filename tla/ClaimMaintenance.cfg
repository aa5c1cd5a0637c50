SPECIFICATION FairMaintenanceSpec
CONSTANTS
    Wallets = {a, b}
    None = None
    Asks = {{"resolve"}, {"relay"}}
INVARIANTS NoLostWakeup DrainedBeforeUnload
PROPERTIES ResolveIsTaken
CHECK_DEADLOCK FALSE
