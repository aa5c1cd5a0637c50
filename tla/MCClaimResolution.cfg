CONSTANTS
    Anchors = {1, 2}
    Tips = {1, 2, 3}
    Policies = {0, 1}
    Window = 1
    Standings = {"unsafe", "aged"}
    Barrable = {}
    Lockable = {1}
    Selections = {{1}}
    Unlocks <- Either
    Minings <- Either
    MaxWrites = 3
    MaxRestarts = 2
    None = None
SPECIFICATION MCSpec
INVARIANTS OneResolutionPerAnchor AutomaticBudget
PROPERTIES PublishedUnderConsent AuthorityIsGranted RevocationOutlivesPlans
