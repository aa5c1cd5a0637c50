CONSTANTS
    Anchors = {1, 2}
    Tips = {1}
    Policies = {2}
    Window = 1
    Standings = {"aged"}
    Barrable = {2}
    Lockable = {}
    Selections = {{1}}
    Unlocks = {FALSE, TRUE}
    Minings = {TRUE}
    MaxWrites = 2
    MaxRestarts = 0
    None = None
SPECIFICATION RelaySpec
PROPERTY AuthorisedIsRelayed
