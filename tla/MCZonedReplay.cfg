SPECIFICATION Spec
CONSTANTS
    MaxLoad = 2
    Loads <- MCLoads
    Devices <- MCDevices
    Depths = {1, 2, 3}
    Leftovers <- MCLeftovers
    ActionCode <- Code
    SelectAll = 8
    BlockWord = 4
    DWord = 4
INVARIANTS
    ReplayedAsRecorded
    AppendsNearby
