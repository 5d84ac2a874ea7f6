SPECIFICATION Spec
CONSTANTS
    MaxRequests = 2
    Devices <- AllDevices
    ReportLimits = {0, 1, 3, 9}
INVARIANTS
    AllZonesShown
