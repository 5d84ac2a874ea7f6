SPECIFICATION Spec
CONSTANTS
    c1 = c1
    c2 = c2
    MaxRequests = 2
    Buses <- MCBuses
    Devices <- MCDevices
    Appends = 4
    Reads = 2
    Opens = 2
    Closes = 2
    Finishes = 1
    RandZones = 3
    Sizes = {1, 2}
INVARIANTS
    TypeOK
    Registered
    Synchronous
PROPERTIES
    Terminates
