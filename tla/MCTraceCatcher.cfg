SPECIFICATION Spec
CONSTANTS
    Objects = {o1, o2}
    RingSize = 3
    MaxTsc = 6
    ENTRY_MAX = 2
    Rooms = {1, 9}
    Word = 16
SYMMETRY ObjectSymmetry
INVARIANTS
    TypeOK
    ServiceTimeExact
    NothingDropped
PROPERTY
    ImplementsTraceFile
