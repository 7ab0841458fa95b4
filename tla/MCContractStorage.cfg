\* Guest storage calls with an allocator that never returns offset 0.
CONSTANTS
    StoreKinds = {"public"}
    Keys = {"k1", "k2"}
    Absent = Absent
    Values <- MCValues
    AllocOffsets <- NonZeroAlloc

SPECIFICATION Spec

PROPERTIES
    GetReturnsStored
