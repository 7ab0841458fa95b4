\* Guest storage calls with an allocator that may return offset 0 for a
\* zero-length allocation.
CONSTANTS
    StoreKinds = {"public"}
    Keys = {"k1", "k2"}
    Absent = Absent
    Values <- MCValues
    AllocOffsets <- ZeroLengthAtZeroAlloc

SPECIFICATION Spec

PROPERTIES
    GetReturnsStored
