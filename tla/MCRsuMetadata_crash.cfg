CONSTANTS
    o1 = o1
    o2 = o2
    n1 = n1
    n2 = n2
    Offsets <- MCOffsets
    Names <- MCNames
    NSlots = 2
    MaxParts = 2
    SptOrder <- MCSptOrder
    CpbOrder <- MCCpbOrder
    WriteProtected = {}
    InitParts <- MCInitParts
    InitPtrs <- MCInitPtrs
    InitImg <- MCInitImg
    MaxCalls = 5
    MaxCrashes = 1
    MaxIoErrors = 0
    MaxDamage = 1
SPECIFICATION Spec
INVARIANT TypeOK
INVARIANT MetadataConsistent
INVARIANT NoPointerToSlotInFlux
INVARIANT OnePointerPerPartition
PROPERTY ImplementsBootOrder
CHECK_DEADLOCK FALSE
