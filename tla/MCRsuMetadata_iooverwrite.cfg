CONSTANTS
    o1 = o1
    o2 = o2
    n1 = n1
    n2 = n2
    Offsets <- MCOffsets
    Names <- MCNames
    NSlots = 2
    MaxParts = 2
    SptOrder <- MCSptOrder
    CpbOrder <- MCCpbOrder
    WriteProtected = {}
    InitParts <- MCInitParts
    InitPtrs <- MCInitPtrs
    InitImg <- MCInitImg
    MaxCalls = 4
    MaxCrashes = 0
    MaxIoErrors = 1
    MaxDamage = 0
SPECIFICATION Spec
INVARIANT NoPointerToSlotInFlux
CHECK_DEADLOCK FALSE
