CONSTANTS
    s1 = s1
    s2 = s2
    Crc32 <- MCCrc32
    PtrOffs = 1
    PtrWidth = 3
    CrcOffs = 13
    SptChecksumOffset = 5
    Slots <- MCSlots
    SlotOffset <- MCSlotOffset
    SlotSize <- MCSlotSize
    UserBlocks <- MCUserBlocks
    SptMagic <- MCSptMagic
    VersionAt = 4
    NameAt = 9
    NameLen = 3
    Names <- MCNames
    GoodSpt <- MCGoodSpt
    DamagedSpt <- MCDamagedSpt
    ChecksumEnabled = TRUE
    MaxOps = 6
    MaxIoErrors = 1
    MaxCrashes = 1
SPECIFICATION Spec
INVARIANT ProgramFollowsFormat
INVARIANT VerifyAcceptsProgrammed
INVARIANT SptFlaggedOnlyAfterLoss
CHECK_DEADLOCK FALSE
