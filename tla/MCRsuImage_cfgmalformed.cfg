CONSTANTS
    s1 = s1
    s2 = s2
    s3 = s3
    Slots <- MCSlots3
    SlotOffset <- MCSlotOffset
    SlotSize <- MCSlotSize
    SlotNumber <- MCSlotNumber
    ConfigExists = TRUE
    Config <- MCConfigMalformed
    Strtoul <- MCStrtoul
    Numerals <- MCNumerals
    Comments <- MCComments
    Images <- MCImages
    Garbage <- MCGarbageHarmless
    MaxSections = 64
    MaxOps = 4
    MaxWriteFailures = 1
SPECIFICATION Spec
PROPERTY ConfiguredSlotsUnchanged
CHECK_DEADLOCK FALSE
