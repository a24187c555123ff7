SPECIFICATION MCSpec
CONSTANTS
    WordMod = 65536
    ByteMod = 16
    Packets <- MCPackets
    MemSize = 40
    MaxSteps = 3
    RegNames = {13, 15}
    Requests = {1, 2, 3, 4, 5, 6, 7, 8}
    GarbageFiles <- MCGarbageFiles
    RegValues <- MCRegValues
    CpsrValues <- MCCpsrValues
INVARIANT EntrySavesStatus
CHECK_DEADLOCK FALSE
