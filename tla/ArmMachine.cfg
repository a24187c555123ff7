SPECIFICATION MCSpec
CONSTANTS
    WordMod = 65536
    WordBits = 16
    ByteMod = 16
    MemSize = 32
    MaxSteps = 2
    RegNames = {0, 1}
    RegValues = {0}
    CpsrValues = {0}
    Requests = {}
    Garbage = {0, 43981}
    Lists <- MCLists
    Indexes = {1, 128, 144}
    Offsets <- MCOffsets
    GarbageFiles <- MCRegisterFile
    Instructions <- MCInstructions
INVARIANTS StackRestores IndexedIsTwoSteps CallReturns
PROPERTY StepsWithinEffect
CHECK_DEADLOCK FALSE
