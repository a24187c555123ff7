SPECIFICATION MCSpec
CONSTANTS
    WordMod = 8192
    WordBits = 13
    MemSize = 40
    MaxSteps = 1
    RegNames = {0, 1}
    RegValues = {0}
    CpsrValues = {0}
    Requests = {}
    GarbageFiles <- MCGarbageFiles
    Instructions <- MCInstructions
INVARIANTS SignedComparison UnsignedComparison DoubleWord ShiftsCompose
PROPERTY ModeKept
CHECK_DEADLOCK FALSE
