SPECIFICATION RegSpec
CONSTANTS
    WordMod = 8192
    MemSize = 40
    Requests = {}
    RegNames = {12, 13}
    GarbageFiles <- MCGarbageFiles
    RegValues <- MCRegValues
    CpsrValues <- MCCpsrValues
INVARIANTS ReadsAgree WritesAgree TraceReplays
PROPERTY ImplementsBanked
