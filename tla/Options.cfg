SPECIFICATION OSpec
CONSTANTS
    MAX_FILES_NUMBER = 4
    Own = 2
    Names <- MCNames
    CommandLines <- MCCommandLines
INVARIANTS DebugLookup StartsAsAsked CacheAgrees
CHECK_DEADLOCK FALSE
