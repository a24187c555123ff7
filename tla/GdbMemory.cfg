SPECIFICATION GSpec
CONSTANTS
    Size = 8
    Byte <- MCByte
    MaxLength = 4
    Addresses <- MCAddresses
INVARIANTS WordReadBack LoadedIsRead RefusedStoresPrefix
PROPERTY OneWordChanges
