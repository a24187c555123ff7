SPECIFICATION GSpec
CONSTANTS
    Size = 8
    Byte <- MCByte
    MaxLength = 4
    Addresses <- MCAddresses
INVARIANT ReadStopsAtEnd
