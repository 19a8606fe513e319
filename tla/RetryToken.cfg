SPECIFICATION Spec
CONSTANTS
    Byte <- B
    Prefix <- P
    Addresses <- Three
    Dcids <- Ids
    TagLen = 4
    MaxKeys = 2
    MaxMinted = 2
    Damaged <- MCDamaged
INVARIANTS TypeOK OwnTokenAccepted OnlyMintedAccepted NeverPanics
CHECK_DEADLOCK FALSE
