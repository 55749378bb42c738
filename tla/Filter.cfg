\* Every profile of up to three entries, against every short name.
SPECIFICATION Spec
CONSTANTS
    Chars <- Letters
    Names <- ShortNames
    Entries <- MixedEntries
    MaxEntries = 3
INVARIANTS
    TypeOK
    LoadInv
    DecidesAsDocumented
    AllowBounded
    DenyHolds
CHECK_DEADLOCK FALSE
