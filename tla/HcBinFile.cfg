CONSTANTS
    Chars <- MCChars
    Files <- MCFiles
    Keys <- MCKeys
    Reads <- MCReads
    Word = 64
    MaxAlloc = 40
SPECIFICATION Spec
INVARIANTS
    TypeOK
    OpenHoldsFile
    MetaExact
    ReadsAreData
