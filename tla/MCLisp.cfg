SPECIFICATION Spec
CONSTANTS
    Sources <- MCSources
    ClassOf <- MCClassOf
    Programs <- MCPrograms
    Layouts <- MCLayouts
    NamePrefixes <- MCNamePrefixes
    MaxLen = 5
    ScreenWidth = 3
    ScreenHeight = 2
    ChanBits = 4
INVARIANTS
    TokensAreWords
    TreeIsTokens
    PixelsAgree
    NeverStops
    RapAddresses
CHECK_DEADLOCK FALSE
