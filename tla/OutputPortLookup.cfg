SPECIFICATION FairSpec
CONSTANTS
    PKT_WORDS = 14
    IN_DEPTH = 64
    INFO_DEPTH = 4
    NUMBERS = 3
INVARIANTS
    NothingOverwritten
    OwnResultsRightWords
PROPERTIES
    PacketsLeave
