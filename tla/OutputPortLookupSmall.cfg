SPECIFICATION Spec
CONSTANTS
    PKT_WORDS = 9
    IN_DEPTH = 64
    INFO_DEPTH = 4
    NUMBERS = 3
INVARIANT NoFifoError
