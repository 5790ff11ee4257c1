SPECIFICATION Spec
CONSTANTS
    Pieces <- Words
    Lines <- FewLines
    Pattern <- TwoPieces
    Ten <- NoTen
    Chunk = 4
    MaxToken = 10
    MaxFrames = 3
    Kinds <- OnlyExact
CHECK_DEADLOCK FALSE
INVARIANTS ExactSeen
