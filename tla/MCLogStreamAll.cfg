SPECIFICATION FairSpec
CONSTANTS
    Pieces <- Words
    Lines <- SomeLines
    Pattern <- TwoPieces
    Ten <- ShortTen
    Chunk = 4
    MaxToken = 8
    MaxFrames = 3
    Kinds <- MostKinds
CHECK_DEADLOCK FALSE
INVARIANTS LogTypeOK SubstringNeverMissed  AwaitedIsFirst
PROPERTIES WrittenIsSeen
