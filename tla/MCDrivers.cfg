CONSTANTS
    Size = 3
    BufSize = 2
    MaxKeys = 10
    RingSize = 1
    Tries = 2
    MaxPresses = 3
    Width = 4
    Height = 2
    TabStop = 2
    Offsets = 16
    Texts <- MCTexts
    Rooms = {1, 2}
    Numbers <- MCNumbers
    HexDigits = 2
    MaxChars = 7
SPECIFICATION DriverSpec
INVARIANTS LatestInRing HandledInOrder WholeUntilFull KeysAndAnswersApart StuckOnlyIfMissed StreamInOrder ScreenSound
PROPERTIES RingDrains
