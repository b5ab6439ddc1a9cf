CONSTANTS
    Size = 2
    BufSize = 1
    MaxKeys = 3
SPECIFICATION FairSpec
PROPERTIES EveryKeyHandled
