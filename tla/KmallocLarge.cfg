CONSTANTS
    Bits = 8
    Bit <- Shifts
    PageSize = 32
    Smallest = 4
    Slubs = 3
    Objects = 8
    MaxOrder = 2
    Pages = 8
    Kernel = 4
    PdBase = 96
    PdSize = 4
    Raw = {"kernel", "tails", "slab", "reserved"}
    Sizes = {0, 1, 5, 8, 9, 17, 96, 128, 129}
    MaxLive = 3
SPECIFICATION KmallocSpec
INVARIANT GrantIsMemory
