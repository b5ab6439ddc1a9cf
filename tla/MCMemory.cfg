\* Four nodes: a next link is lost on a list of three, and the fourth node lets
\* other nodes come and go around the loss.  Up to 70 bytes, and 96 to 99: a
\* loop that needs 28 bytes at each end goes round more than once.
CONSTANTS
    Null = Null
    Node = {n1, n2, n3, n4}
    Source = 8
    Target = 136
    MemorySize = 260
    MaxLength = 70
    Lengths <- SomeLengths
    CompareLengths = {0, 1, 2, 3}
    StringLengths <- ShortStrings
    Filler = 1000
    little_size = 4
    Overlay = 2
    Letters = {1, 2}
    Texts <- SomeTexts
    MaxText = 7
    MaxHeld = 3
    Page = 4
    Top = 4
    Desc = 1
    TableStart = 6
    PerTable = 4
    Maps <- MCMaps
    Bits = 8
    Bit <- Shifts
    PageSize = 32
    Smallest = 4
    Slubs = 3
    Objects = 8
    MaxOrder = 2
    Pages = 8
    Kernel = 4
    PdBase = 96
    PdSize = 4
    Raw = {"kernel", "tails", "slab", "reserved"}
    Sizes = {0, 1, 5, 8, 9, 17, 96, 128, 129}
    MaxLive = 3
    Ebda = 2
    Bios = 2
    MaxTables = 2
    Mapped = 3
    Behind = {0, 9}
SPECIFICATION MemorySpec
INVARIANTS WellFormed StringsRight StringHolds GivenExactly DescriptorsInTable AllocatedMapsRight KmallocSound TablesFound
PROPERTIES ActsAsDeque
