CONSTANTS
    KernelSectors = 5
    Stage2Sectors = 1
    BufferSectors = 2
    LoopSectors = 4
    Slots = 2
    Spare = 1
    PageEntries = 4
    MaxReports = 4
    MaxEmpty = 1
    Reports <- MCReports
    Nibble = 2
    Handler <- HandlerAt
    IST_END = 65532
    TssSize = 32
    Buffer = 57344
    Room = 8192
    Lines = {0, 1, 12}
    Depth = 2
    Frequency = 2500
    Wrap = 8
    ChunkMs = 2
    Gap = 3
    MaxMs = 5
SPECIFICATION MachineSpec
INVARIANTS HandedOver TablesRead LineServed FlagFollowsLocks WaitsExactly
PROPERTIES BootEnds TimerServed
\* The boot loader stops in HaltLoop or in the kernel, and the kernel in a panic.
CHECK_DEADLOCK FALSE
