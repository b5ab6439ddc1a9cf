CONSTANTS
    Ebda = 2
    Bios = 2
    MaxTables = 3
    Mapped = 4
    Behind = {0, 9}
SPECIFICATION AcpiSpec
INVARIANT XsdtUsed
