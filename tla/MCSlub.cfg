CONSTANTS
    Null = Null
    Slab = {s1, s2, s3}
    Cache = {c1, c2}
    Objects = 2
    InUseMax = 65535
SPECIFICATION Spec
INVARIANTS SlabLists ObjectsAccounted
PROPERTIES ImplementsObjectPool OnlyExhaustedFaults AllocEnds
VIEW View
