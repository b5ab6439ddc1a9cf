CONSTANTS
    Null = Null
    Slab = {s1, s2, s3}
    Cache = {c1}
    Objects = 2
    InUseMax = 65535
SPECIFICATION Spec
PROPERTIES ListMustHaveObj
VIEW View
