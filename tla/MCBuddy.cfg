CONSTANTS
    Null = Null
    MaxOrder = 2
    Span <- SpanOf
    Tops = 2
    PageType = {"kernel"}
    Scribble = {Junk}
SPECIFICATION Spec
INVARIANTS ListsWellFormed NoOverlap NoFreeBuddies KfreeFindsHead
PROPERTIES FreshHeader ImplementsBlockAllocator
VIEW View
