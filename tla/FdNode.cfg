CONSTANTS
    Handlers = {h1, h2, h3}
    NULL = NULL
    NoMem = NoMem
SPECIFICATION Spec
INVARIANTS TypeOK NoOrphanHandler InterestExact
PROPERTIES ImplementsEventMap RewaitNeedsNoMemory
