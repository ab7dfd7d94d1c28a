SPECIFICATION Spec
CONSTANTS
    Handlers = {h1, h2}
    Junk = junk
    MaxElems = 5
INVARIANTS TypeOK FrontIsCurrent
PROPERTY ImplementsQueue
