SPECIFICATION Spec
CONSTANTS
    Events = {e1, e2, e3, e4, e5, e6}
    Deadlines = {0, 1, 2}
    NoEvent = none
SYMMETRY EventSymmetry
INVARIANTS TypeOK IndexExact OutOfOrderOnlyAtIndex
PROPERTIES FrontYieldsToEarlier ImplementsDeadlineSet
