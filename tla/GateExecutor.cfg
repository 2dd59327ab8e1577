CONSTANTS
    Callers = {c1, c2, c3}
    Empty = Empty
    Pill = Pill
SPECIFICATION Spec
INVARIANT IndInv
PROPERTIES ImplementsGateRight Progress
