SPECIFICATION Spec
CONSTANTS
    Compactors = {c1, c2}
    Compactions = {k1, k2}
    MaxWrites = 2
SYMMETRY Interchangeable
INVARIANTS BuilderKept ReportsHonest RetainedWasCompared
