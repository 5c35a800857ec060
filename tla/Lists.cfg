SPECIFICATION Spec
CONSTANTS
    ListNames = {a, b}
    Cells = {c1, c2, c3}
    NoCell = NoCell
    Ints = {i1}
    Strs = {s1}
    MaxSize = 2
SYMMETRY ListSymmetry
INVARIANTS
    TypeOK
    CopiesAreIndependent
PROPERTY OrderIsKept
CHECK_DEADLOCK FALSE
