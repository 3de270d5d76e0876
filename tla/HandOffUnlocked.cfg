SPECIFICATION Spec
CONSTANTS
    Items = {i1, i2, i3}
    Kinds = {"U", "D"}
    Null = Null
    Locked = FALSE
SYMMETRY Symmetry
INVARIANT HandedInOrder
CHECK_DEADLOCK FALSE
