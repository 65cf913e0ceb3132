CONSTANTS
    Names = {x, y}
    Errors = {e}
    MaxSize = 4
    Traps = {}
SYMMETRY NameSymmetry
SPECIFICATION NilSpec
INVARIANTS NilSafe TypesAreHonest NarrowedIsNonNil DivergingBlocksEnd
CHECK_DEADLOCK FALSE
