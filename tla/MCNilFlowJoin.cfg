CONSTANTS
    Names = {x, y}
    Errors = {e}
    MaxSize = 4
    Traps = {"join"}
SPECIFICATION NilSpec
INVARIANT NilSafe
CHECK_DEADLOCK FALSE
