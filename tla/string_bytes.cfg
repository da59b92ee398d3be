CONSTANTS
    Byte = {0, 1, 2}
    MaxSize = 4
SPECIFICATION Spec
INVARIANTS HoldsBytes ComparesAsStrNCmp
CHECK_DEADLOCK FALSE
