\* the double breadth-first search against the definition of a center
SPECIFICATION Spec
CONSTANT MaxNodes = 5
INVARIANT OracleFindsCenter
CHECK_DEADLOCK FALSE
