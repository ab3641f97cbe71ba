SPECIFICATION FilterSpec
CONSTANTS
    Width = 2
    TokenCap = 9
    ExprCap = 22
    BinOps = {"*", "/", "+", "-", "<", "==", "&&", "||"}
    Leaves = {"n0", "n1", "arg0", "huge"}
    Depth = 2
    MaxText = 4
INVARIANTS AgreesWithC WellFormedAccepted AcceptedParses
CHECK_DEADLOCK FALSE
