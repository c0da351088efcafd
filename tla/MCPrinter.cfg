SPECIFICATION Spec
CONSTANTS
    None = None
    Size = 70
    Functions <- MCFunctions
    Info <- MCInfo
    Exprs <- MCExprs
    Expr <- MCExpr
    Rank <- MCRank
    Registers = 2
    MaxFunctions = 3
    MaxPasses = 2
INVARIANTS
    BufferOK
    TextWhole
CHECK_DEADLOCK FALSE
