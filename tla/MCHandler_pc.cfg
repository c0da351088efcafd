SPECIFICATION Spec
CONSTANTS
    NULL = NULL
    Undefined = Undefined
    lib = lib
    bad = bad
    inner = inner
    outer = outer
    row = row
    anon = anon
    Fns = {x1, x2, x3, x4, x5, x6}
    PCs = {lib, bad, inner, outer, row, anon}
    Unreadable = {bad}
    Callers = {inner, NULL}
    NoReturn = {"g"}
    Names <- MCNames
    LineAddr <- MCLineAddr
    FunctionAt <- MCFunctionAt
    Children <- MCChildren
    Stacks <- MCStacks
    MaxCalls = 3
INVARIANT ExecutedPC
CHECK_DEADLOCK FALSE
