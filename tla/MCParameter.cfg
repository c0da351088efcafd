SPECIFICATION Spec
CONSTANTS
    None = None
    Bad = Bad
    Objs = {o1, o2, o3, o4, o5, o6, o7, o8, o9, o10, o11, o12}
    Dies <- MCDies
    Die <- MCDie
    Rank <- MCRank
    Offsets = {1, 4, 8}
    MaxParams = 2
    MaxFamily = 9
INVARIANTS
    TypeOK
    Owned
    TypesAgree
    ValueFromEntry
    ValueWhole
PROPERTIES
    CallsEnd
