SPECIFICATION Spec
CONSTANTS
    NULL = NULL
    t1 = t1
    t2 = t2
    n1 = n1
    r1 = r1
    r2 = r2
    Sites = {s1, s2, s3, s4}
    Targets = {t1, t2}
    Names = {n1}
    Buckets = {0, 1}
    Bucket <- MCBucket
    Exprs <- MCExprs
    Values = {0}
    MaxParams = 2
INVARIANTS
    TypeOK
    ListOwned
    TablesAgree
    LinkedOnce
    LookUpFinds
    ParamFound
PROPERTIES
    StaleCause
CHECK_DEADLOCK FALSE
