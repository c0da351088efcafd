SPECIFICATION Spec
CONSTANTS
    None = None
    Threads = {t1, t2}
    Signals = {SIGSEGV, SIGABRT}
    MaxUses = 2
    MaxOps = 1
INVARIANTS
    TypeOK
    Ledger
PROPERTIES
    Terminates
CHECK_DEADLOCK FALSE
