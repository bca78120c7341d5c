SPECIFICATION Spec
CONSTANTS
    u1 = u1
    u2 = u2
    r1 = r1
    r2 = r2
    t1 = t1
    t2 = t2
    t3 = t3
    Units = {u1}
    Rows = {r1, r2}
    TxIds = {t1, t2, t3}
    MaxOpen = 2
    None = None
    NilTx = NilTx
CHECK_DEADLOCK FALSE
INVARIANTS
    SavedIsStored
