SPECIFICATION Spec
CONSTANTS
    u1 = u1
    u2 = u2
    r1 = r1
    r2 = r2
    t1 = t1
    t2 = t2
    t3 = t3
    Units = {u1, u2}
    Rows = {r1, r2}
    TxIds = {t1, t2, t3}
    MaxOpen = 2
    None = None
    NilTx = NilTx
SYMMETRY Symmetry
VIEW ButReply
\* A unit stops when every transaction id is used up or a connection never
\* comes back.
CHECK_DEADLOCK FALSE
INVARIANTS
    TypeOK
    ConnectionsAccounted
    NoHangWithoutSaveChange
PROPERTIES
    CommitAcksCommitted
    StoppedIsUndone
    ErrorFreesUnit
