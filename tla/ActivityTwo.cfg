CONSTANTS
    Conns = {c1, c2}
    NoConn = NoConn
    Ids = {a}
    EmptyId = empty
    Tags = {t1, t2}
    Payloads <- RacingPayloads
    Content = {v1}
    v1 = v1
    v2 = v2
    Clock = {1, 2}
    MaxInteger = 2
    NoRow = NoRow
    NoTime = NoTime
SPECIFICATION FairSpec
INVARIANTS Integrity QueriesNeverFail
PROPERTIES CallsReturn ImplementsStore
