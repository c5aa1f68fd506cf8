CONSTANTS
    Conns = {c1}
    NoConn = NoConn
    Ids = {empty, a}
    EmptyId = empty
    Tags = {t1, t2}
    Payloads <- AllPayloads
    Content = {v1, v2}
    v1 = v1
    v2 = v2
    Clock = {1, 2}
    MaxInteger = 2
    NoRow = NoRow
    NoTime = NoTime
SPECIFICATION Spec
INVARIANTS TypeOK DetailMatchesType ConfirmedLater NoOrphanTags GetByIdNeverFails
PROPERTIES UpsertSettles IdentityStable
