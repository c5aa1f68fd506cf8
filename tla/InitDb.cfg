CONSTANTS
    Inits = {i1, i2}
    Users = {u1}
    NoUser = NoUser
    Paths = {p1, p2}
    NoPath = NoPath
    Statements = 3
SPECIFICATION FairSpec
INVARIANTS TypeOK PublishedIsComplete BothOrNeither OnePathUnlessOverlap
PROPERTIES ErrorOnlyBeforeInit InitReturns
