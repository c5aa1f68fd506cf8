CONSTANTS
    Tasks = {t1, t2}
    NoTask = NoTask
    Orders = {o1, o2}
    Entries = {}
    NoItem = NoItem
    Urls = {main, other}
    DefaultUrl = main
    MaxInfo = 1
SPECIFICATION Spec
SYMMETRY Symmetry
INVARIANTS TypeOK NeverAhead
PROPERTIES NeverBack StoredFromCurrentUrl
