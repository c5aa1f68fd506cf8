CONSTANTS
    Tasks = {t1, t2}
    NoTask = NoTask
    Orders = {o1}
    Entries = {e1}
    NoItem = NoItem
    Urls = {main}
    DefaultUrl = main
    MaxInfo = 2
SPECIFICATION Spec
INVARIANTS InfoStaysAvailable
