CONSTANTS
    Tasks = {t1, t2}
    NoTask = NoTask
    Orders = {o1}
    Entries = {}
    NoItem = NoItem
    Urls = {main}
    DefaultUrl = main
    MaxInfo = 1
SPECIFICATION FairSpec
PROPERTIES RefreshConverges
