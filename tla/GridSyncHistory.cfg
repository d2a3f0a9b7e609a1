SPECIFICATION FairSpec
CONSTANTS
    t1 = t1
    t2 = t2
    m1 = m1
    Texts <- MCOneText
    Metas <- MCOneMeta
    Sizes <- MCOneRow
    Blank = t1
    Home = m1
    PageRows = 1
    Capacity = 1
    MaxGen = 2
    MaxHver = 2
    MaxHistory = 2
    MaxFaults = 1
PROPERTIES Converges
CHECK_DEADLOCK FALSE
