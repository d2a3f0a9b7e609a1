SPECIFICATION Spec
CONSTANTS
    t1 = t1
    t2 = t2
    m1 = m1
    Texts <- MCOneText
    Metas <- MCOneMeta
    Sizes <- MCTwoSizes
    Blank = t1
    Home = m1
    PageRows = 1
    Capacity = 1
    MaxGen = 2
    MaxHver = 1
    MaxHistory = 2
    MaxFaults = 1
INVARIANTS TypeOK DiffAlwaysFits
PROPERTIES ViewNeverRegresses
CHECK_DEADLOCK FALSE
