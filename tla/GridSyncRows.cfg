SPECIFICATION Spec
CONSTANTS
    t1 = t1
    t2 = t2
    m1 = m1
    Texts <- MCTexts
    Metas <- MCOneMeta
    Sizes <- MCOneRow
    Blank = t1
    Home = m1
    PageRows = 1
    Capacity = 2
    MaxGen = 4
    MaxHver = 0
    MaxHistory = 0
    MaxFaults = 1
INVARIANTS RingContiguous NoLostUpdate CurrentViewIsExact
CHECK_DEADLOCK FALSE
