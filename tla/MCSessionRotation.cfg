SPECIFICATION Spec
CONSTANTS
    t1 = t1
    t2 = t2
    Tabs <- MCOne
    Slots <- MCSlots
    MaxActs = 1
INVARIANT StoredRefreshIsLive
CHECK_DEADLOCK FALSE
